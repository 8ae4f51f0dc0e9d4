------------------------------- MODULE BotProofs -------------------------------
(***************************************************************************)
(* Theorems about what a tenant's bot runs on: its AI jobs (AIQueue), for  *)
(* every number of jobs, limits and retries, and its worker threads        *)
(* (TenantSupervision), for every number of bridges, callers, sends and    *)
(* reconnects.                                                             *)
(***************************************************************************)
EXTENDS AIQueue, TenantSupervision, FiniteSetTheorems, TLAPS

-----------------------------------------------------------------------------
(* AIQueue: Inv is inductive.  A job under the agent has a slot that counts, and
   the texts it sent since it was counted are within what its place allows. *)

Slotted == slots \subseteq Jobs /\ IsFiniteSet(slots) /\ Cardinality(slots) <= Limit /\ stale \subseteq slots

Counted == window \in 0..RateLimit /\ crashes \in 0..MaxCrashes

\* What holds of a job that is r, has sent n texts, and of the slots that count.
Sound(r, n) == n <= Due(r.at) /\ (r.at # "failed" => r.attempts < MaxAttempts)
Covered(j, r, held) == ~SlowAgent /\ r.at \in Agent => j \in held

Inv ==
  /\ Slotted /\ Counted
  /\ job \in [Jobs -> Job] /\ texts \in [Jobs -> Nat]
  /\ \A j \in Jobs : Sound(job[j], texts[j]) /\ Covered(j, job[j], slots \ stale)

-----------------------------------------------------------------------------

LEMMA DueValues ==
  ASSUME NEW at
  PROVE  /\ Due(at) \in 0..3
         /\ at \in {"reply", "apology", "done", "completed"} => Due(at) = 2
         /\ at \in {"undone", "stalled", "failed"} => Due(at) = 3
         /\ at \notin {"reply", "apology", "done", "completed", "undone", "stalled", "failed"} => Due(at) = 0
BY DEF Due

LEMMA InitInv == Init => Inv
<1>. SUFFICES ASSUME Init PROVE Inv
  OBVIOUS
<1>1. IsFiniteSet({}) /\ Cardinality({}) = 0
  BY FS_EmptySet
<1>2. Slotted /\ Counted
  BY <1>1, AIQueueAssumption DEF Init, Slotted, Counted
<1>3. ASSUME NEW j \in Jobs
      PROVE  Sound(job[j], texts[j]) /\ Covered(j, job[j], slots \ stale)
  BY DueValues, AIQueueAssumption DEF Init, Sound, Covered, Agent
<1>4. job \in [Jobs -> Job] /\ texts \in [Jobs -> Nat]
  BY AIQueueAssumption DEF Init, Job
<1>. QED BY <1>2, <1>3, <1>4 DEF Inv

\* A step that changes one job, and perhaps slots of jobs not under the agent.
LEMMA StepOfJob ==
  ASSUME Inv, NEW j \in Jobs, NEW r \in Job, NEW n \in Nat,
         job' = [job EXCEPT ![j] = r], texts' = [texts EXCEPT ![j] = n],
         Sound(r, n), Covered(j, r, slots' \ stale'), Slotted', Counted',
         \A k \in Jobs \ {j} : k \in slots \ stale => k \in slots' \ stale'
  PROVE  Inv'
<1>1. ASSUME NEW k \in Jobs
      PROVE  (Sound(job[k], texts[k]) /\ Covered(k, job[k], slots \ stale))'
  <2>1. CASE k = j
    BY <2>1 DEF Inv
  <2>2. CASE k # j
    BY <2>2 DEF Inv, Covered
  <2>. QED BY <2>1, <2>2
<1>. QED BY <1>1 DEF Inv

LEMMA TextsSame ==
  ASSUME Inv, NEW j \in Jobs, UNCHANGED texts
  PROVE  texts[j] \in Nat /\ texts' = [texts EXCEPT ![j] = texts[j]]
BY DEF Inv

LEMMA Numbers ==
  ASSUME NEW r \in Job
  PROVE  r.attempts \in 0..MaxAttempts /\ r.stalls \in 0..MaxStalls /\ r.delays \in 0..MaxDelays
BY DEF Job

\* A job that goes on to at keeps its counts.
LEMMA Gone ==
  ASSUME Inv, NEW j \in Jobs,
         NEW at \in {"waiting", "delayed", "stalled"} \cup Active \cup Ended, Goes(j, at)
  PROVE  \E r \in Job : /\ job' = [job EXCEPT ![j] = r]
                        /\ r.at = at /\ r.attempts = job[j].attempts /\ r.stalls = job[j].stalls
<1>. DEFINE r == [job[j] EXCEPT !.at = at]
<1>1. job[j] \in Job
  BY DEF Inv
<1>2. /\ r \in Job /\ r.at = at /\ r.attempts = job[j].attempts
      /\ r.stalls = job[j].stalls
  BY <1>1 DEF Job
<1>3. job' = [job EXCEPT ![j] = r]
  BY DEF Goes
<1>. HIDE DEF r
<1>. QED BY <1>2, <1>3

\* A job outside the agent that goes where no slot is needed.
LEMMA GoesOn ==
  ASSUME Inv, NEW j \in Jobs,
         NEW at \in {"waiting", "delayed", "completed"} \cup (Active \ Agent),
         Goes(j, at), job[j].at \in {"absent", "waiting", "delayed"} \cup (Active \ Agent),
         UNCHANGED texts, Slotted', Counted',
         \A k \in Jobs \ {j} : k \in slots \ stale => k \in slots' \ stale'
  PROVE  Inv'
<1>1. PICK r \in Job : /\ job' = [job EXCEPT ![j] = r]
                       /\ r.at = at /\ r.attempts = job[j].attempts /\ r.stalls = job[j].stalls
  BY Gone DEF Ended
<1>2. job[j] \in Job /\ Sound(job[j], texts[j])
  BY DEF Inv
<1>3. Due(job[j].at) = 0 /\ Due(r.at) \in Nat
  BY DueValues DEF Active, Agent
<1>4. r.at # "failed" /\ r.at \notin Agent /\ job[j].at # "failed"
  BY <1>1 DEF Agent, Active
<1>5. Sound(r, texts[j])
  BY <1>1, <1>2, <1>3, <1>4, TextsSame DEF Sound
<1>6. Covered(j, r, slots' \ stale')
  BY <1>4 DEF Covered
<1>. QED BY <1>1, <1>5, <1>6, TextsSame, StepOfJob

\* A job that fails has its attempt counted.
LEMMA FailedKeepsInv ==
  ASSUME Inv, NEW j \in Jobs, Failed(j), job[j].at \in Active, Slotted', Counted',
         \A k \in Jobs \ {j} : k \in slots \ stale => k \in slots' \ stale'
  PROVE  Inv'
<1>. DEFINE n == job[j].attempts + 1
            at == IF n < MaxAttempts THEN "delayed" ELSE "failed"
            r == [job[j] EXCEPT !.at = at, !.attempts = n]
<1>1. job[j] \in Job /\ Sound(job[j], texts[j]) /\ job[j].at # "failed"
  BY DEF Inv, Active, Agent
<1>2. job[j].attempts \in Nat /\ n \in 1..MaxAttempts /\ at \in {"delayed", "failed"}
  BY <1>1, Numbers, AIQueueAssumption DEF Sound
<1>3. (at = "delayed" => n < MaxAttempts) /\ (at = "failed" => n = MaxAttempts)
  BY <1>2, AIQueueAssumption
<1>4. job' = [job EXCEPT ![j] = r] /\ texts' = [texts EXCEPT ![j] = 0]
  BY DEF Failed
<1>10. n \in 0..MaxAttempts /\ at \in {"absent", "waiting", "delayed", "stalled"} \cup Active \cup Ended
  BY <1>2, AIQueueAssumption DEF Ended
<1>. HIDE DEF n, at
<1>6. /\ r \in Job /\ r.at = at /\ r.attempts = n /\ r.stalls = job[j].stalls
  BY <1>1, <1>10 DEF Job
<1>. HIDE DEF r
<1>8. Sound(r, 0)
  BY <1>2, <1>3, <1>6, DueValues DEF Sound
<1>9. Covered(j, r, slots' \ stale')
  BY <1>2, <1>6 DEF Covered, Agent
<1>. QED BY <1>4, <1>6, <1>8, <1>9, StepOfJob

\* Steps that leave the slots alone.
LEMMA SlotsSame ==
  ASSUME Inv, UNCHANGED <<slots, stale>>
  PROVE  Slotted' /\ \A k \in Jobs : k \in slots \ stale => k \in slots' \ stale'
BY DEF Inv, Slotted

LEMMA OutsideKeepsInv ==
  ASSUME Inv, NEW j \in Jobs,
         Enqueue(j) \/ Take(j) \/ Park(j) \/ Admit(j) \/ CheckRate(j) \/ AnswerOwner(j) \/ Yield(j) \/ Throws(j)
  PROVE  Inv'
<1>1. UNCHANGED <<slots, stale>>
  BY DEF Enqueue, Take, Park, Admit, CheckRate, AnswerOwner, Yield, Throws, redis
<1>2. Counted'
  BY AIQueueAssumption DEF Enqueue, Take, Park, Admit, CheckRate, AnswerOwner, Yield, Throws, redis, Inv, Counted
<1>3. CASE Failed(j) /\ job[j].at \in {"crowded", "check", "admit", "rate", "slot"}
  BY <1>1, <1>2, <1>3, SlotsSame, FailedKeepsInv DEF Active
<1>4. ASSUME NEW at \in {"waiting", "delayed", "check", "owner", "rate", "slot", "completed"}, Goes(j, at), UNCHANGED texts,
             job[j].at \in {"absent", "waiting", "delayed", "park", "admit", "rate", "owner", "crowded"}
      PROVE  Inv'
  BY <1>1, <1>2, <1>4, SlotsSame, GoesOn DEF Active, Agent
<1>. QED BY <1>3, <1>4 DEF Enqueue, Take, Park, Admit, CheckRate, AnswerOwner, Yield, Throws, Delayed

LEMMA CheckKeepsInv ==
  ASSUME Inv, NEW j \in Jobs, CheckConnection(j)
  PROVE  Inv'
<1>1. UNCHANGED <<slots, stale, texts>> /\ Counted' /\ job[j].at = "check"
  BY DEF CheckConnection, redis, Inv, Counted
<1>2. ASSUME NEW at \in {"admit", "completed"}, Goes(j, at)
      PROVE  Inv'
  BY <1>1, <1>2, SlotsSame, GoesOn DEF Active, Agent
<1>3. ASSUME job[j].delays < MaxDelays,
             job' = [job EXCEPT ![j] = [job[j] EXCEPT !.at = "park", !.delays = @ + 1]]
      PROVE  Inv'
  <2>. DEFINE at == "park"
              n == job[j].delays + 1
              r == [job[j] EXCEPT !.at = at, !.delays = n]
  <2>1. job[j] \in Job /\ Sound(job[j], texts[j])
    BY DEF Inv
  <2>2. n \in 0..MaxDelays
    BY <1>3, <2>1, Numbers, AIQueueAssumption
  <2>3. at \in {"absent", "waiting", "delayed", "stalled"} \cup Active \cup Ended /\ at = "park"
    BY DEF Active
  <2>4. job' = [job EXCEPT ![j] = r]
    BY <1>3
  <2>. HIDE DEF at, n
  <2>5. r \in Job /\ r.at = at /\ r.attempts = job[j].attempts /\ r.stalls = job[j].stalls
    BY <2>1, <2>2, <2>3 DEF Job
  <2>. HIDE DEF r
  <2>6. Due(job[j].at) = 0 /\ Due(r.at) = 0 /\ r.at = "park"
    BY <1>1, <2>3, <2>5, DueValues
  <2>7. Sound(r, texts[j]) /\ Covered(j, r, slots' \ stale')
    BY <1>1, <2>1, <2>5, <2>6 DEF Sound, Covered, Agent
  <2>. QED BY <1>1, <2>4, <2>5, <2>7, SlotsSame, TextsSame, StepOfJob
<1>. QED BY <1>2, <1>3 DEF CheckConnection

LEMMA RecoverKeepsInv ==
  ASSUME Inv, NEW j \in Jobs, Recover(j)
  PROVE  Inv'
<1>1. UNCHANGED <<slots, stale>> /\ Counted' /\ job[j].at = "stalled"
  BY DEF Recover, redis, Inv, Counted
<1>2. job[j] \in Job /\ Sound(job[j], texts[j]) /\ job[j].attempts < MaxAttempts
  BY <1>1 DEF Inv, Sound
<1>3. CASE job[j].stalls >= MaxStalls
  <2>1. Goes(j, "failed") /\ UNCHANGED texts
    BY <1>2, <1>3, Numbers, AIQueueAssumption DEF Recover
  <2>2. PICK r \in Job : /\ job' = [job EXCEPT ![j] = r] /\ r.at = "failed"
                         /\ r.attempts = job[j].attempts /\ r.stalls = job[j].stalls
    BY <2>1, Gone DEF Ended
  <2>3. Due(job[j].at) = 3 /\ Due(r.at) = 3
    BY <1>1, <2>2, DueValues
  <2>4. Sound(r, texts[j]) /\ Covered(j, r, slots' \ stale')
    BY <1>2, <2>2, <2>3 DEF Sound, Covered, Agent
  <2>. QED BY <1>1, <2>1, <2>2, <2>4, SlotsSame, TextsSame, StepOfJob
<1>4. CASE job[j].stalls < MaxStalls
  <2>. DEFINE at == "waiting"
              n == job[j].stalls + 1
              r == [job[j] EXCEPT !.at = at, !.stalls = n]
  <2>1. n \in 0..MaxStalls
    BY <1>2, <1>4, Numbers, AIQueueAssumption
  <2>2. at \in {"absent", "waiting", "delayed", "stalled"} \cup Active \cup Ended /\ at = "waiting"
    OBVIOUS
  <2>3. job' = [job EXCEPT ![j] = r] /\ texts' = [texts EXCEPT ![j] = 0]
    BY <1>4 DEF Recover
  <2>. HIDE DEF at, n
  <2>4. r \in Job /\ r.at = at /\ r.attempts = job[j].attempts
    BY <1>2, <2>1, <2>2 DEF Job
  <2>. HIDE DEF r
  <2>5. Due(r.at) \in Nat /\ r.at = "waiting"
    BY <2>2, <2>4, DueValues
  <2>6. Sound(r, 0) /\ Covered(j, r, slots' \ stale')
    BY <1>2, <2>4, <2>5 DEF Sound, Covered, Agent
  <2>. QED BY <1>1, <2>3, <2>4, <2>6, SlotsSame, StepOfJob
<1>. QED BY <1>2, <1>3, <1>4, Numbers, AIQueueAssumption

LEMMA OneMoreFits ==
  ASSUME NEW S, NEW x, NEW n \in Nat, IsFiniteSet(S), Cardinality(S) < n
  PROVE  IsFiniteSet(S \cup {x}) /\ Cardinality(S \cup {x}) <= n
<1>1. Cardinality(S) \in Nat
  BY FS_CardinalityType
<1>2. IsFiniteSet(S \cup {x}) /\ (\/ Cardinality(S \cup {x}) = Cardinality(S)
                                \/ Cardinality(S \cup {x}) = Cardinality(S) + 1)
  BY FS_AddElement
<1>. QED BY <1>1, <1>2

LEMMA OneLessFits ==
  ASSUME NEW S, NEW x, NEW n \in Nat, IsFiniteSet(S), Cardinality(S) <= n
  PROVE  IsFiniteSet(S \ {x}) /\ Cardinality(S \ {x}) <= n
<1>1. Cardinality(S) \in Nat
  BY FS_CardinalityType
<1>2. IsFiniteSet(S \ {x}) /\ (\/ Cardinality(S \ {x}) = Cardinality(S)
                              \/ Cardinality(S \ {x}) = Cardinality(S) - 1)
  BY FS_RemoveElement
<1>. QED BY <1>1, <1>2

\* The script drops what is stale, and adds one entry only below the limit.
LEMMA AcquireKeepsInv ==
  ASSUME Inv, NEW j \in Jobs, Acquire(j)
  PROVE  Inv'
<1>. DEFINE fresh == slots \ stale
<1>1. /\ IsFiniteSet(fresh) /\ Cardinality(fresh) \in Nat /\ Cardinality(fresh) <= Limit
      /\ fresh \subseteq Jobs
  BY FS_Subset, FS_CardinalityType, AIQueueAssumption DEF Inv, Slotted
<1>2. UNCHANGED texts /\ Counted' /\ stale' = {} /\ job[j].at = "slot"
  BY DEF Acquire, Inv, Counted
<1>3. CASE Cardinality(fresh) < Limit
  <2>1. Goes(j, "agent") /\ slots' = fresh \cup {j}
    BY <1>3 DEF Acquire
  <2>2. IsFiniteSet(slots') /\ Cardinality(slots') <= Limit
    <3>. HIDE DEF fresh
    <3>1. Limit \in Nat /\ Cardinality(fresh) < Limit
      BY <1>3, AIQueueAssumption
    <3>. QED BY <1>1, <2>1, <3>1, OneMoreFits
  <2>3. Slotted'
    BY <1>1, <1>2, <2>1, <2>2 DEF Slotted
  <2>4. PICK r \in Job : /\ job' = [job EXCEPT ![j] = r] /\ r.at = "agent"
                         /\ r.attempts = job[j].attempts /\ r.stalls = job[j].stalls
    BY <2>1, Gone DEF Active, Agent
  <2>5. job[j] \in Job /\ Sound(job[j], texts[j])
    BY DEF Inv
  <2>6. Due(job[j].at) = 0 /\ Due(r.at) = 0
    BY <1>2, <2>4, DueValues
  <2>7. Sound(r, texts[j]) /\ Covered(j, r, slots' \ stale')
    BY <1>2, <2>1, <2>4, <2>5, <2>6 DEF Sound, Covered
  <2>. QED BY <1>2, <2>1, <2>3, <2>4, <2>7, TextsSame, StepOfJob
<1>4. CASE ~(Cardinality(fresh) < Limit)
  <2>1. Goes(j, "crowded") /\ slots' = fresh
    BY <1>4 DEF Acquire
  <2>2. Slotted'
    BY <1>1, <1>2, <2>1 DEF Slotted
  <2>. QED BY <1>2, <2>1, <2>2, GoesOn DEF Active, Agent
<1>. QED BY <1>3, <1>4

LEMMA AnswerKeepsInv ==
  ASSUME Inv, NEW j \in Jobs, Answer(j)
  PROVE  Inv'
<1>1. UNCHANGED <<slots, stale>> /\ Counted' /\ job[j].at = "agent" /\ Goes(j, "reply")
  BY DEF Answer, redis, Inv, Counted
<1>2. PICK n \in {1, 2} : texts' = [texts EXCEPT ![j] = texts[j] + n]
  BY DEF Answer
<1>3. PICK r \in Job : /\ job' = [job EXCEPT ![j] = r] /\ r.at = "reply"
                       /\ r.attempts = job[j].attempts /\ r.stalls = job[j].stalls
  BY <1>1, Gone DEF Active, Agent
<1>4. /\ job[j] \in Job /\ Sound(job[j], texts[j]) /\ texts[j] \in Nat
      /\ Covered(j, job[j], slots \ stale)
  BY DEF Inv
<1>6. Due(r.at) = 2 /\ Due(job[j].at) = 0
  BY <1>1, <1>3, DueValues
<1>7. Sound(r, texts[j] + n) /\ Covered(j, r, slots' \ stale')
  BY <1>1, <1>3, <1>4, <1>6 DEF Sound, Covered, Agent
<1>8. texts[j] + n \in Nat
  BY <1>4
<1>. QED BY <1>1, <1>2, <1>3, <1>7, <1>8, SlotsSame, StepOfJob

LEMMA LogKeepsInv ==
  ASSUME Inv, NEW j \in Jobs, LogReply(j)
  PROVE  Inv'
<1>1. UNCHANGED <<slots, stale, texts>> /\ Counted' /\ job[j].at = "reply"
  BY DEF LogReply, redis, Inv, Counted
<1>2. ASSUME NEW at \in {"done", "apology", "undone"}, Goes(j, at)
      PROVE  Inv'
  <2>1. PICK r \in Job : /\ job' = [job EXCEPT ![j] = r] /\ r.at = at
                         /\ r.attempts = job[j].attempts /\ r.stalls = job[j].stalls
    BY <1>2, Gone DEF Active, Agent
  <2>2. /\ job[j] \in Job /\ Sound(job[j], texts[j]) /\ texts[j] \in Nat
        /\ Covered(j, job[j], slots \ stale)
    BY DEF Inv
  <2>3. Due(job[j].at) = 2 /\ Due(r.at) \in {2, 3}
    BY <1>1, <2>1, DueValues
  <2>4. Sound(r, texts[j]) /\ Covered(j, r, slots' \ stale')
    BY <1>1, <2>1, <2>2, <2>3 DEF Sound, Covered, Agent
  <2>. QED BY <1>1, <2>1, <2>4, TextsSame, SlotsSame, StepOfJob
<1>. QED BY <1>2 DEF LogReply

LEMMA ApologyKeepsInv ==
  ASSUME Inv, NEW j \in Jobs, Apologise(j)
  PROVE  Inv'
<1>1. UNCHANGED <<slots, stale>> /\ Counted' /\ job[j].at = "apology" /\ Goes(j, "undone")
  BY DEF Apologise, redis, Inv, Counted
<1>2. texts' = [texts EXCEPT ![j] = texts[j] + 1]
  BY DEF Apologise
<1>3. PICK r \in Job : /\ job' = [job EXCEPT ![j] = r] /\ r.at = "undone"
                       /\ r.attempts = job[j].attempts /\ r.stalls = job[j].stalls
  BY <1>1, Gone DEF Active, Agent
<1>4. /\ job[j] \in Job /\ Sound(job[j], texts[j]) /\ texts[j] \in Nat
      /\ Covered(j, job[j], slots \ stale)
  BY DEF Inv
<1>6. Due(r.at) = 3 /\ Due(job[j].at) = 2
  BY <1>1, <1>3, DueValues
<1>7. Sound(r, texts[j] + 1) /\ Covered(j, r, slots' \ stale')
  BY <1>1, <1>3, <1>4, <1>6 DEF Sound, Covered, Agent
<1>8. texts[j] + 1 \in Nat
  BY <1>4
<1>. QED BY <1>1, <1>2, <1>3, <1>7, <1>8, SlotsSame, StepOfJob

LEMMA ReleaseKeepsInv ==
  ASSUME Inv, NEW j \in Jobs, Release(j)
  PROVE  Inv'
<1>1. Counted' /\ job[j].at \in {"done", "undone"}
  BY DEF Release, Inv, Counted
<1>2. Slotted' /\ \A k \in Jobs \ {j} : k \in slots \ stale => k \in slots' \ stale'
  <2>1. CASE slots' = slots \ {j} /\ stale' = stale \ {j}
    <3>1. Slotted /\ Limit \in Nat
      BY AIQueueAssumption DEF Inv
    <3>2. IsFiniteSet(slots') /\ Cardinality(slots') <= Limit
      BY <2>1, <3>1, OneLessFits DEF Slotted
    <3>3. slots' \subseteq Jobs /\ stale' \subseteq slots'
      BY <2>1, <3>1 DEF Slotted
    <3>4. \A k \in Jobs \ {j} : k \in slots \ stale => k \in slots' \ stale'
      BY <2>1
    <3>. QED BY <3>2, <3>3, <3>4 DEF Slotted
  <2>2. CASE UNCHANGED <<slots, stale>>
    BY <2>2, SlotsSame
  <2>. QED BY <2>1, <2>2 DEF Release
<1>3. CASE Failed(j)
  BY <1>1, <1>2, <1>3, FailedKeepsInv DEF Active, Agent
<1>4. CASE Goes(j, "completed") /\ UNCHANGED texts /\ job[j].at = "done"
  <2>1. PICK r \in Job : /\ job' = [job EXCEPT ![j] = r] /\ r.at = "completed"
                         /\ r.attempts = job[j].attempts /\ r.stalls = job[j].stalls
    BY <1>4, Gone DEF Ended
  <2>2. Sound(job[j], texts[j])
    BY DEF Inv
  <2>3. Due(r.at) = 2 /\ Due(job[j].at) = 2
    BY <1>4, <2>1, DueValues
  <2>4. Sound(r, texts[j]) /\ Covered(j, r, slots' \ stale')
    BY <1>1, <2>1, <2>2, <2>3 DEF Sound, Covered, Agent
  <2>. QED BY <1>1, <1>2, <1>4, <2>1, <2>4, TextsSame, StepOfJob
<1>. QED BY <1>3, <1>4 DEF Release

\* A process that dies takes no answer back and frees no slot.
LEMMA CrashKeepsInv ==
  ASSUME Inv, Crash
  PROVE  Inv'
<1>1. UNCHANGED <<slots, stale, texts>> /\ Slotted' /\ Counted'
  BY AIQueueAssumption DEF Crash, redis, Inv, Slotted, Counted
<1>2. ASSUME NEW j \in Jobs
      PROVE  job'[j] \in Job /\ (Sound(job[j], texts[j]) /\ Covered(j, job[j], slots \ stale))'
  <2>1. job[j] \in Job /\ Sound(job[j], texts[j]) /\ Covered(j, job[j], slots \ stale)
        /\ texts[j] \in Nat
    BY DEF Inv
  <2>2. CASE job[j].at \in Active
    <3>. DEFINE at == "stalled"
                r == [job[j] EXCEPT !.at = at]
    <3>1. job'[j] = r
      BY <2>2 DEF Crash
    <3>2. at \in {"absent", "waiting", "delayed", "stalled"} \cup Active \cup Ended /\ at = "stalled"
      OBVIOUS
    <3>. HIDE DEF at
    <3>3. r \in Job /\ r.at = at /\ r.attempts = job[j].attempts /\ r.stalls = job[j].stalls
      BY <2>1, <3>2 DEF Job
    <3>. HIDE DEF r
    <3>4. Due(job[j].at) \in 0..3 /\ Due(r.at) = 3
      BY <3>2, <3>3, DueValues
    <3>5. job[j].at # "failed"
      BY <2>2 DEF Active, Agent
    <3>. QED BY <1>1, <2>1, <3>1, <3>2, <3>3, <3>4, <3>5 DEF Sound, Covered, Agent
  <2>3. CASE job[j].at \notin Active
    BY <1>1, <2>1, <2>3 DEF Crash
  <2>. QED BY <2>2, <2>3
<1>3. job' \in [Jobs -> Job]
  BY <1>2 DEF Crash
<1>. QED BY <1>1, <1>2, <1>3 DEF Inv

\* Time makes an entry stale only when nobody works for it.
LEMMA TimeKeepsInv ==
  ASSUME Inv, Slide \/ \E j \in Jobs : Age(j)
  PROVE  Inv'
<1>1. CASE Slide
  <2>1. UNCHANGED <<job, slots, stale, texts, crashes>> /\ window' = window - 1 /\ window > 0
    BY <1>1 DEF Slide
  <2>2. Counted'
    BY <2>1, AIQueueAssumption DEF Inv, Counted
  <2>3. Slotted'
    BY <2>1 DEF Inv, Slotted
  <2>. QED BY <2>1, <2>2, <2>3 DEF Inv, Covered
<1>2. ASSUME NEW j \in Jobs, Age(j)
      PROVE  Inv'
  <2>1. Slotted' /\ Counted' /\ UNCHANGED <<job, texts>>
    BY <1>2 DEF Age, Inv, Slotted, Counted
  <2>2. \A k \in Jobs : Covered(k, job[k], slots \ stale)'
    BY <1>2 DEF Age, Inv, Covered
  <2>. QED BY <2>1, <2>2 DEF Inv
<1>. QED BY <1>1, <1>2

-----------------------------------------------------------------------------

LEMMA StepKeepsInv == Inv /\ [Next]_vars => Inv'
<1>. SUFFICES ASSUME Inv, [Next]_vars PROVE Inv'
  OBVIOUS
<1>1. CASE UNCHANGED vars
  BY <1>1 DEF vars, Inv, Slotted, Counted
<1>2. ASSUME NEW j \in Jobs, Enqueue(j) \/ JobStep(j)
      PROVE  Inv'
  BY <1>2, OutsideKeepsInv, CheckKeepsInv, RecoverKeepsInv, AcquireKeepsInv, AnswerKeepsInv,
     LogKeepsInv, ApologyKeepsInv, ReleaseKeepsInv DEF JobStep
<1>. QED BY <1>1, <1>2, CrashKeepsInv, TimeKeepsInv DEF Next

LEMMA Invariance == Spec => []Inv
BY InitInv, StepKeepsInv, PTL DEF Spec

\* Every variable keeps its type, and no attempt sends more than three texts.
THEOREM TypeCorrect == Spec => []TypeOK
<1>1. Inv => TypeOK
  <2>. SUFFICES ASSUME Inv PROVE TypeOK
    OBVIOUS
  <2>1. ASSUME NEW j \in Jobs
        PROVE  texts[j] \in 0..3
    BY DueValues DEF Inv, Sound
  <2>. QED BY <2>1 DEF Inv, Slotted, Counted, TypeOK
<1>. QED BY <1>1, Invariance, PTL

\* No attempt that sent the customer a text goes uncounted, whatever crashes,
\* stalls, fails or is delayed, for every number of jobs and retries.
THEOREM AttemptsCounted == Spec => []TextsCounted
<1>1. Inv => TextsCounted
  BY DEF Inv, Sound, TextsCounted
<1>. QED BY <1>1, Invariance, PTL

\* As long as no reply outlasts its slot, no more jobs of a tenant are with the
\* agent than its limit, for every limit and every number of jobs and crashes.
THEOREM LimitHolds == ~SlowAgent => (Spec => []WithinLimit)
<1>. SUFFICES ASSUME ~SlowAgent PROVE Spec => []WithinLimit
  OBVIOUS
<1>1. Inv => WithinLimit
  <2>. SUFFICES ASSUME Inv PROVE WithinLimit
    OBVIOUS
  <2>. DEFINE running == {j \in Jobs : job[j].at \in Agent}
  <2>1. running \subseteq slots
    BY DEF Inv, Covered
  <2>. HIDE DEF running
  <2>2. /\ IsFiniteSet(running) /\ Cardinality(running) <= Cardinality(slots)
        /\ Cardinality(running) \in Nat /\ Cardinality(slots) \in Nat
    BY <2>1, FS_Subset, FS_CardinalityType DEF Inv, Slotted
  <2>. QED BY <2>2, AIQueueAssumption DEF running, Inv, Slotted, WithinLimit
<1>. QED BY <1>1, Invariance, PTL

-----------------------------------------------------------------------------
(* TenantSupervision: Supervised is inductive *)

\* A stop that waits knows the bridge it stops and what follows.
Stopping == \A p \in Procs : op[p].at \in {"sleep", "terminating"} =>
  op[p].bridge \in Bridges /\ op[p].kind \in {"stop", "reset", "respawn"}

\* A send waits for the answer of a bridge that exists and has its worker.
Called == \A r \in Requests : req[r].state = "waiting" =>
  req[r].bridge \in Bridges /\ bridge[req[r].bridge].worker

Bridge == [worker : BOOLEAN, alive : BOOLEAN, timer : BOOLEAN, overlaps : BOOLEAN]
Thread == [at : {"none", "booting", "up", "ending", "dead"},
           session : Sessions, beating : BOOLEAN, attempts : 0..MaxReconnects]
Operation == [at : Places, kind : Kinds, bridge : Bridges \cup {NoBridge}]
Call == [state : {"new", "waiting", "ok", "failed"}, bridge : Bridges \cup {NoBridge}]

\* TenantTypeOK, with names for the records.
Typed ==
  /\ map \in Bridges \cup {NoBridge}
  /\ bridge \in [Bridges -> Bridge] /\ thread \in [Bridges -> Thread]
  /\ inbox \in [Bridges -> Seq({"start", "stop"} \cup Requests)]
  /\ op \in [Procs -> Operation] /\ req \in [Requests -> Call]
  /\ cooldown \in BOOLEAN /\ deaths \in 0..MaxDeaths

Supervised == Typed /\ Stopping /\ Called

LEMMA InitSupervised == TenantInit => Supervised
<1>. SUFFICES ASSUME TenantInit PROVE Supervised
  OBVIOUS
<1>1. Unused \in Bridge /\ NoThread \in Thread /\ Idle \in Operation
      /\ [state |-> "new", bridge |-> NoBridge] \in Call
  BY TenantAssumption DEF Unused, Bridge, NoThread, Thread, Sessions, Idle, Operation, Places, Kinds, Call
<1>2. Typed
  <2>1. <<>> \in Seq({"start", "stop"} \cup Requests) /\ 0 \in 0..MaxDeaths
    BY TenantAssumption
  <2>. QED BY <1>1, <2>1 DEF TenantInit, Typed
<1>3. Stopping /\ Called
  BY DEF TenantInit, Stopping, Called, Idle
<1>. QED BY <1>2, <1>3 DEF Supervised

\* Rejecting the sends of a bridge leaves none that waits for it.
LEMMA RejectedCalls ==
  ASSUME req \in [Requests -> Call], NEW b \in Bridges
  PROVE  /\ Rejected(b) \in [Requests -> Call]
         /\ \A r \in Requests : Rejected(b)[r].state = "waiting" =>
              Rejected(b)[r] = req[r] /\ req[r].bridge # b
BY DEF Rejected, Pending, Call

\* A step of the bridges in which no worker goes and no send is asked.
LEMMA WorkersStay ==
  ASSUME Called,
         \A b \in Bridges : bridge[b].worker => bridge'[b].worker,
         \A r \in Requests : req'[r].state = "waiting" => req'[r] = req[r]
  PROVE  Called'
BY DEF Called

\* What follows a stop is no stop.
LEMMA AfterStopStops ==
  ASSUME NEW kind \in {"stop", "reset", "respawn"}
  PROVE  AfterStop(kind) \in Operation /\ AfterStop(kind).at \notin {"sleep", "terminating"}
BY DEF AfterStop, Idle, Operation, Places, Kinds

LEMMA EndsAreThreads ==
  ASSUME NEW at \in {"ending", "dead"}
  PROVE  Ends(at) \in Thread
<1>1. NoThread \in Thread
  BY TenantAssumption DEF NoThread, Thread, Sessions
<1>. QED BY <1>1 DEF Ends, Thread

\* An operation that moves on keeps what is known of the others.
LEMMA OperationMoves ==
  ASSUME Supervised, NEW p \in Procs, NEW o \in Operation, op' = [op EXCEPT ![p] = o],
         o.at \in {"sleep", "terminating"} =>
           o.bridge \in Bridges /\ o.kind \in {"stop", "reset", "respawn"}
  PROVE  op' \in [Procs -> Operation] /\ Stopping'
BY DEF Supervised, Typed, Stopping

LEMMA ReleaseMoves ==
  ASSUME Supervised, NEW b \in Bridges, op' = Released(b)
  PROVE  op' \in [Procs -> Operation] /\ Stopping'
<1>1. Idle \in Operation /\ Idle.at = "idle"
  BY DEF Idle, Operation, Places, Kinds
<1>. QED BY <1>1 DEF Supervised, Typed, Stopping, Released

\* WorkerBridge.terminate, up to its await.
LEMMA TerminateKeeps ==
  ASSUME Supervised, NEW b \in Bridges, Terminate(b), bridge' = bridge
  PROVE  thread' \in [Bridges -> Thread] /\ req' \in [Requests -> Call] /\ Called'
<1>1. Ends("ending") \in Thread
  BY EndsAreThreads
<1>2. thread' \in [Bridges -> Thread]
  BY <1>1 DEF Supervised, Typed, Terminate
<1>3. req' \in [Requests -> Call]
      /\ \A r \in Requests : req'[r].state = "waiting" => req'[r] = req[r]
  BY RejectedCalls DEF Supervised, Typed, Terminate
<1>. QED BY <1>2, <1>3, WorkersStay DEF Supervised

\* stopTenant up to its first await.
LEMMA StopKeeps ==
  ASSUME Supervised, NEW p \in Procs, NEW kind \in {"stop", "reset", "respawn"}, Stop(p, kind),
         cooldown' \in BOOLEAN
  PROVE  Supervised'
<1>types. /\ map \in Bridges \cup {NoBridge} /\ op \in [Procs -> Operation]
          /\ inbox \in [Bridges -> Seq({"start", "stop"} \cup Requests)]
          /\ req \in [Requests -> Call]
  BY DEF Supervised, Typed
<1>same. bridge' = bridge /\ thread' = thread /\ deaths' = deaths
  BY DEF Stop
<1>1. CASE map = NoBridge
  <2>1. op' = [op EXCEPT ![p] = AfterStop(kind)] /\ UNCHANGED <<map, inbox, req>>
    BY <1>1 DEF Stop
  <2>2. op' \in [Procs -> Operation] /\ Stopping'
    BY <2>1, AfterStopStops, OperationMoves
  <2>3. Called'
    BY <2>1, <1>same, WorkersStay DEF Supervised
  <2>. QED BY <1>same, <2>1, <2>2, <2>3 DEF Supervised, Typed
<1>2. CASE map # NoBridge /\ bridge[map].worker
  <2>. DEFINE o == [at |-> "sleep", kind |-> kind, bridge |-> map]
  <2>1. /\ inbox' = [inbox EXCEPT ![map] = Append(@, "stop")]
        /\ op' = [op EXCEPT ![p] = o] /\ UNCHANGED <<map, req>>
    BY <1>2 DEF Stop
  <2>2. o \in Operation /\ o.bridge \in Bridges /\ o.kind = kind
    BY <1>2, <1>types DEF Operation, Places, Kinds
  <2>. HIDE DEF o
  <2>3. op' \in [Procs -> Operation] /\ Stopping'
    BY <2>1, <2>2, OperationMoves
  <2>4. inbox' \in [Bridges -> Seq({"start", "stop"} \cup Requests)]
    BY <2>1, <1>2, <1>types
  <2>5. Called'
    BY <2>1, <1>same, WorkersStay DEF Supervised
  <2>. QED BY <1>same, <2>1, <2>3, <2>4, <2>5 DEF Supervised, Typed
<1>3. CASE map # NoBridge /\ ~bridge[map].worker
  <2>1. /\ req' = Rejected(map) /\ map' = NoBridge /\ UNCHANGED inbox
        /\ op' = [op EXCEPT ![p] = AfterStop(kind)]
    BY <1>3 DEF Stop
  <2>2. op' \in [Procs -> Operation] /\ Stopping'
    BY <2>1, AfterStopStops, OperationMoves
  <2>3. map \in Bridges
    BY <1>3, <1>types
  <2>4. req' \in [Requests -> Call]
        /\ \A r \in Requests : req'[r].state = "waiting" => req'[r] = req[r]
    BY <1>types, <2>1, <2>3, RejectedCalls
  <2>5. Called'
    BY <1>same, <2>4, WorkersStay DEF Supervised
  <2>. QED BY <1>same, <2>1, <2>2, <2>4, <2>5 DEF Supervised, Typed
<1>. QED BY <1>1, <1>2, <1>3

\* The steps of the manager's operations after the first.
LEMMA ContinueKeeps ==
  ASSUME Supervised, NEW p \in Procs, Continue(p)
  PROVE  Supervised'
<1>types. /\ map \in Bridges \cup {NoBridge} /\ op \in [Procs -> Operation]
          /\ bridge \in [Bridges -> Bridge] /\ thread \in [Bridges -> Thread]
  BY DEF Supervised, Typed
<1>idle. Idle \in Operation /\ Idle.at = "idle"
  BY DEF Idle, Operation, Places, Kinds
<1>1. ASSUME NEW o \in Operation, op' = [op EXCEPT ![p] = o], o.at \notin {"sleep", "terminating"},
             UNCHANGED <<map, bridge, thread, inbox, req, cooldown, deaths>>
      PROVE  Supervised'
  <2>1. op' \in [Procs -> Operation] /\ Stopping'
    BY <1>1, OperationMoves
  <2>2. Called'
    BY <1>1, WorkersStay DEF Supervised
  <2>. QED BY <1>1, <2>1, <2>2 DEF Supervised, Typed
<1>2. CASE StartRefused(p)
  BY <1>1, <1>2, <1>idle DEF StartRefused
<1>3. CASE Spawn(p)
  <2>1. PICK b \in Bridges :
          /\ map' = b
          /\ bridge' = [bridge EXCEPT ![b].worker = TRUE, ![b].timer = TRUE, ![b].overlaps = (Stops # {})]
          /\ thread' = [thread EXCEPT ![b].at = "booting"]
          /\ op' = [op EXCEPT ![p].at = "starting", ![p].bridge = b]
    BY <1>3 DEF Spawn
  <2>. DEFINE o == [op[p] EXCEPT !.at = "starting", !.bridge = b]
  <2>2. o \in Operation /\ o.at = "starting" /\ op' = [op EXCEPT ![p] = o]
    BY <2>1, <1>types DEF Operation, Places
  <2>. HIDE DEF o
  <2>3. op' \in [Procs -> Operation] /\ Stopping'
    BY <2>2, OperationMoves
  <2>4. bridge' \in [Bridges -> Bridge] /\ \A c \in Bridges : bridge[c].worker => bridge'[c].worker
    BY <2>1, <1>types DEF Bridge
  <2>5. thread' \in [Bridges -> Thread]
    BY <2>1, <1>types DEF Thread
  <2>6. UNCHANGED <<inbox, req, cooldown, deaths>>
    BY <1>3 DEF Spawn
  <2>7. Called'
    BY <2>4, <2>6, WorkersStay DEF Supervised
  <2>. QED BY <2>1, <2>3, <2>4, <2>5, <2>6, <2>7 DEF Supervised, Typed
<1>4. CASE SleepOver(p)
  <2>. DEFINE b == op[p].bridge
  <2>1. b \in Bridges /\ op[p].kind \in {"stop", "reset", "respawn"} /\ op[p] \in Operation
    BY <1>4, <1>types DEF SleepOver, Supervised, Stopping
  <2>2. Terminate(b) /\ UNCHANGED <<bridge, inbox, cooldown, deaths>>
    BY <1>4 DEF SleepOver
  <2>3. thread' \in [Bridges -> Thread] /\ req' \in [Requests -> Call] /\ Called'
    BY <2>1, <2>2, TerminateKeeps
  <2>4. op' \in [Procs -> Operation] /\ Stopping' /\ map' \in Bridges \cup {NoBridge}
    <3>1. CASE bridge[b].worker
      <4>. DEFINE o == [op[p] EXCEPT !.at = "terminating"]
      <4>1. op' = [op EXCEPT ![p] = o] /\ map' = map
        BY <1>4, <3>1 DEF SleepOver
      <4>2. o \in Operation /\ o.bridge = b /\ o.kind = op[p].kind
        BY <2>1 DEF Operation, Places
      <4>. HIDE DEF o
      <4>. QED BY <1>types, <2>1, <4>1, <4>2, OperationMoves
    <3>2. CASE ~bridge[b].worker
      <4>1. op' = [op EXCEPT ![p] = AfterStop(op[p].kind)] /\ map' = NoBridge
        BY <1>4, <3>2 DEF SleepOver
      <4>. QED BY <2>1, <4>1, AfterStopStops, OperationMoves
    <3>. QED BY <3>1, <3>2
  <2>. QED BY <2>2, <2>3, <2>4 DEF Supervised, Typed
<1>5. CASE AuthCleared(p)
  <2>1. UNCHANGED <<map, bridge, thread, inbox, req, cooldown, deaths>>
    BY <1>5 DEF AuthCleared
  <2>2. CASE op' = [op EXCEPT ![p].at = "lookup"]
    <3>. DEFINE o == [op[p] EXCEPT !.at = "lookup"]
    <3>1. o \in Operation /\ o.at = "lookup" /\ op' = [op EXCEPT ![p] = o]
      BY <1>types, <2>2 DEF Operation, Places
    <3>. HIDE DEF o
    <3>. QED BY <1>1, <2>1, <3>1
  <2>3. CASE op' = [op EXCEPT ![p] = Idle]
    BY <1>1, <1>idle, <2>1, <2>3
  <2>. QED BY <1>5, <2>2, <2>3 DEF AuthCleared
<1>. QED BY <1>2, <1>3, <1>4, <1>5 DEF Continue

\* A step of the thread alone.
LEMMA ThreadKeeps ==
  ASSUME Supervised, UNCHANGED <<map, bridge, op, req, cooldown>>, deaths' \in 0..MaxDeaths,
         thread' \in [Bridges -> Thread], inbox' \in [Bridges -> Seq({"start", "stop"} \cup Requests)]
  PROVE  Supervised'
<1>1. Called'
  BY WorkersStay DEF Supervised
<1>2. Stopping'
  BY DEF Supervised, Stopping
<1>. QED BY <1>1, <1>2 DEF Supervised, Typed

LEMMA DeathKeeps ==
  ASSUME Supervised, NEW b \in Bridges, ThreadDies(b)
  PROVE  Supervised'
<1>1. thread' \in [Bridges -> Thread]
  BY EndsAreThreads DEF ThreadDies, Supervised, Typed
<1>2. deaths' \in 0..MaxDeaths
  BY TenantAssumption DEF ThreadDies, Supervised, Typed
<1>. QED BY <1>1, <1>2, ThreadKeeps DEF ThreadDies, Supervised, Typed

\* The thread's handlers of commands and of the connection's events.
LEMMA ConnectionKeeps ==
  ASSUME Supervised, NEW b \in Bridges, Connection(b)
  PROVE  Supervised'
<1>types. /\ inbox \in [Bridges -> Seq({"start", "stop"} \cup Requests)] /\ req \in [Requests -> Call]
          /\ thread \in [Bridges -> Thread] /\ thread[b] \in Thread /\ deaths \in 0..MaxDeaths
  BY DEF Supervised, Typed
<1>tail. ASSUME inbox[b] # <<>>, inbox' = [inbox EXCEPT ![b] = Tail(@)]
         PROVE  inbox' \in [Bridges -> Seq({"start", "stop"} \cup Requests)]
  <2>1. Tail(inbox[b]) \in Seq({"start", "stop"} \cup Requests)
    BY <1>tail, <1>types
  <2>. QED BY <1>tail, <1>types, <2>1
<1>zero. 0 \in 0..MaxReconnects
  BY TenantAssumption
<1>up. thread[b].attempts < MaxReconnects => thread[b].attempts + 1 \in 0..MaxReconnects
  BY <1>types, TenantAssumption DEF Thread
<1>1. CASE HandleStart(b)
  <2>1. thread' \in [Bridges -> Thread]
    <3>1. CASE thread' = [thread EXCEPT ![b].session = "connecting", ![b].beating = TRUE, ![b].attempts = 0]
      BY <3>1, <1>types, <1>zero DEF Thread, Sessions
    <3>2. CASE thread' = [thread EXCEPT ![b].session = "failed", ![b].attempts = 0]
      BY <3>2, <1>types, <1>zero DEF Thread, Sessions
    <3>. QED BY <1>1, <3>1, <3>2 DEF HandleStart
  <2>2. inbox' \in [Bridges -> Seq({"start", "stop"} \cup Requests)]
    BY <1>1, <1>tail DEF HandleStart
  <2>. QED BY <1>1, <1>types, <2>1, <2>2, ThreadKeeps DEF HandleStart
<1>2. CASE HandleStop(b)
  <2>1. thread' \in [Bridges -> Thread]
    BY <1>2, <1>types DEF HandleStop, Thread, Sessions
  <2>2. inbox' \in [Bridges -> Seq({"start", "stop"} \cup Requests)]
    BY <1>2, <1>tail DEF HandleStop
  <2>. QED BY <1>2, <1>types, <2>1, <2>2, ThreadKeeps DEF HandleStop
<1>3. CASE HandleSend(b)
  <2>1. inbox' \in [Bridges -> Seq({"start", "stop"} \cup Requests)]
    BY <1>3, <1>tail DEF HandleSend
  <2>2. req' \in [Requests -> Call] /\ \A r \in Requests : req'[r].state = "waiting" => req'[r] = req[r]
    <3>1. CASE UNCHANGED req
      BY <3>1, <1>types
    <3>2. ASSUME NEW r \in Requests, NEW answer \in {"ok", "failed"},
                 req' = [req EXCEPT ![r].state = answer]
          PROVE  req' \in [Requests -> Call]
                 /\ \A q \in Requests : req'[q].state = "waiting" => req'[q] = req[q]
      BY <3>2, <1>types DEF Call
    <3>. QED BY <1>3, <3>1, <3>2 DEF HandleSend
  <2>3. UNCHANGED <<map, bridge, thread, op, cooldown, deaths>>
    BY <1>3 DEF HandleSend
  <2>4. Called'
    BY <2>2, <2>3, WorkersStay DEF Supervised
  <2>. QED BY <2>1, <2>2, <2>3, <2>4 DEF Supervised, Typed, Stopping
<1>gives. ASSUME NEW s \in {"loggedOut", "exhausted"}, GiveUp(b, s)
          PROVE  thread' \in [Bridges -> Thread]
  BY <1>gives, <1>types, <1>zero DEF GiveUp, Thread, Sessions
<1>again. ASSUME NEW s \in {"retrying", "lastTry"}, Again(b, s)
          PROVE  thread' \in [Bridges -> Thread]
  <2>1. CASE thread[b].attempts < MaxReconnects
    <3>. DEFINE n == thread[b].attempts + 1
                t == [thread[b] EXCEPT !.session = s, !.attempts = n]
    <3>1. thread' = [thread EXCEPT ![b].session = s, ![b].attempts = @ + 1]
      BY <1>again, <2>1 DEF Again
    <3>2. thread' = [thread EXCEPT ![b] = t]
      BY <1>types, <3>1
    <3>3. n \in 0..MaxReconnects
      BY <1>up, <2>1
    <3>. HIDE DEF n
    <3>4. t \in Thread
      BY <1>types, <3>3 DEF Thread, Sessions
    <3>. QED BY <1>types, <3>2, <3>4
  <2>2. CASE ~(thread[b].attempts < MaxReconnects)
    BY <1>again, <1>gives, <2>2 DEF Again
  <2>. QED BY <2>1, <2>2
<1>4. CASE Open(b)
  <2>1. thread' \in [Bridges -> Thread]
    BY <1>4, <1>types, <1>zero DEF Open, Thread, Sessions
  <2>. QED BY <1>4, <1>types, <2>1, ThreadKeeps DEF Open
<1>5. CASE Disconnect(b)
  <2>1. thread' \in [Bridges -> Thread]
    BY <1>5, <1>gives, <1>again DEF Disconnect
  <2>. QED BY <1>5, <1>types, <2>1, ThreadKeeps DEF Disconnect
<1>6. CASE Retry(b)
  <2>1. ASSUME NEW s \in {"connecting", "lost"}, thread' = [thread EXCEPT ![b].session = s]
        PROVE  thread' \in [Bridges -> Thread]
    BY <2>1, <1>types DEF Thread, Sessions
  <2>2. thread' \in [Bridges -> Thread]
    BY <1>6, <1>again, <2>1 DEF Retry
  <2>. QED BY <1>6, <1>types, <2>2, ThreadKeeps DEF Retry
<1>. QED BY <1>1, <1>2, <1>3, <1>4, <1>5, <1>6 DEF Connection

\* The main thread's listeners and timers of a bridge.
LEMMA MainKeeps ==
  ASSUME Supervised, NEW b \in Bridges, Main(b)
  PROVE  Supervised'
<1>types. /\ map \in Bridges \cup {NoBridge} /\ op \in [Procs -> Operation] /\ req \in [Requests -> Call]
          /\ bridge \in [Bridges -> Bridge] /\ thread \in [Bridges -> Thread]
          /\ inbox \in [Bridges -> Seq({"start", "stop"} \cup Requests)]
  BY DEF Supervised, Typed
<1>1. CASE Ready(b)
  <2>1. op' \in [Procs -> Operation] /\ Stopping'
    BY <1>1, ReleaseMoves DEF Ready
  <2>2. thread' \in [Bridges -> Thread]
    BY <1>1, <1>types DEF Ready, Thread
  <2>3. bridge' \in [Bridges -> Bridge] /\ \A c \in Bridges : bridge[c].worker => bridge'[c].worker
    BY <1>1, <1>types DEF Ready, Bridge
  <2>4. inbox' \in [Bridges -> Seq({"start", "stop"} \cup Requests)]
    BY <1>1, <1>types DEF Ready
  <2>5. UNCHANGED <<map, req, cooldown, deaths>>
    BY <1>1 DEF Ready
  <2>6. Called'
    BY <2>3, <2>5, WorkersStay DEF Supervised
  <2>. QED BY <2>1, <2>2, <2>3, <2>4, <2>5, <2>6 DEF Supervised, Typed
<1>2. CASE StartTimeout(b)
  <2>1. op' \in [Procs -> Operation] /\ Stopping'
    BY <1>2, ReleaseMoves DEF StartTimeout
  <2>2. bridge' \in [Bridges -> Bridge] /\ \A c \in Bridges : bridge[c].worker => bridge'[c].worker
    BY <1>2, <1>types DEF StartTimeout, Bridge
  <2>3. thread' \in [Bridges -> Thread]
    BY <1>2, <1>types, EndsAreThreads DEF StartTimeout, Terminate
  <2>4. req' \in [Requests -> Call]
        /\ \A r \in Requests : req'[r].state = "waiting" => req'[r] = req[r]
    BY <1>2, <1>types, RejectedCalls DEF StartTimeout, Terminate
  <2>5. UNCHANGED <<map, inbox, cooldown, deaths>>
    BY <1>2 DEF StartTimeout
  <2>6. Called'
    BY <2>2, <2>4, WorkersStay DEF Supervised
  <2>. QED BY <2>1, <2>2, <2>3, <2>4, <2>5, <2>6 DEF Supervised, Typed
<1>3. CASE Exit(b)
  <2>1. thread' \in [Bridges -> Thread]
    BY <1>3, <1>types, EndsAreThreads DEF Exit, ThreadGone
  <2>2. bridge' \in [Bridges -> Bridge] /\ \A c \in Bridges \ {b} : bridge'[c] = bridge[c]
    BY <1>3, <1>types DEF Exit, ThreadGone, Bridge
  <2>3. inbox' \in [Bridges -> Seq({"start", "stop"} \cup Requests)]
    <3>1. <<>> \in Seq({"start", "stop"} \cup Requests)
      OBVIOUS
    <3>. QED BY <1>3, <1>types, <3>1 DEF Exit, ThreadGone
  <2>4. op' \in [Procs -> Operation] /\ Stopping'
    <3>1. op' = [p \in Procs |-> IF p \in Ending(b) THEN AfterStop(op[p].kind) ELSE op[p]]
      BY <1>3 DEF Exit, ThreadGone
    <3>2. \A p \in Ending(b) : op[p].kind \in {"stop", "reset", "respawn"}
      BY DEF Ending, Supervised, Stopping
    <3>3. \A p \in Procs : op'[p] \in Operation
            /\ (op'[p].at \in {"sleep", "terminating"} => op'[p] = op[p])
      BY <1>types, <3>1, <3>2, AfterStopStops
    <3>. QED BY <3>1, <3>3 DEF Supervised, Stopping
  <2>5. req' \in [Requests -> Call]
        /\ \A r \in Requests : req'[r].state = "waiting" => req'[r] = req[r] /\ req[r].bridge # b
    BY <1>3, <1>types, RejectedCalls DEF Exit
  <2>6. map' \in Bridges \cup {NoBridge} /\ UNCHANGED <<cooldown, deaths>>
    BY <1>3, <1>types DEF Exit, ThreadGone
  <2>7. Called'
    BY <2>2, <2>5 DEF Supervised, Called
  <2>. QED BY <2>1, <2>2, <2>3, <2>4, <2>5, <2>6, <2>7 DEF Supervised, Typed
<1>4. CASE Heartbeat(b)
  <2>1. bridge' \in [Bridges -> Bridge] /\ \A c \in Bridges : bridge[c].worker => bridge'[c].worker
    BY <1>4, <1>types DEF Heartbeat, Bridge
  <2>2. UNCHANGED <<map, thread, inbox, op, req, cooldown, deaths>>
    BY <1>4 DEF Heartbeat
  <2>3. Called'
    BY <2>1, <2>2, WorkersStay DEF Supervised
  <2>. QED BY <2>1, <2>2, <2>3 DEF Supervised, Typed, Stopping
<1>. QED BY <1>1, <1>2, <1>3, <1>4 DEF Main

LEMMA SendKeeps ==
  ASSUME Supervised, NEW r \in Requests, Send(r) \/ SendTimeout(r)
  PROVE  Supervised'
<1>types. /\ map \in Bridges \cup {NoBridge} /\ req \in [Requests -> Call]
          /\ inbox \in [Bridges -> Seq({"start", "stop"} \cup Requests)]
  BY DEF Supervised, Typed
<1>same. UNCHANGED <<map, bridge, thread, op, cooldown, deaths>>
  BY DEF Send, SendTimeout
<1>1. CASE req' = [req EXCEPT ![r].state = "failed"] /\ UNCHANGED inbox
  <2>1. req' \in [Requests -> Call] /\ \A q \in Requests : req'[q].state = "waiting" => req'[q] = req[q]
    BY <1>1, <1>types DEF Call
  <2>2. Called'
    BY <1>same, <2>1, WorkersStay DEF Supervised
  <2>. QED BY <1>same, <1>1, <2>1, <2>2 DEF Supervised, Typed, Stopping
<1>2. CASE IsRunning(map) /\ Send(r)
  <2>1. /\ req' = [req EXCEPT ![r] = [state |-> "waiting", bridge |-> map]]
        /\ inbox' = [inbox EXCEPT ![map] = Append(@, r)]
    BY <1>2 DEF Send
  <2>2. map \in Bridges /\ bridge[map].worker
    BY <1>2, <1>types DEF IsRunning
  <2>3. inbox' \in [Bridges -> Seq({"start", "stop"} \cup Requests)]
    BY <1>types, <2>1, <2>2
  <2>4. req' \in [Requests -> Call]
    BY <1>types, <2>1 DEF Call
  <2>5. Called'
    BY <1>same, <1>types, <2>1, <2>2 DEF Supervised, Called
  <2>. QED BY <1>same, <2>3, <2>4, <2>5 DEF Supervised, Typed, Stopping
<1>. QED BY <1>1, <1>2 DEF Send, SendTimeout

LEMMA StepKeepsSupervised == Supervised /\ [TenantNext]_tenantVars => Supervised'
<1>. SUFFICES ASSUME Supervised, [TenantNext]_tenantVars PROVE Supervised'
  OBVIOUS
<1>types. op \in [Procs -> Operation] /\ cooldown \in BOOLEAN /\ Callers \subseteq Procs /\ Health \in Procs
  BY DEF Supervised, Typed, Procs
<1>1. CASE UNCHANGED tenantVars
  BY <1>1 DEF tenantVars, Supervised, Typed, Stopping, Called
<1>2. ASSUME NEW p \in Callers, BeginStart(p)
      PROVE  Supervised'
  <2>. DEFINE o == [at |-> "lookup", kind |-> "start", bridge |-> NoBridge]
  <2>1. o \in Operation /\ o.at = "lookup" /\ op' = [op EXCEPT ![p] = o]
    BY <1>2 DEF BeginStart, Operation, Places, Kinds
  <2>. HIDE DEF o
  <2>2. op' \in [Procs -> Operation] /\ Stopping'
    BY <1>types, <2>1, OperationMoves
  <2>3. UNCHANGED <<map, bridge, thread, inbox, req, cooldown, deaths>>
    BY <1>2 DEF BeginStart
  <2>4. Called'
    BY <2>3, WorkersStay DEF Supervised
  <2>. QED BY <2>2, <2>3, <2>4 DEF Supervised, Typed
<1>3. ASSUME NEW p \in Callers, BeginStop(p)
      PROVE  Supervised'
  BY <1>3, <1>types, StopKeeps DEF BeginStop
<1>4. ASSUME HealthCheck \/ CooldownOver
      PROVE  Supervised'
  <2>1. CASE UNCHANGED <<map, bridge, thread, inbox, op, req, deaths>> /\ cooldown' \in BOOLEAN
    <3>1. Called'
      BY <2>1, WorkersStay DEF Supervised
    <3>. QED BY <2>1, <3>1 DEF Supervised, Typed, Stopping
  <2>2. CASE Stop(Health, "respawn") /\ cooldown' \in BOOLEAN
    BY <1>types, <2>2, StopKeeps
  <2>. QED BY <1>4, <2>1, <2>2 DEF HealthCheck, CooldownOver
<1>. QED BY <1>1, <1>2, <1>3, <1>4, ContinueKeeps, DeathKeeps, ConnectionKeeps, MainKeeps, SendKeeps
         DEF TenantNext

LEMMA TenantInvariance == TenantSpec => []Supervised
BY InitSupervised, StepKeepsSupervised, PTL DEF TenantSpec

\* Every variable of a tenant's supervision keeps its type: no operation is
\* left without the bridge it stops, and no reconnect goes beyond its limit.
THEOREM TenantTypesHold == TenantSpec => []TenantTypeOK
<1>1. Supervised => TenantTypeOK
  BY DEF Supervised, Typed, TenantTypeOK, Bridge, Thread, Operation, Call
<1>. QED BY <1>1, TenantInvariance, PTL

\* No send waits on a bridge whose worker is gone, however starts, stops,
\* respawns, timeouts and crashes interleave, for every number of bridges and
\* sends: it is answered, fails with the worker or is never posted.
THEOREM NoSendLeftBehind == TenantSpec => []PendingHasWorker
<1>1. Supervised => PendingHasWorker
  BY DEF Supervised, Called, PendingHasWorker
<1>. QED BY <1>1, TenantInvariance, PTL

-----------------------------------------------------------------------------
(* TenantSupervision: Lone is inductive.  A bridge that runs and was started
   while no stop waited is the one the manager knows, and every stop that waits
   now waits for it: no bridges.delete can come before its worker is gone. *)

Runs(b) == bridge[b].worker /\ ~bridge[b].overlaps
Lone == \A b \in Bridges : Runs(b) => b = map /\ \A p \in Stops : op[p].bridge = b

\* A step that starts no worker, forgets no bridge that runs and begins no stop.
LEMMA LoneStays ==
  ASSUME Lone,
         \A b \in Bridges : Runs(b)' => Runs(b) /\ map' = map,
         \A p \in Procs : op'[p].at \in {"sleep", "terminating"} =>
           op[p].at \in {"sleep", "terminating"} /\ op'[p].bridge = op[p].bridge
  PROVE  Lone'
BY DEF Lone, Stops

LEMMA StopKeepsLone ==
  ASSUME Supervised, Lone, NEW p \in Procs, NEW kind \in {"stop", "reset", "respawn"}, Stop(p, kind)
  PROVE  Lone'
<1>types. map \in Bridges \cup {NoBridge} /\ op \in [Procs -> Operation]
  BY DEF Supervised, Typed
<1>same. bridge' = bridge /\ \A b : Runs(b)' = Runs(b)
  BY DEF Stop, Runs
<1>after. AfterStop(kind).at \notin {"sleep", "terminating"}
  BY AfterStopStops
<1>1. CASE map = NoBridge
  <2>1. op' = [op EXCEPT ![p] = AfterStop(kind)] /\ map' = map
    BY <1>1 DEF Stop
  <2>2. op'[p] = AfterStop(kind) /\ \A q \in Procs \ {p} : op'[q] = op[q]
    BY <1>types, <2>1
  <2>. QED BY <1>same, <1>after, <2>1, <2>2, LoneStays
<1>2. CASE map # NoBridge /\ bridge[map].worker
  <2>1. op' = [op EXCEPT ![p] = [at |-> "sleep", kind |-> kind, bridge |-> map]] /\ map' = map
    BY <1>2 DEF Stop
  <2>2. op'[p].bridge = map /\ \A q \in Procs \ {p} : op'[q] = op[q]
    BY <1>types, <2>1
  <2>. QED BY <1>same, <2>1, <2>2 DEF Lone, Stops
<1>3. CASE map # NoBridge /\ ~bridge[map].worker
  <2>1. \A b \in Bridges : ~Runs(b)
    BY <1>3 DEF Lone, Runs
  <2>. QED BY <1>same, <2>1 DEF Lone
<1>. QED BY <1>1, <1>2, <1>3

\* A new bridge is the only one of its kind: the one before it does not run.
LEMMA SpawnKeepsLone ==
  ASSUME Supervised, Lone, NEW p \in Procs, Spawn(p)
  PROVE  Lone'
<1>1. PICK b \in Bridges :
        /\ map' = b
        /\ bridge' = [bridge EXCEPT ![b].worker = TRUE, ![b].timer = TRUE, ![b].overlaps = (Stops # {})]
        /\ op' = [op EXCEPT ![p].at = "starting", ![p].bridge = b]
  BY DEF Spawn
<1>types. bridge \in [Bridges -> Bridge] /\ op \in [Procs -> Operation]
  BY DEF Supervised, Typed
<1>2. \A c \in Bridges : ~Runs(c)
  BY TenantAssumption DEF Spawn, IsRunning, Lone, Runs
<1>3. bridge'[b].overlaps = (Stops # {}) /\ \A c \in Bridges \ {b} : bridge'[c] = bridge[c]
  BY <1>1, <1>types DEF Bridge
<1>4. \A c \in Bridges : Runs(c)' => c = b /\ Stops = {}
  BY <1>2, <1>3 DEF Runs
<1>5. op'[p].at = "starting" /\ \A q \in Procs \ {p} : op'[q] = op[q]
  BY <1>1, <1>types DEF Operation
<1>6. Stops' \subseteq Stops
  BY <1>5 DEF Stops
<1>. QED BY <1>1, <1>4, <1>6 DEF Lone

\* A stop forgets whatever bridge the manager knows: none that runs by itself.
LEMMA SleepOverKeepsLone ==
  ASSUME Supervised, Lone, NEW p \in Procs, SleepOver(p)
  PROVE  Lone'
<1>types. op \in [Procs -> Operation] /\ op[p].at = "sleep" /\ p \in Stops /\ bridge' = bridge
  BY DEF Supervised, Typed, SleepOver, Stops
<1>same. \A b : Runs(b)' = Runs(b)
  BY <1>types DEF Runs
<1>1. CASE bridge[op[p].bridge].worker
  <2>1. op' = [op EXCEPT ![p].at = "terminating"] /\ map' = map
    BY <1>1 DEF SleepOver
  <2>2. op'[p].bridge = op[p].bridge /\ \A q \in Procs \ {p} : op'[q] = op[q]
    BY <1>types, <2>1 DEF Operation
  <2>. QED BY <1>same, <1>types, <2>1, <2>2, LoneStays
<1>2. CASE ~bridge[op[p].bridge].worker
  <2>1. \A b \in Bridges : ~Runs(b)
    BY <1>2, <1>types DEF Lone, Runs
  <2>. QED BY <1>same, <2>1 DEF Lone
<1>. QED BY <1>1, <1>2

LEMMA ExitKeepsLone ==
  ASSUME Supervised, Lone, NEW b \in Bridges, Exit(b)
  PROVE  Lone'
<1>1. /\ bridge' = [bridge EXCEPT ![b].worker = FALSE, ![b].alive = FALSE]
      /\ op' = [p \in Procs |-> IF p \in Ending(b) THEN AfterStop(op[p].kind) ELSE op[p]]
      /\ map' = IF Ending(b) = {} THEN map ELSE NoBridge
  BY DEF Exit, ThreadGone
<1>types. bridge \in [Bridges -> Bridge] /\ op \in [Procs -> Operation]
  BY DEF Supervised, Typed
<1>2. ~Runs(b)' /\ \A c \in Bridges \ {b} : Runs(c)' = Runs(c)
  BY <1>1, <1>types DEF Bridge, Runs
<1>3. Ending(b) # {} => \A c \in Bridges : Runs(c) => c = b
  BY DEF Lone, Ending, Stops
<1>4. \A q \in Ending(b) : op'[q].at \notin {"sleep", "terminating"}
  <2>. SUFFICES ASSUME NEW q \in Ending(b) PROVE op'[q].at \notin {"sleep", "terminating"}
    OBVIOUS
  <2>1. q \in Procs /\ op[q].kind \in {"stop", "reset", "respawn"}
    BY DEF Ending, Supervised, Stopping
  <2>. QED BY <1>1, <2>1, AfterStopStops
<1>5. \A q \in Procs \ Ending(b) : op'[q] = op[q]
  BY <1>1
<1>. QED BY <1>1, <1>2, <1>3, <1>4, <1>5, LoneStays

LEMMA StepKeepsLone ==
  ASSUME Supervised, Lone, [TenantNext]_tenantVars
  PROVE  Lone'
<1>types. bridge \in [Bridges -> Bridge] /\ op \in [Procs -> Operation]
  BY DEF Supervised, Typed
<1>1. CASE UNCHANGED <<map, bridge, op>>
  BY <1>1 DEF Lone, Runs, Stops
<1>2. ASSUME NEW p \in Procs, NEW o, o.at \notin {"sleep", "terminating"}, op' = [op EXCEPT ![p] = o],
             UNCHANGED <<map, bridge>>
      PROVE  Lone'
  <2>1. op'[p] = o /\ \A q \in Procs \ {p} : op'[q] = op[q]
    BY <1>2, <1>types
  <2>. QED BY <1>2, <2>1, LoneStays DEF Runs
<1>3. ASSUME NEW p \in Procs, BeginStart(p) \/ StartRefused(p)
      PROVE  Lone'
  BY <1>2, <1>3 DEF BeginStart, StartRefused, Idle
<1>4. ASSUME NEW p \in Procs, AuthCleared(p)
      PROVE  Lone'
  <2>1. UNCHANGED <<map, bridge>>
    BY <1>4 DEF AuthCleared
  <2>2. CASE op' = [op EXCEPT ![p] = Idle]
    BY <1>2, <2>1, <2>2 DEF Idle
  <2>3. CASE op' = [op EXCEPT ![p].at = "lookup"]
    <3>1. op' = [op EXCEPT ![p] = [op[p] EXCEPT !.at = "lookup"]]
      BY <1>types, <2>3
    <3>2. [op[p] EXCEPT !.at = "lookup"].at = "lookup"
      BY <1>types DEF Operation
    <3>. QED BY <1>2, <2>1, <3>1, <3>2
  <2>. QED BY <1>4, <2>2, <2>3 DEF AuthCleared
<1>5. ASSUME NEW b \in Bridges, Ready(b) \/ StartTimeout(b) \/ Heartbeat(b)
      PROVE  Lone'
  <2>1. map' = map /\ \A c \in Bridges : Runs(c)' => Runs(c)
    BY <1>5, <1>types DEF Ready, StartTimeout, Heartbeat, Runs, Bridge
  <2>2. op' = Released(b) \/ op' = op
    BY <1>5 DEF Ready, StartTimeout, Heartbeat
  <2>3. \A q \in Procs : op'[q] = op[q] \/ op'[q].at = "idle"
    BY <2>2 DEF Released, Idle
  <2>. QED BY <2>1, <2>3, LoneStays
<1>6. ASSUME NEW p \in Procs, BeginStop(p) \/ (p = Health /\ HealthCheck)
      PROVE  Lone'
  BY <1>1, <1>6, StopKeepsLone DEF BeginStop, HealthCheck
<1>7. ASSUME NEW p \in Procs, Continue(p)
      PROVE  Lone'
  BY <1>3, <1>4, <1>7, SpawnKeepsLone, SleepOverKeepsLone DEF Continue
<1>8. ASSUME NEW b \in Bridges, ThreadDies(b) \/ Connection(b)
      PROVE  Lone'
  BY <1>1, <1>8 DEF ThreadDies, Connection, HandleStart, HandleStop, HandleSend, Open, Disconnect, Retry
<1>9. CASE CooldownOver \/ UNCHANGED tenantVars \/ \E r \in Requests : Send(r) \/ SendTimeout(r)
  BY <1>1, <1>9 DEF CooldownOver, tenantVars, Send, SendTimeout
<1>. QED BY <1>3, <1>5, <1>6, <1>7, <1>8, <1>9, ExitKeepsLone DEF TenantNext, Main, Procs

\* For every number of bridges and callers: however starts, stops, resets and
\* respawns overlap, a worker whose start overlapped no waiting stop runs for the
\* bridge the manager knows, so that no two such workers run at once.
THEOREM OneWorkerPerTenant == TenantSpec => []OneWorker
<1>1. TenantInit => Lone
  BY DEF TenantInit, Lone, Runs, Unused
<1>2. Supervised /\ Lone /\ [TenantNext]_tenantVars => Lone'
  BY StepKeepsLone
<1>3. Supervised /\ Lone => OneWorker
  BY DEF Supervised, Typed, Bridge, Lone, Runs, OneWorker
<1>. QED BY <1>1, <1>2, <1>3, TenantInvariance, PTL DEF TenantSpec
=============================================================================
