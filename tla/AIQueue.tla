------------------------------- MODULE AIQueue -------------------------------
(***************************************************************************)
(* The AI jobs of one tenant (ai-queue.ts): processAIJob from await to     *)
(* await, the tenant's concurrency slots and rate window in Redis          *)
(* (rate-limiter.ts), and what BullMQ does with a job whose processor      *)
(* returns, throws, asks for a delay or dies.  Hermes and the sends of its *)
(* answer are one step; a reply's words are left out, and so are product   *)
(* images, of which processWithHermes returns none.                        *)
(***************************************************************************)
EXTENDS Naturals, FiniteSets

CONSTANTS Jobs,
          Limit,        \* ai_concurrency of the tenant
          RateLimit,    \* rate_limit_per_minute
          MaxAttempts,  \* QUEUE_MAX_RETRIES
          MaxDelays,    \* MAX_OFFLINE_DELAYS
          MaxStalls,    \* how often BullMQ takes a job back from a dead process
          MaxCrashes,   \* crashes of the process in a behaviour (bound)
          SlowAgent     \* TRUE: a reply may take longer than CONCURRENCY_STALE_MS

ASSUME AIQueueAssumption ==
  /\ Limit \in Nat \ {0} /\ RateLimit \in Nat /\ MaxAttempts \in Nat \ {0}
  /\ MaxDelays \in Nat /\ MaxStalls \in Nat /\ MaxCrashes \in Nat
  /\ SlowAgent \in BOOLEAN

VARIABLES job,       \* where each job is, and what BullMQ and _delayCount count
          slots,     \* concurrency:<tenant>: the jobs that have a slot
          stale,     \* those of them whose entry is older than 5 minutes
          window,    \* ratelimit:<tenant>: entries younger than a minute
          texts,     \* texts sent since an attempt or a stall was counted (history)
          crashes

vars == <<job, slots, stale, window, texts, crashes>>

\* The awaits of processAIJob, in the order of the code: "agent" and "reply" are
\* the body of the try, "apology" its catch, "done" and "undone" its finally after
\* a return or a throw.
Agent == {"agent", "reply", "apology", "done", "undone"}
Active == {"check", "park", "admit", "owner", "rate", "slot", "crowded"} \cup Agent
Ended == {"completed", "failed"}

Job == [at : {"absent", "waiting", "delayed", "stalled"} \cup Active \cup Ended,
        attempts : 0..MaxAttempts, delays : 0..MaxDelays, stalls : 0..MaxStalls]

TypeOK ==
  /\ job \in [Jobs -> Job]
  /\ slots \subseteq Jobs /\ Cardinality(slots) <= Limit /\ stale \subseteq slots
  /\ window \in 0..RateLimit
  /\ texts \in [Jobs -> 0..3]
  /\ crashes \in 0..MaxCrashes

Init ==
  /\ job = [j \in Jobs |-> [at |-> "absent", attempts |-> 0, delays |-> 0, stalls |-> 0]]
  /\ slots = {} /\ stale = {} /\ window = 0
  /\ texts = [j \in Jobs |-> 0] /\ crashes = 0

redis == <<slots, stale, window>>
Goes(j, at) == job' = [job EXCEPT ![j] = [job[j] EXCEPT !.at = at]]

-----------------------------------------------------------------------------
(* What BullMQ does *)

Enqueue(j) ==
  /\ job[j].at = "absent" /\ Goes(j, "waiting")
  /\ UNCHANGED <<redis, texts, crashes>>

\* A worker takes the job; a delayed one is promoted when its time has come.
Take(j) ==
  /\ job[j].at \in {"waiting", "delayed"} /\ Goes(j, "check")
  /\ UNCHANGED <<redis, texts, crashes>>

\* Mutant: the attempt is not counted.
FailedUncounted(j) ==
  LET n == job[j].attempts + 1
  IN  Goes(j, IF n < MaxAttempts THEN "delayed" ELSE "failed") /\ UNCHANGED texts

\* The processor throws: the job waits for its backoff, or goes to the failed set.
Failed(j) ==
  LET n == job[j].attempts + 1
      at == IF n < MaxAttempts THEN "delayed" ELSE "failed"
  IN  /\ job' = [job EXCEPT ![j] = [job[j] EXCEPT !.at = at, !.attempts = n]]
      /\ texts' = [texts EXCEPT ![j] = 0]

\* moveToDelayed and the DelayedError: no attempt is counted.
Delayed(j) == Goes(j, "delayed")

\* A stalled job goes back to the queue, unless it has stalled too often.
Recover(j) ==
  /\ job[j].at = "stalled"
  /\ IF job[j].stalls < MaxStalls
       THEN /\ job' = [job EXCEPT ![j] = [job[j] EXCEPT !.at = "waiting", !.stalls = @ + 1]]
            /\ texts' = [texts EXCEPT ![j] = 0]
       ELSE Goes(j, "failed") /\ UNCHANGED texts
  /\ UNCHANGED <<redis, crashes>>

-----------------------------------------------------------------------------
(* processAIJob *)

\* The tenant's worker is alive or it is not (it may turn at any time, and nothing
\* else reads it).  Offline: the count is stored before the delay is asked for.
CheckConnection(j) ==
  /\ job[j].at = "check"
  /\ \/ Goes(j, "admit")
     \/ job[j].delays >= MaxDelays /\ Goes(j, "completed")
     \/ /\ job[j].delays < MaxDelays
        /\ job' = [job EXCEPT ![j] = [job[j] EXCEPT !.at = "park", !.delays = @ + 1]]
  /\ UNCHANGED <<redis, texts, crashes>>

\* moveToDelayed with job.id for a token: what it throws drops the job.
Park(j) ==
  /\ job[j].at = "park"
  /\ Delayed(j) \/ Goes(j, "completed")
  /\ UNCHANGED <<redis, texts, crashes>>

\* The incoming message is logged.  The owner's own chat goes past every limit; a
\* tenant without messages left and a contact whose AI is paused get no reply.
Admit(j) ==
  /\ job[j].at = "admit"
  /\ \E at \in {"owner", "rate", "completed"} : Goes(j, at)
  /\ UNCHANGED <<redis, texts, crashes>>

CheckRate(j) ==
  /\ job[j].at = "rate"
  /\ IF window < RateLimit
       THEN Goes(j, "slot") /\ window' = window + 1
       ELSE Goes(j, "completed") /\ UNCHANGED window
  /\ UNCHANGED <<slots, stale, texts, crashes>>

\* processOwnerWithHermes and its sends: whatever they throw is caught.
AnswerOwner(j) ==
  /\ job[j].at = "owner" /\ Goes(j, "completed")
  /\ UNCHANGED <<redis, texts, crashes>>

\* Mutant: ZREMRANGEBYSCORE is missing, so an entry left behind counts for ever.
AcquireKeepingStale(j) ==
  /\ job[j].at = "slot"
  /\ IF Cardinality(slots) < Limit
       THEN Goes(j, "agent") /\ slots' = slots \cup {j} /\ stale' = stale \ {j}
       ELSE Goes(j, "crowded") /\ UNCHANGED <<slots, stale>>
  /\ UNCHANGED <<window, texts, crashes>>

\* Mutant: <= for <.
AcquireOneMore(j) ==
  /\ job[j].at = "slot"
  /\ LET fresh == slots \ stale
     IN  IF Cardinality(fresh) <= Limit
           THEN Goes(j, "agent") /\ slots' = fresh \cup {j}
           ELSE Goes(j, "crowded") /\ slots' = fresh
  /\ stale' = {}
  /\ UNCHANGED <<window, texts, crashes>>

\* acquireTenantSlot: one script drops the old entries, counts and adds.  The
\* job's own entry, left by an attempt that died, counts like any other.
Acquire(j) ==
  /\ job[j].at = "slot"
  /\ LET fresh == slots \ stale
     IN  IF Cardinality(fresh) < Limit
           THEN Goes(j, "agent") /\ slots' = fresh \cup {j}
           ELSE Goes(j, "crowded") /\ slots' = fresh
  /\ stale' = {}
  /\ UNCHANGED <<window, texts, crashes>>

\* The same moveToDelayed outside any try: what it throws costs an attempt.
Yield(j) ==
  /\ job[j].at = "crowded"
  /\ \/ Failed(j)
     \/ Delayed(j) /\ UNCHANGED texts
  /\ UNCHANGED <<redis, crashes>>

\* processWithHermes never throws.  It sends the reply or a fallback, and when that
\* send rejects (a timeout too, though the customer may have it) the fallback.
Answer(j) ==
  /\ job[j].at = "agent" /\ Goes(j, "reply")
  /\ \E n \in {1, 2} : texts' = [texts EXCEPT ![j] = @ + n]
  /\ UNCHANGED <<redis, crashes>>

\* The outgoing message is logged, or that throws after the customer has it.  The
\* catch apologises, unless the error reads like a failed send.
LogReply(j) ==
  /\ job[j].at = "reply"
  /\ \E at \in {"done", "apology", "undone"} : Goes(j, at)
  /\ UNCHANGED <<redis, texts, crashes>>

\* Whether the apology arrives or not, the error is thrown on.
Apologise(j) ==
  /\ job[j].at = "apology" /\ Goes(j, "undone")
  /\ texts' = [texts EXCEPT ![j] = @ + 1]
  /\ UNCHANGED <<redis, crashes>>

\* The finally: a Redis that fails to release is ignored.
Release(j) ==
  /\ job[j].at \in {"done", "undone"}
  /\ IF job[j].at = "done" THEN Goes(j, "completed") /\ UNCHANGED texts ELSE Failed(j)
  /\ \/ slots' = slots \ {j} /\ stale' = stale \ {j}
     \/ UNCHANGED <<slots, stale>>
  /\ UNCHANGED <<window, crashes>>

\* An await outside the agent's try rejects.
Throws(j) ==
  /\ job[j].at \in {"check", "admit", "rate", "slot"}
  /\ Failed(j)
  /\ UNCHANGED <<redis, crashes>>

-----------------------------------------------------------------------------
(* Around the jobs *)

Slide == window > 0 /\ window' = window - 1 /\ UNCHANGED <<job, slots, stale, texts, crashes>>

\* Hermes is killed after 2 minutes and a send gives up after 30 seconds, so an
\* entry gets 5 minutes old only when nobody works for it any more, or SlowAgent.
Age(j) ==
  /\ j \in slots \ stale /\ (SlowAgent \/ job[j].at \notin Agent)
  /\ stale' = stale \cup {j}
  /\ UNCHANGED <<job, slots, window, texts, crashes>>

\* The process dies: Redis keeps the slots, the window and the jobs it had taken.
Crash ==
  /\ crashes < MaxCrashes /\ crashes' = crashes + 1
  /\ job' = [j \in Jobs |-> IF job[j].at \in Active THEN [job[j] EXCEPT !.at = "stalled"] ELSE job[j]]
  /\ UNCHANGED <<redis, texts>>

JobStep(j) ==
  \/ Take(j) \/ Recover(j) \/ CheckConnection(j) \/ Park(j) \/ Admit(j)
  \/ CheckRate(j) \/ AnswerOwner(j) \/ Acquire(j) \/ Yield(j) \/ Answer(j) \/ LogReply(j)
  \/ Apologise(j) \/ Release(j) \/ Throws(j)

Next == (\E j \in Jobs : Enqueue(j) \/ JobStep(j) \/ Age(j)) \/ Slide \/ Crash

Spec == Init /\ [][Next]_vars

\* BullMQ offers every job again and promotes what it delayed; every call of the
\* processor returns (Hermes and the sends have timeouts); time passes.
FairSpec == Spec /\ \A j \in Jobs : WF_vars(JobStep(j)) /\ WF_vars(Age(j))

-----------------------------------------------------------------------------
(* Properties *)

\* KNOWN_ISSUES.md:475: the tenant's concurrency limit is enforced, whatever
\* crashed, was left behind or is retried (unless a reply outlasts its slot).
WithinLimit == Cardinality({j \in Jobs : job[j].at \in Agent}) <= Limit

\* The texts an attempt may have sent where it is: a reply and its fallback, and
\* the apology once it fails or is taken back.
Due(at) == CASE at \in {"reply", "apology", "done", "completed"} -> 2
             [] at \in {"undone", "stalled", "failed"} -> 3
             [] OTHER -> 0

\* Every attempt that sends the customer a text is counted before the job may send
\* another: a failure, a full slot, a delay or a crash never leaves a job waiting
\* for its next attempt with texts that are on no account.  So a job that completes
\* sends three texts at most for each attempt or stall it counts, and two more.
TextsCounted == \A j \in Jobs : texts[j] <= Due(job[j].at)

\* Every job that was enqueued ends, through crowding, crashes and slots that
\* were left behind.
JobsEnd == \A j \in Jobs : (job[j].at # "absent") ~> (job[j].at \in Ended)
=============================================================================
