------------------------------ MODULE TaskEngine ------------------------------
(***************************************************************************)
(* Background tasks of ai/task-engine.ts, in the memory of one process:    *)
(* the map of tasks, the listeners that make one task wait for another,    *)
(* the agent's runs, and the SSE streams of web/routes/api-agente.ts that  *)
(* tell a client how a task ended.  Code between two awaits is one action, *)
(* the listeners an emit calls included.                                   *)
(***************************************************************************)
EXTENDS Naturals, FiniteSets

CONSTANTS MaxTasks,  \* tasks ever created (bound); ids are a counter
          Streams    \* clients of GET /events

ASSUME TaskAssumption == MaxTasks \in Nat

TaskIds == 1..MaxTasks
Ended == {"completed", "failed"}
Statuses == {"none", "pending", "running", "cancelled"} \cup Ended

VARIABLES task,       \* the tasks map
          waiting,    \* tasks whose listener for blockedBy is registered
          run,        \* directAgent.generate of a task: none, running or over
          connected,  \* streams whose listener is registered
          speaking,   \* <<stream, task>>: inside summarizeAndSpeak
          told        \* <<stream, task>>: its end was written to the stream

vars == <<task, waiting, run, connected, speaking, told>>

\* after: blockedBy, 0 for none; any id is accepted, an unknown one or its own.
\* late: the task was created when the one it waits for had ended.
Task == [status : Statuses, after : 0..MaxTasks, notified : BOOLEAN, late : BOOLEAN]

TypeOK ==
  /\ task \in [TaskIds -> Task]
  /\ waiting \subseteq TaskIds
  /\ run \in [TaskIds -> {"none", "running", "over"}]
  /\ connected \subseteq Streams
  /\ speaking \subseteq Streams \X TaskIds /\ told \subseteq Streams \X TaskIds

Init ==
  /\ task = [t \in TaskIds |-> [status |-> "none", after |-> 0, notified |-> FALSE, late |-> FALSE]]
  /\ waiting = {}
  /\ run = [t \in TaskIds |-> "none"]
  /\ connected = {} /\ speaking = {} /\ told = {}

Status(t) == IF t = 0 THEN "none" ELSE task[t].status
Waiters(t) == {w \in waiting : task[w].after = t}

\* The tasks a failure of t fails: those that wait for it, for one of them,
\* and so on (each emits task-failed in its turn), and no others.
Reaches(t, S) == \A w \in waiting \ {t} : task[w].after \in S \cup {t} => w \in S
Fails(t) == {w \in waiting \ {t} : \A S \in SUBSET waiting : Reaches(t, S) => w \in S}

Tell(ts) == speaking' = speaking \cup (connected \X ts)

-----------------------------------------------------------------------------
(* assignTask, cancelTask *)

Create(t, after) ==
  /\ task[t].status = "none" /\ \A u \in TaskIds : u < t => task[u].status # "none"
  /\ task' = [task EXCEPT ![t] = [status |-> IF after = 0 THEN "running" ELSE "pending",
                                  after |-> after, notified |-> FALSE,
                                  late |-> Status(after) \in Ended]]
  /\ IF after = 0 THEN run' = [run EXCEPT ![t] = "running"] /\ UNCHANGED waiting
                  ELSE waiting' = waiting \cup {t} /\ UNCHANGED run
  /\ UNCHANGED <<connected, speaking, told>>

\* Mutant: who waits for a cancelled task is told that it failed.
CancelFailsWaiters(t) ==
  /\ task[t].status \in {"pending", "running"}
  /\ task' = [u \in TaskIds |-> [task[u] EXCEPT
                !.status = IF u = t THEN "cancelled" ELSE IF u \in Fails(t) THEN "failed" ELSE @]]
  /\ waiting' = waiting \ Fails(t)
  /\ UNCHANGED <<run, connected, speaking, told>>

\* The run's signal is aborted, which ends it sooner or later; who waits for
\* the task ignores task-cancelled, and its own listener stays registered.
Cancel(t) ==
  /\ task[t].status \in {"pending", "running"}
  /\ task' = [task EXCEPT ![t].status = "cancelled"]
  /\ UNCHANGED <<waiting, run, connected, speaking, told>>

-----------------------------------------------------------------------------
(* executeTask: what follows directAgent.generate *)

EndRun(t) == run[t] = "running"

\* Mutant: emit without its try: what a waiting task's listener throws keeps
\* the event from the streams.
CompleteTaskUnheard(t) ==
  LET W == Waiters(t)
  IN  /\ task' = [u \in TaskIds |-> [task[u] EXCEPT
                    !.status = IF u = t THEN "completed" ELSE IF u \in W THEN "running" ELSE @]]
      /\ run' = [u \in TaskIds |-> IF u = t THEN "over" ELSE IF u \in W THEN "running" ELSE run[u]]
      /\ waiting' = waiting \ W
      /\ IF W = {} THEN Tell({t}) ELSE UNCHANGED speaking
      /\ UNCHANGED <<connected, told>>

\* task-complete: whoever waits starts, also one that was cancelled meanwhile.
CompleteTask(t) ==
  LET W == Waiters(t)
  IN  /\ task' = [u \in TaskIds |-> [task[u] EXCEPT
                    !.status = IF u = t THEN "completed" ELSE IF u \in W THEN "running" ELSE @]]
      /\ run' = [u \in TaskIds |-> IF u = t THEN "over" ELSE IF u \in W THEN "running" ELSE run[u]]
      /\ waiting' = waiting \ W
      /\ Tell({t})
      /\ UNCHANGED <<connected, told>>

FailTask(t) ==
  /\ task' = [u \in TaskIds |-> [task[u] EXCEPT !.status = IF u \in {t} \cup Fails(t) THEN "failed" ELSE @]]
  /\ run' = [run EXCEPT ![t] = "over"]
  /\ waiting' = waiting \ Fails(t)
  /\ Tell({t} \cup Fails(t))
  /\ UNCHANGED <<connected, told>>

\* Mutant: a listener starts its task whichever way the other ended.
ThrowsStarting(t) ==
  /\ EndRun(t) /\ task[t].status # "cancelled"
  /\ task' = [u \in TaskIds |-> [task[u] EXCEPT
                !.status = IF u = t THEN "failed" ELSE IF u \in Waiters(t) THEN "running" ELSE @]]
  /\ run' = [u \in TaskIds |-> IF u = t THEN "over" ELSE IF u \in Waiters(t) THEN "running" ELSE run[u]]
  /\ waiting' = waiting \ Waiters(t)
  /\ Tell({t})
  /\ UNCHANGED <<connected, told>>

\* Mutant: the failure reaches the direct waiters' status, but they emit nothing.
ThrowsSilently(t) ==
  /\ EndRun(t) /\ task[t].status # "cancelled"
  /\ task' = [u \in TaskIds |-> [task[u] EXCEPT
                !.status = IF u \in {t} \cup Waiters(t) THEN "failed" ELSE @]]
  /\ run' = [run EXCEPT ![t] = "over"]
  /\ waiting' = waiting \ Waiters(t)
  /\ Tell({t})
  /\ UNCHANGED <<connected, told>>

Completes(t) == EndRun(t) /\ task[t].status # "cancelled" /\ CompleteTask(t)
GenerateThrows(t) == EndRun(t) /\ task[t].status # "cancelled" /\ FailTask(t)

\* The run of a cancelled task returns or throws: nothing is written or emitted.
EndsCancelled(t) ==
  /\ EndRun(t) /\ task[t].status = "cancelled"
  /\ run' = [run EXCEPT ![t] = "over"]
  /\ UNCHANGED <<task, waiting, connected, speaking, told>>

-----------------------------------------------------------------------------
(* GET /events *)

Connect(s) ==
  /\ s \notin connected /\ \A t \in TaskIds : <<s, t>> \notin speaking \cup told
  /\ connected' = connected \cup {s}
  /\ UNCHANGED <<task, waiting, run, speaking, told>>

Close(s) ==
  /\ s \in connected
  /\ connected' = connected \ {s}
  /\ UNCHANGED <<task, waiting, run, speaking, told>>

\* summarizeAndSpeak returns whatever its services do; the task counts as
\* notified even when the client has gone.
Speak(s, t) ==
  /\ <<s, t>> \in speaking
  /\ speaking' = speaking \ {<<s, t>>}
  /\ task' = [task EXCEPT ![t].notified = TRUE]
  /\ told' = IF s \in connected THEN told \cup {<<s, t>>} ELSE told
  /\ UNCHANGED <<waiting, run, connected>>

Finish(t) == Completes(t) \/ GenerateThrows(t) \/ EndsCancelled(t)

Next ==
  \/ \E t \in TaskIds, after \in 0..MaxTasks : Create(t, after)
  \/ \E t \in TaskIds : Cancel(t) \/ Finish(t)
  \/ \E s \in Streams : Connect(s) \/ Close(s) \/ \E t \in TaskIds : Speak(s, t)

Spec == Init /\ [][Next]_vars

\* The agent has at most eight steps (maxSteps) and the services answer or
\* reject, so every run and every speech ends.
FairSpec == Spec /\ \A t \in TaskIds : WF_vars(Finish(t)) /\ \A s \in Streams : WF_vars(Speak(s, t))

-----------------------------------------------------------------------------
\* A task that waits for another is run only after that one completed, for
\* every chain of tasks and whatever was cancelled meanwhile (:226).
StartedAfter ==
  \A t \in TaskIds : run[t] # "none" /\ task[t].after # 0 => task[task[t].after].status = "completed"

\* No task waits for one that completed or failed, unless that had ended before
\* the wait began: then it waits for ever (:219).
WaitsForOpen ==
  \A t \in waiting : Status(task[t].after) \in Ended => task[t].late

\* A cancelled task comes back only because it still listens to the task it
\* was to follow, and that task ends (:227 does not look at the status).
RevivedByPredecessor ==
  [][\A t \in TaskIds :
       task[t].status = "cancelled" /\ task'[t].status # "cancelled" =>
         /\ t \in waiting /\ t \notin waiting'
         /\ task[task[t].after].status \notin Ended /\ task'[task[t].after].status \in Ended]_vars

\* A client that stays connected is told of every task that ends.
EndIsTold ==
  \A t \in TaskIds, s \in Streams :
    (s \in connected /\ run[t] = "running")
      ~> (<<s, t>> \in told \/ s \notin connected \/ task[t].status = "cancelled")
=============================================================================
