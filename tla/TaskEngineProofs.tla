---------------------------- MODULE TaskEngineProofs ----------------------------
(***************************************************************************)
(* Theorems about TaskEngine, for every number of tasks and streams.  Inv  *)
(* is inductive: a task that waits has neither run nor ended, and a run    *)
(* leaves its task in a status it can be found in.  What a failure reaches *)
(* is known by two facts only: it is closed under waiting, and everything  *)
(* in it waits for something in it.                                        *)
(***************************************************************************)
EXTENDS TaskEngine, TLAPS

\* What holds of task t.
WaitsRight(t) ==
  t \in waiting => /\ task[t].status \in {"pending", "cancelled"}
                   /\ run[t] = "none" /\ task[t].after # 0
RunsRight(t) ==
  /\ run[t] = "running" => task[t].status \in {"running", "cancelled"}
  /\ task[t].status = "none" => run[t] = "none"

Inv ==
  /\ TypeOK
  /\ \A t \in TaskIds : WaitsRight(t) /\ RunsRight(t)
  /\ StartedAfter /\ WaitsForOpen

-----------------------------------------------------------------------------

LEMMA InitInv == Init => Inv
BY TaskAssumption DEF Init, Inv, TypeOK, Task, Statuses, Ended, WaitsRight, RunsRight,
                      StartedAfter, WaitsForOpen, TaskIds

\* A failure of t reaches only what waits, and not t.
LEMMA FailsWait ==
  ASSUME NEW t \in TaskIds
  PROVE  Fails(t) \subseteq waiting \ {t}
BY DEF Fails

\* Who waits for t, or for a task it reaches, is reached.
LEMMA FailsClosed ==
  ASSUME NEW t \in TaskIds, NEW w \in waiting \ {t}, task[w].after \in Fails(t) \cup {t}
  PROVE  w \in Fails(t)
<1>1. ASSUME NEW S \in SUBSET waiting, Reaches(t, S)
      PROVE  w \in S
  BY <1>1 DEF Fails, Reaches
<1>. QED BY <1>1 DEF Fails

\* Nothing else is: what is reached waits for t or for a task that is reached.
LEMMA FailsMinimal ==
  ASSUME NEW t \in TaskIds, NEW u \in Fails(t)
  PROVE  task[u].after \in Fails(t) \cup {t}
<1>. SUFFICES ASSUME task[u].after \notin Fails(t) \cup {t} PROVE FALSE
  OBVIOUS
<1>. DEFINE S == Fails(t) \ {u}
<1>1. S \in SUBSET waiting
  BY FailsWait
<1>2. Reaches(t, S)
  <2>1. ASSUME NEW w \in waiting \ {t}, task[w].after \in S \cup {t}
        PROVE  w \in S
    <3>1. w \in Fails(t)
      BY <2>1, FailsClosed
    <3>2. w # u
      BY <2>1
    <3>. QED BY <3>1, <3>2
  <2>. QED BY <2>1 DEF Reaches
<1>3. u \in S
  BY <1>1, <1>2 DEF Fails
<1>. QED BY <1>3

\* The types of the waiting and of a task's record.
LEMMA Fields ==
  ASSUME Inv, NEW t \in TaskIds
  PROVE  /\ task[t].status \in Statuses /\ task[t].after \in 0..MaxTasks
         /\ task[t].notified \in BOOLEAN /\ task[t].late \in BOOLEAN
         /\ run[t] \in {"none", "running", "over"}
BY DEF Inv, TypeOK, Task

\* A step that changes only statuses, each by its rule: st[u] is the new one.
LEMMA NewStatuses ==
  ASSUME Inv, NEW st \in [TaskIds -> Statuses],
         task' = [u \in TaskIds |-> [task[u] EXCEPT !.status = st[u]]]
  PROVE  /\ task' \in [TaskIds -> Task]
         /\ \A u \in TaskIds : /\ task'[u].status = st[u] /\ task'[u].after = task[u].after
                               /\ task'[u].late = task[u].late
<1>1. ASSUME NEW u \in TaskIds
      PROVE  /\ task'[u] \in Task
             /\ task'[u].status = st[u] /\ task'[u].after = task[u].after /\ task'[u].late = task[u].late
  <2>1. task[u] \in Task /\ task'[u] = [task[u] EXCEPT !.status = st[u]]
    BY DEF Inv, TypeOK
  <2>. QED BY <2>1 DEF Task
<1>. QED BY <1>1

\* What a step must show of each task for Inv to hold after it.
LEMMA Piecewise ==
  ASSUME TypeOK',
         \A t \in TaskIds : WaitsRight(t)' /\ RunsRight(t)',
         \A t \in TaskIds : run'[t] # "none" /\ task'[t].after # 0 => task'[task'[t].after].status = "completed",
         \A t \in waiting' : task'[t].after # 0 /\ task'[task'[t].after].status \in Ended => task'[t].late
  PROVE  Inv'
<1>1. \A t \in waiting' : Status(task[t].after)' \in Ended => task'[t].late
  BY DEF Status, Ended
<1>. QED BY <1>1 DEF Inv, StartedAfter, WaitsForOpen

LEMMA CreateKeepsInv ==
  ASSUME Inv, NEW t \in TaskIds, NEW after \in 0..MaxTasks, Create(t, after)
  PROVE  Inv'
<1>. DEFINE r == [status |-> IF after = 0 THEN "running" ELSE "pending",
                  after |-> after, notified |-> FALSE, late |-> Status(after) \in Ended]
<1>1. task' = [task EXCEPT ![t] = r] /\ UNCHANGED <<connected, speaking, told>>
  BY DEF Create
<1>2. task[t].status = "none" /\ run[t] = "none" /\ t \notin waiting
  BY DEF Create, Inv, WaitsRight, RunsRight
<1>3. r \in Task /\ r.after = after /\ r.late = (Status(after) \in Ended)
        /\ r.status = IF after = 0 THEN "running" ELSE "pending"
  BY DEF Task, Statuses
<1>. HIDE DEF r
<1>4. task' \in [TaskIds -> Task] /\ task'[t] = r /\ \A u \in TaskIds \ {t} : task'[u] = task[u]
  BY <1>1, <1>3 DEF Inv, TypeOK
<1>5. /\ after = 0 => run' = [run EXCEPT ![t] = "running"] /\ waiting' = waiting
      /\ after # 0 => run' = run /\ waiting' = waiting \cup {t}
  BY DEF Create
<1>6. TypeOK'
  BY <1>1, <1>4, <1>5 DEF Inv, TypeOK
<1>7. ASSUME NEW u \in TaskIds
      PROVE  WaitsRight(u)' /\ RunsRight(u)'
  BY <1>2, <1>3, <1>4, <1>5 DEF Inv, TypeOK, WaitsRight, RunsRight
<1>8. ASSUME NEW u \in TaskIds, run'[u] # "none", task'[u].after # 0
      PROVE  task'[task'[u].after].status = "completed"
  <2>1. u # t /\ run[u] # "none" /\ task'[u].after = task[u].after
    BY <1>2, <1>3, <1>4, <1>5, <1>8 DEF Inv, TypeOK
  <2>2. task[u].after \in TaskIds /\ task[task[u].after].status = "completed"
    BY <1>8, <2>1, Fields, TaskAssumption DEF Inv, StartedAfter, TaskIds
  <2>3. task[u].after # t
    BY <1>2, <2>2
  <2>. QED BY <1>4, <2>1, <2>2, <2>3
<1>9. ASSUME NEW u \in waiting', task'[u].after # 0, task'[task'[u].after].status \in Ended
      PROVE  task'[u].late
  <2>0. u \in TaskIds /\ after \in 0..MaxTasks
    BY <1>6 DEF TypeOK
  <2>1. CASE u = t
    <3>1. after # t
      BY <1>3, <1>4, <1>9, <2>1 DEF Ended
    <3>2. after \in TaskIds /\ task'[after] = task[after]
      BY <1>3, <1>4, <1>9, <2>0, <2>1, <3>1, TaskAssumption DEF TaskIds
    <3>. QED BY <1>3, <1>4, <1>9, <2>1, <3>2 DEF Status
  <2>2. CASE u # t
    <3>1. u \in waiting /\ task'[u] = task[u]
      BY <1>4, <1>5, <1>9, <2>0, <2>2
    <3>2. task[u].after \in TaskIds
      BY <1>9, <2>0, <3>1, Fields, TaskAssumption DEF TaskIds
    <3>3. task[u].after # t
      BY <1>3, <1>4, <1>9, <3>1 DEF Ended
    <3>. QED BY <1>4, <1>9, <3>1, <3>2, <3>3 DEF Inv, WaitsForOpen, Status
  <2>. QED BY <2>1, <2>2
<1>. QED BY <1>6, <1>7, <1>8, <1>9, Piecewise

LEMMA CancelKeepsInv ==
  ASSUME Inv, NEW t \in TaskIds, Cancel(t)
  PROVE  Inv'
<1>. DEFINE st == [u \in TaskIds |-> IF u = t THEN "cancelled" ELSE task[u].status]
<1>1. task[t].status \in {"pending", "running"} /\ UNCHANGED <<waiting, run, connected, speaking, told>>
  BY DEF Cancel
<1>2. st \in [TaskIds -> Statuses] /\ st[t] = "cancelled" /\ \A u \in TaskIds \ {t} : st[u] = task[u].status
  BY Fields DEF Statuses
<1>3. task' = [u \in TaskIds |-> [task[u] EXCEPT !.status = st[u]]]
  <2>1. task' = [task EXCEPT ![t].status = "cancelled"]
    BY DEF Cancel
  <2>2. \A u \in TaskIds : [task[u] EXCEPT !.status = task[u].status] = task[u]
    BY DEF Inv, TypeOK, Task
  <2>. QED BY <2>1, <2>2 DEF Inv, TypeOK
<1>. HIDE DEF st
<1>4. /\ task' \in [TaskIds -> Task]
      /\ \A u \in TaskIds : task'[u].status = st[u] /\ task'[u].after = task[u].after /\ task'[u].late = task[u].late
  BY <1>2, <1>3, NewStatuses
<1>5. TypeOK'
  BY <1>1, <1>4 DEF Inv, TypeOK
<1>6. \A u \in TaskIds : WaitsRight(u)' /\ RunsRight(u)'
  BY <1>1, <1>2, <1>4 DEF Inv, WaitsRight, RunsRight
<1>7. \A u \in TaskIds : task[u].after # 0 => task[u].after \in TaskIds
  BY Fields, TaskAssumption DEF TaskIds
<1>8. ASSUME NEW u \in TaskIds, run'[u] # "none", task'[u].after # 0
      PROVE  task'[task'[u].after].status = "completed"
  BY <1>1, <1>2, <1>4, <1>7, <1>8 DEF Inv, StartedAfter
<1>9. ASSUME NEW u \in waiting', task'[u].after # 0, task'[task'[u].after].status \in Ended
      PROVE  task'[u].late
  BY <1>1, <1>2, <1>4, <1>5, <1>7, <1>9 DEF Inv, TypeOK, WaitsForOpen, Status, Ended
<1>. QED BY <1>5, <1>6, <1>8, <1>9, Piecewise

\* What an ending run may assume of its task.
LEMMA Ending ==
  ASSUME Inv, NEW t \in TaskIds, EndRun(t), task[t].status # "cancelled"
  PROVE  task[t].status = "running" /\ t \notin waiting /\ run[t] = "running"
BY DEF Inv, EndRun, RunsRight, WaitsRight

LEMMA CompletesKeepsInv ==
  ASSUME Inv, NEW t \in TaskIds, Completes(t)
  PROVE  Inv'
<1>. DEFINE W == Waiters(t)
            st == [u \in TaskIds |-> IF u = t THEN "completed" ELSE IF u \in W THEN "running" ELSE task[u].status]
<1>1. /\ run' = [u \in TaskIds |-> IF u = t THEN "over" ELSE IF u \in W THEN "running" ELSE run[u]]
      /\ waiting' = waiting \ W /\ speaking' = speaking \cup (connected \X {t}) /\ UNCHANGED <<connected, told>>
  BY DEF Completes, CompleteTask, Tell
<1>2. task[t].status = "running" /\ t \notin waiting /\ run[t] = "running"
  BY Ending DEF Completes
<1>3. W \subseteq waiting /\ W \subseteq TaskIds /\ \A w \in waiting : w \in W <=> task[w].after = t
  BY DEF Waiters, Inv, TypeOK
<1>4. /\ st \in [TaskIds -> Statuses] /\ st[t] = "completed"
      /\ \A u \in W : st[u] = "running"
      /\ \A u \in TaskIds \ (W \cup {t}) : st[u] = task[u].status
  BY <1>2, <1>3, Fields DEF Statuses, Ended
<1>5. task' = [u \in TaskIds |-> [task[u] EXCEPT !.status = st[u]]]
  BY DEF Completes, CompleteTask
<1>. HIDE DEF st, W
<1>6. /\ task' \in [TaskIds -> Task]
      /\ \A u \in TaskIds : task'[u].status = st[u] /\ task'[u].after = task[u].after /\ task'[u].late = task[u].late
  BY <1>4, <1>5, NewStatuses
<1>7. TypeOK'
  <2>1. run' \in [TaskIds -> {"none", "running", "over"}]
    BY <1>1, Fields
  <2>. QED BY <1>1, <1>6, <2>1 DEF Inv, TypeOK
<1>8. ASSUME NEW u \in TaskIds
      PROVE  WaitsRight(u)' /\ RunsRight(u)'
  BY <1>1, <1>2, <1>3, <1>4, <1>6 DEF Inv, WaitsRight, RunsRight
<1>9. ASSUME NEW u \in TaskIds, task[u].after # 0
      PROVE  task[u].after \in TaskIds
  BY <1>9, Fields, TaskAssumption DEF TaskIds
<1>10. ASSUME NEW u \in TaskIds, run'[u] # "none", task'[u].after # 0
       PROVE  task'[task'[u].after].status = "completed"
  <2>1. CASE u \in W
    BY <1>3, <1>4, <1>6, <2>1
  <2>2. CASE u \notin W
    <3>1. run[u] # "none" /\ task[u].after \in TaskIds /\ task[task[u].after].status = "completed"
      BY <1>1, <1>2, <1>6, <1>9, <1>10, <2>2 DEF Inv, StartedAfter
    <3>2. task[u].after \notin W
      BY <1>3, <3>1 DEF Inv, WaitsRight
    <3>. QED BY <1>4, <1>6, <3>1, <3>2
  <2>. QED BY <2>1, <2>2
<1>11. ASSUME NEW u \in waiting', task'[u].after # 0, task'[task'[u].after].status \in Ended
       PROVE  task'[u].late
  <2>1. u \in waiting /\ u \notin W /\ u \in TaskIds /\ task[u].after \in TaskIds /\ task[u].after # t
    BY <1>1, <1>3, <1>6, <1>7, <1>9, <1>11 DEF TypeOK
  <2>2. task[u].after \notin W
    BY <1>4, <1>6, <1>11, <2>1 DEF Ended
  <2>. QED BY <1>4, <1>6, <1>11, <2>1, <2>2 DEF Inv, WaitsForOpen, Status
<1>. QED BY <1>7, <1>8, <1>10, <1>11, Piecewise

LEMMA ThrowsKeepsInv ==
  ASSUME Inv, NEW t \in TaskIds, GenerateThrows(t)
  PROVE  Inv'
<1>. DEFINE F == {t} \cup Fails(t)
            st == [u \in TaskIds |-> IF u \in F THEN "failed" ELSE task[u].status]
<1>1. /\ run' = [run EXCEPT ![t] = "over"] /\ waiting' = waiting \ Fails(t)
      /\ speaking' = speaking \cup (connected \X F) /\ UNCHANGED <<connected, told>>
  BY DEF GenerateThrows, FailTask, Tell
<1>2. task[t].status = "running" /\ t \notin waiting /\ run[t] = "running"
  BY Ending DEF GenerateThrows
<1>3. F \subseteq waiting \cup {t} /\ F \subseteq TaskIds /\ Fails(t) = F \ {t} /\ t \in F
  BY FailsWait DEF Inv, TypeOK
<1>4. /\ st \in [TaskIds -> Statuses]
      /\ \A u \in F : st[u] = "failed"
      /\ \A u \in TaskIds \ F : st[u] = task[u].status
  BY <1>3, Fields DEF Statuses, Ended
<1>5. task' = [u \in TaskIds |-> [task[u] EXCEPT !.status = st[u]]]
  BY DEF GenerateThrows, FailTask
<1>6. \A w \in waiting' : task[w].after \notin F
  BY <1>1, <1>2, FailsClosed
<1>. HIDE DEF st, F
<1>7. /\ task' \in [TaskIds -> Task]
      /\ \A u \in TaskIds : task'[u].status = st[u] /\ task'[u].after = task[u].after /\ task'[u].late = task[u].late
  BY <1>4, <1>5, NewStatuses
<1>8. TypeOK'
  BY <1>1, <1>3, <1>7 DEF Inv, TypeOK
<1>9. ASSUME NEW u \in TaskIds
      PROVE  WaitsRight(u)' /\ RunsRight(u)'
  BY <1>1, <1>2, <1>3, <1>4, <1>7 DEF Inv, TypeOK, WaitsRight, RunsRight
<1>10. ASSUME NEW u \in TaskIds, task[u].after # 0
       PROVE  task[u].after \in TaskIds
  BY <1>10, Fields, TaskAssumption DEF TaskIds
<1>11. ASSUME NEW u \in TaskIds, run'[u] # "none", task'[u].after # 0
       PROVE  task'[task'[u].after].status = "completed"
  <2>1. run[u] # "none" /\ task[u].after \in TaskIds /\ task[task[u].after].status = "completed"
    BY <1>1, <1>2, <1>7, <1>10, <1>11 DEF Inv, TypeOK, StartedAfter
  <2>2. task[u].after \notin F
    BY <1>2, <1>3, <2>1 DEF Inv, WaitsRight
  <2>. QED BY <1>4, <1>7, <2>1, <2>2
<1>12. ASSUME NEW u \in waiting', task'[u].after # 0, task'[task'[u].after].status \in Ended
       PROVE  task'[u].late
  <2>1. u \in waiting /\ u \in TaskIds /\ task[u].after \in TaskIds /\ task[u].after \notin F
    BY <1>1, <1>6, <1>7, <1>8, <1>10, <1>12 DEF TypeOK
  <2>. QED BY <1>4, <1>7, <1>12, <2>1 DEF Inv, WaitsForOpen, Status
<1>. QED BY <1>8, <1>9, <1>11, <1>12, Piecewise

LEMMA RestKeepsInv ==
  ASSUME Inv,
         \/ \E t \in TaskIds : EndsCancelled(t)
         \/ \E s \in Streams : Connect(s) \/ Close(s) \/ \E t \in TaskIds : Speak(s, t)
         \/ UNCHANGED vars
  PROVE  Inv'
<1>1. ASSUME NEW t \in TaskIds, EndsCancelled(t)
      PROVE  Inv'
  <2>1. /\ run' = [run EXCEPT ![t] = "over"] /\ run[t] = "running" /\ task[t].status = "cancelled"
        /\ UNCHANGED <<task, waiting, connected, speaking, told>>
    BY <1>1 DEF EndsCancelled, EndRun
  <2>. QED BY <2>1 DEF Inv, TypeOK, WaitsRight, RunsRight, StartedAfter, WaitsForOpen, Status
<1>2. CASE \E s \in Streams : Connect(s) \/ Close(s)
  <2>1. UNCHANGED <<task, waiting, run, speaking, told>> /\ connected' \subseteq Streams
    BY <1>2 DEF Connect, Close, Inv, TypeOK
  <2>. QED BY <2>1 DEF Inv, TypeOK, WaitsRight, RunsRight, StartedAfter, WaitsForOpen, Status
<1>3. ASSUME NEW s \in Streams, NEW t \in TaskIds, Speak(s, t)
      PROVE  Inv'
  <2>1. task' = [task EXCEPT ![t].notified = TRUE] /\ UNCHANGED <<waiting, run, connected>>
    BY <1>3 DEF Speak
  <2>2. speaking' \subseteq Streams \X TaskIds /\ told' \subseteq Streams \X TaskIds
    BY <1>3 DEF Speak, Inv, TypeOK
  <2>3. ASSUME NEW u \in TaskIds
        PROVE  /\ task'[u] \in Task
               /\ task'[u].status = task[u].status /\ task'[u].after = task[u].after /\ task'[u].late = task[u].late
    <3>1. task[u] \in Task /\ task'[u] = IF u = t THEN [task[u] EXCEPT !.notified = TRUE] ELSE task[u]
      BY <2>1 DEF Inv, TypeOK
    <3>. QED BY <3>1 DEF Task
  <2>4. TypeOK'
    BY <2>1, <2>2, <2>3 DEF Inv, TypeOK
  <2>5. \A u \in TaskIds : task[u].after # 0 => task[u].after \in TaskIds
    BY Fields, TaskAssumption DEF TaskIds
  <2>6. \A u \in TaskIds : WaitsRight(u)' /\ RunsRight(u)'
    BY <2>1, <2>3 DEF Inv, WaitsRight, RunsRight
  <2>7. \A u \in TaskIds : run'[u] # "none" /\ task'[u].after # 0 => task'[task'[u].after].status = "completed"
    BY <2>1, <2>3, <2>5 DEF Inv, StartedAfter
  <2>8. \A u \in waiting' : task'[u].after # 0 /\ task'[task'[u].after].status \in Ended => task'[u].late
    BY <2>1, <2>3, <2>5 DEF Inv, TypeOK, WaitsForOpen, Status
  <2>. QED BY <2>4, <2>6, <2>7, <2>8, Piecewise
<1>4. CASE UNCHANGED vars
  BY <1>4 DEF vars, Inv, TypeOK, WaitsRight, RunsRight, StartedAfter, WaitsForOpen, Status
<1>. QED BY <1>1, <1>2, <1>3, <1>4

LEMMA NextInv == Inv /\ [Next]_vars => Inv'
BY CreateKeepsInv, CancelKeepsInv, CompletesKeepsInv, ThrowsKeepsInv, RestKeepsInv DEF Next, Finish

LEMMA InvAlways == Spec => []Inv
BY InitInv, NextInv, PTL DEF Spec

\* Every variable keeps its type.
THEOREM TypeCorrect == Spec => []TypeOK
<1>1. Inv => TypeOK
  BY DEF Inv
<1>. QED BY <1>1, InvAlways, PTL

\* A task that follows another runs only after that one completed
\* (task-engine.ts:225-229), in chains of any length.
THEOREM RunsInOrder == Spec => []StartedAfter
<1>1. Inv => StartedAfter
  BY DEF Inv
<1>. QED BY <1>1, InvAlways, PTL

\* No task is left waiting by the end of the one it waits for, however many
\* tasks stand between (task-engine.ts:219-240).
THEOREM NobodyLeftWaiting == Spec => []WaitsForOpen
<1>1. Inv => WaitsForOpen
  BY DEF Inv
<1>. QED BY <1>1, InvAlways, PTL

\* Only the end of the task it was to follow brings a cancelled task back.
THEOREM RevivedOnlySo == Spec => RevivedByPredecessor
<1>. DEFINE Back(t) == task[t].status = "cancelled" /\ task'[t].status # "cancelled"
            Told(t) == /\ t \in waiting /\ t \notin waiting'
                       /\ task[task[t].after].status \notin Ended /\ task'[task[t].after].status \in Ended
<1>1. ASSUME Inv, [Next]_vars, NEW t \in TaskIds, Back(t)
      PROVE  Told(t)
  <2>1. ASSUME NEW u \in TaskIds, Completes(u)
        PROVE  Told(t)
    <3>. DEFINE W == Waiters(u)
                st == [v \in TaskIds |-> IF v = u THEN "completed" ELSE IF v \in W THEN "running" ELSE task[v].status]
    <3>1. task[u].status = "running" /\ waiting' = waiting \ W
      BY <1>1, <2>1, Ending DEF Completes, CompleteTask
    <3>2. W \subseteq waiting /\ W \subseteq TaskIds /\ \A w \in W : task[w].after = u
      BY <1>1 DEF Waiters, Inv, TypeOK
    <3>3. st \in [TaskIds -> Statuses] /\ st[u] = "completed"
          /\ \A v \in TaskIds \ (W \cup {u}) : st[v] = task[v].status
      BY <1>1, Fields DEF Statuses, Ended
    <3>4. task' = [v \in TaskIds |-> [task[v] EXCEPT !.status = st[v]]]
      BY <2>1 DEF Completes, CompleteTask
    <3>. HIDE DEF st, W
    <3>5. \A v \in TaskIds : task'[v].status = st[v]
      BY <1>1, <3>3, <3>4, NewStatuses
    <3>6. t # u /\ t \in W
      BY <1>1, <3>1, <3>3, <3>5
    <3>. QED BY <3>1, <3>2, <3>3, <3>5, <3>6 DEF Ended
  <2>2. ASSUME NEW u \in TaskIds, GenerateThrows(u)
        PROVE  Told(t)
    <3>. DEFINE F == {u} \cup Fails(u)
                st == [v \in TaskIds |-> IF v \in F THEN "failed" ELSE task[v].status]
    <3>1. task[u].status = "running" /\ waiting' = waiting \ Fails(u)
      BY <1>1, <2>2, Ending DEF GenerateThrows, FailTask
    <3>2. F \subseteq waiting \cup {u} /\ F \subseteq TaskIds /\ Fails(u) = F \ {u} /\ u \in F
      BY <1>1, FailsWait DEF Inv, TypeOK
    <3>3. /\ st \in [TaskIds -> Statuses]
          /\ \A v \in F : st[v] = "failed"
          /\ \A v \in TaskIds \ F : st[v] = task[v].status
      BY <1>1, <3>2, Fields DEF Statuses, Ended
    <3>4. task' = [v \in TaskIds |-> [task[v] EXCEPT !.status = st[v]]]
      BY <2>2 DEF GenerateThrows, FailTask
    <3>5. \A v \in Fails(u) : task[v].after \in F
      BY FailsMinimal
    <3>. HIDE DEF st, F
    <3>6. \A v \in TaskIds : task'[v].status = st[v]
      BY <1>1, <3>3, <3>4, NewStatuses
    <3>7. t # u /\ t \in Fails(u) /\ t \in waiting
      BY <1>1, <3>1, <3>2, <3>3, <3>6
    <3>8. task[t].after \in F /\ task[t].after \in TaskIds
      BY <3>2, <3>5, <3>7
    <3>9. task[task[t].after].status \in {"running", "pending", "cancelled"}
      BY <1>1, <3>1, <3>2, <3>8 DEF Inv, WaitsRight
    <3>. QED BY <3>1, <3>3, <3>6, <3>7, <3>8, <3>9 DEF Ended
  <2>3. CASE \E u \in TaskIds, after \in 0..MaxTasks : Create(u, after)
    BY <1>1, <2>3 DEF Create, Inv, TypeOK
  <2>4. CASE \E u \in TaskIds : Cancel(u)
    BY <1>1, <2>4 DEF Cancel, Inv, TypeOK, Task
  <2>5. CASE \E s \in Streams, u \in TaskIds : Speak(s, u)
    BY <1>1, <2>5 DEF Speak, Inv, TypeOK, Task
  <2>6. CASE UNCHANGED task
    BY <1>1, <2>6
  <2>. QED BY <1>1, <2>1, <2>2, <2>3, <2>4, <2>5, <2>6 DEF Next, Finish, EndsCancelled, Connect, Close, vars
<1>2. Inv /\ [Next]_vars => [\A t \in TaskIds : Back(t) => Told(t)]_vars
  BY <1>1
<1>. QED BY <1>2, InvAlways, PTL DEF Spec, RevivedByPredecessor
=============================================================================
