-------------------------- MODULE TenantSupervision --------------------------
(***************************************************************************)
(* One tenant's WhatsApp worker: TenantManager's operations (start, stop,  *)
(* reset), the WorkerBridge each start creates with its thread, the        *)
(* connection inside the thread, the messages asked of it, and the health  *)
(* check.  The main thread runs one callback at a time: an action is what  *)
(* runs between two awaits.  Timers are untimed: one that is set may go    *)
(* off at any later moment.                                                *)
(***************************************************************************)
EXTENDS Naturals, Sequences

CONSTANTS Bridges,       \* WorkerBridge objects startTenant may create (bound)
          Callers,       \* requests that call the manager
          Health,        \* the health check's interval callback
          Requests,      \* calls of TenantManager.sendMessage (bound)
          NoBridge,
          MaxReconnects, \* MAX_RECONNECT_ATTEMPTS of the worker
          MaxDeaths      \* threads that die by themselves (bound)

ASSUME TenantAssumption ==
  /\ NoBridge \notin Bridges /\ Health \notin Callers
  /\ MaxReconnects \in Nat /\ MaxDeaths \in Nat

VARIABLES map,       \* TenantManager.bridges.get(tenantId)
          bridge,    \* each bridge: has it a worker, isAlive, is start's timer set;
                     \* overlaps: was it started during a stop (for the property)
          thread,    \* each bridge's worker thread
          inbox,     \* commands posted to the thread and not yet handled
          op,        \* where each operation of the manager stands
          req,       \* each send and the bridge it was asked of
          cooldown,  \* lastRespawn is younger than RESPAWN_COOLDOWN_MS
          deaths

tenantVars == <<map, bridge, thread, inbox, op, req, cooldown, deaths>>

Procs == Callers \cup {Health}
Places == {"idle", "lookup", "starting", "sleep", "terminating", "clear"}
Kinds == {"none", "start", "stop", "reset", "respawn"}
Idle == [at |-> "idle", kind |-> "none", bridge |-> NoBridge]

Unused == [worker |-> FALSE, alive |-> FALSE, timer |-> FALSE, overlaps |-> FALSE]
NoThread == [at |-> "none", session |-> "idle", beating |-> FALSE, attempts |-> 0]
Ends(at) == [NoThread EXCEPT !.at = at]
Sessions == {"idle", "connecting", "open", "retrying", "lastTry",
             "failed", "loggedOut", "exhausted", "lost"}

TenantTypeOK ==
  /\ map \in Bridges \cup {NoBridge}
  /\ bridge \in [Bridges -> [worker : BOOLEAN, alive : BOOLEAN, timer : BOOLEAN, overlaps : BOOLEAN]]
  /\ thread \in [Bridges -> [at : {"none", "booting", "up", "ending", "dead"},
                             session : Sessions, beating : BOOLEAN, attempts : 0..MaxReconnects]]
  /\ inbox \in [Bridges -> Seq({"start", "stop"} \cup Requests)]
  /\ op \in [Procs -> [at : Places, kind : Kinds, bridge : Bridges \cup {NoBridge}]]
  /\ req \in [Requests -> [state : {"new", "waiting", "ok", "failed"},
                           bridge : Bridges \cup {NoBridge}]]
  /\ cooldown \in BOOLEAN
  /\ deaths \in 0..MaxDeaths

TenantInit ==
  /\ map = NoBridge
  /\ bridge = [b \in Bridges |-> Unused]
  /\ thread = [b \in Bridges |-> NoThread]
  /\ inbox = [b \in Bridges |-> <<>>]
  /\ op = [p \in Procs |-> Idle]
  /\ req = [r \in Requests |-> [state |-> "new", bridge |-> NoBridge]]
  /\ cooldown = FALSE
  /\ deaths = 0

IsRunning(b) == b # NoBridge /\ bridge[b].worker

\* The stops that wait for 2 s or for a thread's exit.
Stops == {p \in Procs : op[p].at \in {"sleep", "terminating"}}

Pending(b) == {r \in Requests : req[r].state = "waiting" /\ req[r].bridge = b}

\* rejectAllPending
Rejected(b) ==
  [r \in Requests |-> IF r \in Pending(b) THEN [req[r] EXCEPT !.state = "failed"] ELSE req[r]]

\* WorkerBridge.terminate up to its await: the pending sends are rejected and a
\* live thread is told to end.
Terminate(b) ==
  /\ req' = Rejected(b)
  /\ thread' = IF bridge[b].worker THEN [thread EXCEPT ![b] = Ends("ending")] ELSE thread

-----------------------------------------------------------------------------
(* TenantManager.startTenant *)

BeginStart(p) ==
  /\ op[p].at = "idle"
  /\ op' = [op EXCEPT ![p] = [at |-> "lookup", kind |-> "start", bridge |-> NoBridge]]
  /\ UNCHANGED <<map, bridge, thread, inbox, req, cooldown, deaths>>

\* The tenant is not found or not active, the query failed, or it runs already.
StartRefused(p) ==
  /\ op[p].at = "lookup"
  /\ op' = [op EXCEPT ![p] = Idle]
  /\ UNCHANGED <<map, bridge, thread, inbox, req, cooldown, deaths>>

\* Mutant: the check for a running bridge was made before the await.
SpawnUnchecked(p) ==
  /\ op[p].at = "lookup"
  /\ \E b \in Bridges :
       /\ thread[b].at = "none"
       /\ map' = b
       /\ bridge' = [bridge EXCEPT ![b].worker = TRUE, ![b].timer = TRUE,
                                   ![b].overlaps = (Stops # {})]
       /\ thread' = [thread EXCEPT ![b].at = "booting"]
       /\ op' = [op EXCEPT ![p].at = "starting", ![p].bridge = b]
  /\ UNCHANGED <<inbox, req, cooldown, deaths>>

\* After getTenantById: the check, the new bridge, bridges.set and new Worker
\* run without an await between them.
Spawn(p) ==
  /\ op[p].at = "lookup" /\ ~IsRunning(map)
  /\ \E b \in Bridges :
       /\ thread[b].at = "none"
       /\ map' = b
       /\ bridge' = [bridge EXCEPT ![b].worker = TRUE, ![b].timer = TRUE,
                                   ![b].overlaps = (Stops # {})]
       /\ thread' = [thread EXCEPT ![b].at = "booting"]
       /\ op' = [op EXCEPT ![p].at = "starting", ![p].bridge = b]
  /\ UNCHANGED <<inbox, req, cooldown, deaths>>

\* The caller that awaits bridge.start of b, if it still does, goes on or fails.
Released(b) ==
  [p \in Procs |-> IF op[p].at = "starting" /\ op[p].bridge = b THEN Idle ELSE op[p]]

\* The 'ready' event: start resolves and startSession posts 'start'.  The timer
\* of start, when it goes off after this, finds nothing to do.
Ready(b) ==
  /\ thread[b].at = "booting"
  /\ thread' = [thread EXCEPT ![b].at = "up"]
  /\ bridge' = [bridge EXCEPT ![b].alive = TRUE,
                              ![b].timer = FALSE]
  /\ inbox' = [inbox EXCEPT ![b] = Append(@, "start")]
  /\ op' = Released(b)
  /\ UNCHANGED <<map, req, cooldown, deaths>>

\* Mutant: bridge.start has no timeout.
StartTimeoutIgnored(b) ==
  /\ bridge[b].timer
  /\ bridge' = [bridge EXCEPT ![b].timer = FALSE]
  /\ UNCHANGED <<map, inbox, op, req, thread, cooldown, deaths>>

\* The 15 s timer of start, with the worker not started by then.
StartTimeout(b) ==
  /\ bridge[b].timer
  /\ bridge' = [bridge EXCEPT ![b].timer = FALSE]
  /\ op' = Released(b) /\ Terminate(b)
  /\ UNCHANGED <<map, inbox, cooldown, deaths>>

-----------------------------------------------------------------------------
(* TenantManager.stopTenant, resetTenant *)

\* What follows the stop: nothing, clearAuthState, or the start.
AfterStop(kind) ==
  CASE kind = "stop" -> Idle
    [] kind = "reset" -> [at |-> "clear", kind |-> kind, bridge |-> NoBridge]
    [] kind = "respawn" -> [at |-> "lookup", kind |-> kind, bridge |-> NoBridge]

\* Up to the first await: without a bridge there is nothing to stop; without a
\* worker stopSession throws, terminate finds none and the bridge is deleted.
Stop(p, kind) ==
  /\ IF map = NoBridge
       THEN op' = [op EXCEPT ![p] = AfterStop(kind)] /\ UNCHANGED <<map, inbox, req>>
     ELSE IF bridge[map].worker
       THEN /\ inbox' = [inbox EXCEPT ![map] = Append(@, "stop")]
            /\ op' = [op EXCEPT ![p] = [at |-> "sleep", kind |-> kind, bridge |-> map]]
            /\ UNCHANGED <<map, req>>
     ELSE /\ req' = Rejected(map)
          /\ map' = NoBridge
          /\ op' = [op EXCEPT ![p] = AfterStop(kind)]
          /\ UNCHANGED inbox
  /\ UNCHANGED <<bridge, thread, deaths>>

BeginStop(p) ==
  /\ op[p].at = "idle"
  /\ \E kind \in {"stop", "reset"} : Stop(p, kind)
  /\ UNCHANGED cooldown

\* The 2 s are over: terminate, and wait for the thread's exit if there is one;
\* then bridges.delete(tenantId), whichever bridge is there by now.
SleepOver(p) ==
  /\ op[p].at = "sleep"
  /\ Terminate(op[p].bridge)
  /\ IF bridge[op[p].bridge].worker
       THEN op' = [op EXCEPT ![p].at = "terminating"] /\ UNCHANGED map
       ELSE op' = [op EXCEPT ![p] = AfterStop(op[p].kind)] /\ map' = NoBridge
  /\ UNCHANGED <<bridge, inbox, cooldown, deaths>>

\* clearAuthState, which may throw.
AuthCleared(p) ==
  /\ op[p].at = "clear"
  /\ op' \in {[op EXCEPT ![p].at = "lookup"], [op EXCEPT ![p] = Idle]}
  /\ UNCHANGED <<map, bridge, thread, inbox, req, cooldown, deaths>>

-----------------------------------------------------------------------------
(* The worker thread *)

ThreadDies(b) ==
  /\ thread[b].at \in {"booting", "up"} /\ deaths < MaxDeaths
  /\ thread' = [thread EXCEPT ![b] = Ends("dead")]
  /\ deaths' = deaths + 1
  /\ UNCHANGED <<map, bridge, inbox, op, req, cooldown>>

Ending(b) == {p \in Procs : op[p].at = "terminating" /\ op[p].bridge = b}

\* The event of a thread that died or was terminated, and what the stops that
\* awaited it do in the same turn of the event loop.
ThreadGone(b) ==
  /\ bridge[b].worker /\ thread[b].at \in {"ending", "dead"}
  /\ thread' = [thread EXCEPT ![b] = Ends("dead")]
  /\ bridge' = [bridge EXCEPT ![b].worker = FALSE, ![b].alive = FALSE]
  /\ inbox' = [inbox EXCEPT ![b] = <<>>]
  /\ op' = [p \in Procs |-> IF p \in Ending(b) THEN AfterStop(op[p].kind) ELSE op[p]]
  /\ map' = IF Ending(b) = {} THEN map ELSE NoBridge
  /\ UNCHANGED <<cooldown, deaths>>

\* Mutant: the exit handler forgets the pending sends.
ExitForgetsPending(b) == ThreadGone(b) /\ UNCHANGED req

\* The 'exit' handler.
Exit(b) == ThreadGone(b) /\ req' = Rejected(b)

Up(b) == thread[b].at = "up"

\* 'start': startProvider succeeds and the heartbeat begins, or it throws.
HandleStart(b) ==
  /\ Up(b) /\ inbox[b] # <<>> /\ Head(inbox[b]) = "start"
  /\ inbox' = [inbox EXCEPT ![b] = Tail(@)]
  /\ thread' \in {[thread EXCEPT ![b].session = "connecting", ![b].beating = TRUE, ![b].attempts = 0],
                  [thread EXCEPT ![b].session = "failed", ![b].attempts = 0]}
  /\ UNCHANGED <<map, bridge, op, req, cooldown, deaths>>

HandleStop(b) ==
  /\ Up(b) /\ inbox[b] # <<>> /\ Head(inbox[b]) = "stop"
  /\ inbox' = [inbox EXCEPT ![b] = Tail(@)]
  /\ thread' = [thread EXCEPT ![b].session = "idle", ![b].beating = FALSE]
  /\ UNCHANGED <<map, bridge, op, req, cooldown, deaths>>

\* A send is answered, or never is (the provider hangs, the command is unknown);
\* the answer to a request that no longer waits is dropped.
HandleSend(b) ==
  /\ Up(b) /\ inbox[b] # <<>> /\ Head(inbox[b]) \in Requests
  /\ inbox' = [inbox EXCEPT ![b] = Tail(@)]
  /\ LET r == Head(inbox[b])
         answers == {"failed"} \cup (IF thread[b].session = "open" THEN {"ok"} ELSE {})
     IN  \/ UNCHANGED req
         \/ r \in Pending(b) /\ \E answer \in answers : req' = [req EXCEPT ![r].state = answer]
  /\ UNCHANGED <<map, bridge, thread, op, cooldown, deaths>>

Open(b) ==
  /\ Up(b) /\ thread[b].session = "connecting"
  /\ thread' = [thread EXCEPT ![b].session = "open", ![b].attempts = 0]
  /\ UNCHANGED <<map, bridge, inbox, op, req, cooldown, deaths>>

\* The heartbeat stops so that the health check takes over.
GiveUp(b, session) ==
  thread' = [thread EXCEPT ![b].session = session, ![b].beating = FALSE, ![b].attempts = 0]

\* One more attempt, or none is left.
Again(b, session) ==
  IF thread[b].attempts < MaxReconnects
    THEN thread' = [thread EXCEPT ![b].session = session, ![b].attempts = @ + 1]
    ELSE GiveUp(b, "exhausted")

\* Mutant: the heartbeat goes on when no attempt is left.
DisconnectBeating(b) ==
  /\ Up(b) /\ thread[b].session \in {"connecting", "open"}
  /\ \/ thread' = [thread EXCEPT ![b].session = "loggedOut"]
     \/ IF thread[b].attempts < MaxReconnects
          THEN thread' = [thread EXCEPT ![b].session = "retrying", ![b].attempts = @ + 1]
          ELSE thread' = [thread EXCEPT ![b].session = "exhausted", ![b].attempts = 0]
  /\ UNCHANGED <<map, bridge, inbox, op, req, cooldown, deaths>>

\* onDisconnect
Disconnect(b) ==
  /\ Up(b) /\ thread[b].session \in {"connecting", "open"}
  /\ GiveUp(b, "loggedOut") \/ Again(b, "retrying")
  /\ UNCHANGED <<map, bridge, inbox, op, req, cooldown, deaths>>

\* The backoff is over; a startProvider that throws schedules one more, and
\* what that one throws is swallowed.
Retry(b) ==
  /\ Up(b)
  /\ \/ /\ thread[b].session \in {"retrying", "lastTry"}
        /\ thread' = [thread EXCEPT ![b].session = "connecting"]
     \/ thread[b].session = "retrying" /\ Again(b, "lastTry")
     \/ thread[b].session = "lastTry" /\ thread' = [thread EXCEPT ![b].session = "lost"]
  /\ UNCHANGED <<map, bridge, inbox, op, req, cooldown, deaths>>

\* A heartbeat arrives, or none has for 30 s.
Heartbeat(b) ==
  /\ bridge[b].worker /\ bridge[b].alive # (Up(b) /\ thread[b].beating)
  /\ bridge' = [bridge EXCEPT ![b].alive = ~@]
  /\ UNCHANGED <<map, thread, inbox, op, req, cooldown, deaths>>

-----------------------------------------------------------------------------
(* TenantManager.sendMessage *)

Send(r) ==
  /\ req[r].state = "new"
  /\ IF IsRunning(map)
       THEN /\ req' = [req EXCEPT ![r] = [state |-> "waiting", bridge |-> map]]
            /\ inbox' = [inbox EXCEPT ![map] = Append(@, r)]
       ELSE req' = [req EXCEPT ![r].state = "failed"] /\ UNCHANGED inbox
  /\ UNCHANGED <<map, bridge, thread, op, cooldown, deaths>>

SendTimeout(r) ==
  /\ req[r].state = "waiting"
  /\ req' = [req EXCEPT ![r].state = "failed"]
  /\ UNCHANGED <<map, bridge, thread, inbox, op, cooldown, deaths>>

-----------------------------------------------------------------------------
(* HealthCheckService *)

\* The interval's callback: a bridge that runs and is not alive is respawned
\* (stopTenant, startTenant), a healthy one has its cooldown cleared.
HealthCheck ==
  /\ op[Health].at = "idle" /\ IsRunning(map)
  /\ IF bridge[map].alive
       THEN /\ cooldown /\ cooldown' = FALSE
            /\ UNCHANGED <<map, bridge, thread, inbox, op, req, deaths>>
       ELSE ~cooldown /\ cooldown' = TRUE /\ Stop(Health, "respawn")

CooldownOver ==
  /\ cooldown /\ cooldown' = FALSE
  /\ UNCHANGED <<map, bridge, thread, inbox, op, req, deaths>>

-----------------------------------------------------------------------------

Continue(p) == StartRefused(p) \/ Spawn(p) \/ SleepOver(p) \/ AuthCleared(p)

Connection(b) ==
  \/ HandleStart(b) \/ HandleStop(b) \/ HandleSend(b)
  \/ Open(b) \/ Disconnect(b) \/ Retry(b)

Main(b) == Ready(b) \/ StartTimeout(b) \/ Exit(b) \/ Heartbeat(b)

TenantNext ==
  \/ \E p \in Callers : BeginStart(p) \/ BeginStop(p)
  \/ \E p \in Procs : Continue(p)
  \/ \E b \in Bridges : ThreadDies(b) \/ Connection(b) \/ Main(b)
  \/ \E r \in Requests : Send(r) \/ SendTimeout(r)
  \/ HealthCheck \/ CooldownOver

TenantSpec == TenantInit /\ [][TenantNext]_tenantVars

\* Queries answer, timers go off, threads that were terminated exit, and the
\* interval comes round.  Nothing is assumed of the connection or of callers.
TenantFairness ==
  /\ \A p \in Procs : WF_tenantVars(Continue(p))
  /\ \A b \in Bridges : WF_tenantVars(StartTimeout(b)) /\ WF_tenantVars(Exit(b)) /\ WF_tenantVars(Heartbeat(b))
  /\ WF_tenantVars(HealthCheck) /\ WF_tenantVars(CooldownOver)

FairTenantSpec == TenantSpec /\ TenantFairness

-----------------------------------------------------------------------------
(* Properties *)

\* A bridge whose worker is gone has no send left waiting for it, though sends
\* may arrive while the worker is being terminated.
PendingHasWorker == \A r \in Requests : req[r].state = "waiting" => bridge[req[r].bridge].worker

\* A worker runs only for the bridge the manager knows, however starts overlap
\* with each other, with exits and with the stops that came later.  A bridge
\* started while a stop of an earlier one waits is the exception: that stop ends
\* with bridges.delete(tenantId) (tenant-manager.ts:158), its worker runs on
\* unknown, and the next start puts a second one beside it.
OneWorker == \A b \in Bridges : bridge[b].worker => b = map \/ bridge[b].overlaps

\* Every start, stop, reset and respawn answers its caller.
OperationsEnd == \A p \in Procs : op[p].at # "idle" ~> op[p].at = "idle"

\* A worker that could not start its connection, was logged out or has no
\* attempt left does not beat, and the health check ends it.  A session that is
\* "lost" is the exception: the worker swallowed what the retry of a retry threw
\* (worker.ts:94) and beats on, though worker.ts:88-90 and KNOWN_ISSUES.md:573-575
\* say that every failed chain of retries stops the heartbeat.
GivenUpIsStopped ==
  \A b \in Bridges :
    map = b /\ thread[b].session \in {"failed", "loggedOut", "exhausted"}
      ~> map # b \/ ~bridge[b].worker
=============================================================================
