------------------------------- MODULE WhatsApp -------------------------------
(***************************************************************************)
(* The WhatsApp link of the single-machine API (services/yaya-api): one    *)
(* manager object with one socket, connected and disconnected by HTTP      *)
(* requests, by the reconnect timer and at start-up, and the messages that *)
(* are answered over it.  Each action is what runs between two awaits.     *)
(***************************************************************************)
EXTENDS Naturals, FiniteSets

CONSTANTS Users, None,
          FirstUser,    \* SELECT id FROM users LIMIT 1
          Msgs,         \* messages that may come in (bound)
          Questions,    \* steps of the onboarding
          MaxSockets, MaxConnects, MaxTimers, MaxFaults    \* bounds

ASSUME WhatsAppAssumption ==
  /\ FirstUser \in Users /\ None \notin Users
  /\ Questions \in Nat /\ MaxFaults \in Nat
  /\ MaxSockets \in Nat /\ MaxConnects \in Nat \ {0} /\ MaxTimers \in Nat

Sockets == 1..MaxSockets
NoSocket == [at |-> "free", user |-> None]
NoMsg == [at |-> "none", user |-> None, through |-> {}]

VARIABLES sock,        \* this.sock, 0 for null
          userId,      \* this.userId
          status,      \* this.connectionStatus
          socket,      \* the sockets that exist, whoever holds them
          pending,     \* connects of each user that await the version
          timers,      \* reconnect timers that have yet to fire
          tracked,     \* this.reconnectTimer is the youngest of them
          auth,        \* users with a row in wa_auth_creds
          step,        \* questions of the onboarding asked of each user
          msg,         \* what became of each message
          up,          \* the process runs
          faults,
          overlapped,  \* two connects, or a connect and a disconnect, crossed (history)
          loggedOut,   \* the last socket that closed was logged out (history)
          refused,     \* the last connect threw (history)
          parted       \* messages in whose course another user connected (history)

manager == <<sock, userId, status, timers, tracked>>
history == <<overlapped, loggedOut, refused, parted>>
vars == <<manager, socket, pending, auth, step, msg, up, faults, history>>

Busy == {"hearing", "thinking", "speaking", "answered"}
Ended == {"told", "untold", "skipped", "lost"}    \* told: the answer, a question or an apology

TypeOK ==
  /\ sock \in 0..MaxSockets
  /\ userId \in Users \cup {None}
  /\ status \in {"disconnected", "connecting", "connected"}
  /\ socket \in [Sockets -> [at : {"free", "opening", "open", "ending"}, user : Users \cup {None}]]
  /\ pending \in [Users -> 0..MaxConnects]
  /\ timers \in 0..MaxTimers
  /\ tracked \in BOOLEAN /\ (tracked => timers > 0)
  /\ auth \subseteq Users
  /\ step \in [Users -> 0..Questions]
  /\ msg \in [Msgs -> [at : {"none"} \cup Busy \cup Ended,
                       user : Users \cup {None}, through : SUBSET (Users \cup {None})]]
  /\ up \in BOOLEAN /\ faults \in 0..MaxFaults
  /\ overlapped \in BOOLEAN /\ loggedOut \in BOOLEAN /\ refused \in BOOLEAN
  /\ parted \subseteq Msgs

Init ==
  /\ sock = 0 /\ userId = None /\ status = "disconnected"
  /\ timers = 0 /\ tracked = FALSE
  /\ socket = [i \in Sockets |-> NoSocket]
  /\ pending = [u \in Users |-> 0]
  /\ auth = {}
  /\ step \in [Users -> {0, Questions}]      \* some are onboarded already
  /\ msg = [k \in Msgs |-> NoMsg]
  /\ up = TRUE /\ faults = 0
  /\ overlapped = FALSE /\ loggedOut = FALSE /\ refused = FALSE /\ parted = {}

Connecting == \E u \in Users : pending[u] > 0
Free == {i \in Sockets : socket[i].at = "free"}
Usable(i) == i # 0 /\ socket[i].at = "open"
Room(u) == pending[u] < MaxConnects /\ \A v \in Users \ {u} : pending[u] + pending[v] < MaxConnects   \* bound
Underway(k) == msg[k].at \in Busy

-----------------------------------------------------------------------------
\* connect up to its first await; with a socket it returns at once.  It makes
\* the user's credentials when there are none.
Connect(u) ==
  /\ sock = 0 /\ Room(u)
  /\ userId' = u /\ status' = "connecting"
  /\ pending' = [pending EXCEPT ![u] = @ + 1]
  /\ auth' = auth \cup {u}
  /\ overlapped' = (overlapped \/ Connecting \/ Free # Sockets)
  /\ parted' = parted \cup {k \in Msgs : Underway(k) /\ msg[k].user # u}
  /\ UNCHANGED <<sock, timers, tracked, socket, step, msg, up, faults, loggedOut, refused>>

\* The rest of connect: a new socket with its handlers becomes this.sock.
Resume(u) ==
  /\ pending[u] > 0
  /\ \E i \in Free :
       /\ \A j \in Free : i <= j
       /\ socket' = [socket EXCEPT ![i] = [at |-> "opening", user |-> u]]
       /\ sock' = i
  /\ pending' = [pending EXCEPT ![u] = @ - 1]
  /\ overlapped' = (overlapped \/ userId # u)
  /\ refused' = FALSE
  /\ UNCHANGED <<userId, status, timers, tracked, auth, step, msg, up, faults, loggedOut, parted>>

\* The version or makeWASocket throws; the callers answer 500 or log it.
ConnectThrows(u) ==
  /\ pending[u] > 0 /\ faults < MaxFaults
  /\ faults' = faults + 1
  /\ pending' = [pending EXCEPT ![u] = @ - 1]
  /\ refused' = TRUE
  /\ UNCHANGED <<manager, socket, auth, step, msg, up, overlapped, loggedOut, parted>>

\* connection.update 'open', with creds.update before it.
Open(i) ==
  /\ socket[i].at = "opening"
  /\ socket' = [socket EXCEPT ![i].at = "open"]
  /\ status' = "connected"
  /\ auth' = auth \cup {socket[i].user}
  /\ UNCHANGED <<sock, userId, timers, tracked, pending, step, msg, up, faults, history>>

\* creds.update of an open socket.
SaveCreds(i) ==
  /\ socket[i].at = "open"
  /\ auth' = auth \cup {socket[i].user}
  /\ UNCHANGED <<manager, socket, pending, step, msg, up, faults, history>>

\* Mutant: only an open socket is connected again.
CloseOpening(i, gone) ==
  /\ socket[i].at # "free" /\ (gone => socket[i].at # "ending")
  /\ socket' = [socket EXCEPT ![i] = NoSocket]
  /\ sock' = 0 /\ status' = "disconnected"
  /\ loggedOut' = gone
  /\ overlapped' = (overlapped \/ sock \notin {0, i})
  /\ IF gone
       THEN auth' = auth \ {socket[i].user} /\ UNCHANGED <<timers, tracked>>
       ELSE /\ IF userId = None \/ socket[i].at = "opening" THEN UNCHANGED <<timers, tracked>>
               ELSE timers < MaxTimers /\ timers' = timers + 1 /\ tracked' = TRUE
            /\ UNCHANGED auth
  /\ UNCHANGED <<userId, pending, step, msg, up, faults, refused, parted>>

\* connection.update 'close', of whichever socket: this.sock is dropped.
Close(i, gone) ==
  /\ socket[i].at # "free" /\ (gone => socket[i].at # "ending")
  /\ socket' = [socket EXCEPT ![i] = NoSocket]
  /\ sock' = 0 /\ status' = "disconnected"
  /\ loggedOut' = gone
  /\ overlapped' = (overlapped \/ sock \notin {0, i})
  /\ IF gone
       THEN auth' = auth \ {socket[i].user} /\ UNCHANGED <<timers, tracked>>
       ELSE /\ IF userId = None THEN UNCHANGED <<timers, tracked>>
               ELSE timers < MaxTimers /\ timers' = timers + 1 /\ tracked' = TRUE
            /\ UNCHANGED auth
  /\ UNCHANGED <<userId, pending, step, msg, up, faults, refused, parted>>

\* Five seconds after a close; the oldest timer first.
ReconnectTimer ==
  /\ timers > 0
  /\ timers' = timers - 1 /\ tracked' = (tracked /\ timers > 1)
  /\ IF userId # None /\ sock = 0
       THEN /\ Room(userId)
            /\ status' = "connecting"
            /\ pending' = [pending EXCEPT ![userId] = @ + 1]
            /\ auth' = auth \cup {userId}
            /\ overlapped' = (overlapped \/ Connecting \/ Free # Sockets)
       ELSE UNCHANGED <<status, pending, auth, overlapped>>
  /\ UNCHANGED <<sock, userId, socket, step, msg, up, faults, loggedOut, refused, parted>>

\* Mutant: the socket is dropped and not ended.
DisconnectDrops(atOnce) ==
  /\ sock' = 0 /\ status' = "disconnected" /\ userId' = None
  /\ overlapped' = (overlapped \/ Connecting)
  /\ timers' = (IF tracked THEN timers - 1 ELSE timers) /\ tracked' = FALSE
  /\ UNCHANGED <<socket, pending, auth, step, msg, up, faults, loggedOut, refused, parted>>

\* disconnect.  end() tells the close handler at once or later; at once, the
\* handler still finds the user and arms the timer that was just cleared.
Disconnect(atOnce) ==
  LET left == IF tracked THEN timers - 1 ELSE timers IN
  /\ sock' = 0 /\ status' = "disconnected" /\ userId' = None
  /\ overlapped' = (overlapped \/ Connecting)
  /\ IF sock = 0
       THEN timers' = left /\ tracked' = FALSE /\ UNCHANGED <<socket, loggedOut>>
       ELSE IF atOnce
         THEN /\ socket' = [socket EXCEPT ![sock] = NoSocket]
              /\ left < MaxTimers
              /\ timers' = (IF userId = None THEN left ELSE left + 1) /\ tracked' = (userId # None)
              /\ loggedOut' = FALSE
         ELSE /\ socket' = [socket EXCEPT ![sock].at = "ending"]
              /\ timers' = left /\ tracked' = FALSE
              /\ UNCHANGED loggedOut
  /\ UNCHANGED <<pending, auth, step, msg, up, faults, refused, parted>>

-----------------------------------------------------------------------------
\* The process ends: what it held is gone, the database stays.
Exit ==
  /\ up' = FALSE
  /\ sock' = 0 /\ userId' = None /\ status' = "disconnected" /\ timers' = 0 /\ tracked' = FALSE
  /\ socket' = [i \in Sockets |-> NoSocket]
  /\ pending' = [u \in Users |-> 0]
  /\ parted' = IF overlapped THEN parted \cup {k \in Msgs : msg[k].through # {}} ELSE parted
  /\ overlapped' = FALSE /\ loggedOut' = FALSE /\ refused' = FALSE
  /\ UNCHANGED auth

Lost(f) == [k \in Msgs |-> IF f[k].at \in Busy THEN [f[k] EXCEPT !.at = "lost"] ELSE f[k]]

\* A rejection that no handler takes ends the process; what rejects is the
\* missing socket, or the message itself.
Unhandled(k) == Exit /\ msg' = Lost([msg EXCEPT ![k].at = "lost"]) /\ UNCHANGED faults
Rejected(k) ==
  /\ faults < MaxFaults /\ faults' = faults + 1
  /\ Exit /\ msg' = Lost([msg EXCEPT ![k].at = "lost"])

Crash ==
  /\ faults < MaxFaults /\ faults' = faults + 1
  /\ Exit /\ msg' = Lost(msg)
  /\ UNCHANGED step

\* Saved credentials of anybody make the server connect its first user.
Start ==
  /\ ~up /\ up' = TRUE
  /\ IF auth = {} THEN UNCHANGED <<userId, status, pending, auth>>
     ELSE /\ userId' = FirstUser /\ status' = "connecting"
          /\ pending' = [pending EXCEPT ![FirstUser] = 1]
          /\ auth' = auth \cup {FirstUser}
  /\ UNCHANGED <<sock, timers, tracked, socket, step, msg, faults, history>>

\* A message whose text is known, in the user's name.  Before the onboarding
\* is over it answers a question and the next one goes out; when that throws,
\* the error reaches nobody and ends the process.
Handle(k, u) ==
  IF step[u] = Questions
    THEN /\ msg' = [msg EXCEPT ![k] = [at |-> "thinking", user |-> u, through |-> {}]]
         /\ UNCHANGED <<manager, socket, pending, auth, step, up, faults, history>>
    ELSE /\ step' = [step EXCEPT ![u] = @ + 1] \/ (step[u] > 0 /\ UNCHANGED step)
         /\ \/ /\ Usable(sock)
               /\ msg' = [msg EXCEPT ![k] = [at |-> "told", user |-> u, through |-> {socket[sock].user}]]
               /\ UNCHANGED <<manager, socket, pending, auth, up, faults, history>>
            \/ ~Usable(sock) /\ Unhandled(k)
            \/ Usable(sock) /\ Rejected(k)

\* Mutant: a message is taken for the first user's.
ReceiveForFirst(i, k, kind) ==
  /\ socket[i].at = "open" /\ msg[k] = NoMsg
  /\ kind = "text" /\ Handle(k, FirstUser)

\* messages.upsert of a socket: handleMessage up to its first await.  A message
\* of the owner to himself is stored and then found as the bot's own echo.
Receive(i, k, kind) ==
  /\ socket[i].at = "open" /\ msg[k] = NoMsg
  /\ IF kind = "text" THEN Handle(k, socket[i].user)
     ELSE /\ msg' = [msg EXCEPT ![k] = [at |-> IF kind = "own" THEN "skipped" ELSE "hearing",
                                        user |-> socket[i].user, through |-> {}]]
          /\ UNCHANGED <<manager, socket, pending, auth, step, up, faults, history>>

\* Whatever the customer gets goes over the socket the manager holds by then.
Tell(k, at) ==
  /\ Usable(sock)
  /\ msg' = [msg EXCEPT ![k].at = at, ![k].through = @ \cup {socket[sock].user}]

\* The catch: an apology, best effort.
Apologise(k) == Tell(k, "told") \/ msg' = [msg EXCEPT ![k].at = "untold"]

\* The voice message is transcribed or not; then it is apologised for.
Hear(k) ==
  /\ msg[k].at = "hearing"
  /\ \/ Handle(k, msg[k].user)
     \/ /\ Tell(k, "told")
        /\ UNCHANGED <<manager, socket, pending, auth, step, up, faults, history>>
     \/ /\ UNCHANGED step
        /\ (~Usable(sock) /\ Unhandled(k)) \/ (Usable(sock) /\ Rejected(k))

\* The agent answers or throws.
Think(k) ==
  /\ msg[k].at = "thinking"
  /\ \/ Tell(k, "answered") \/ Apologise(k)
     \/ sock # 0 /\ msg' = [msg EXCEPT ![k].at = "speaking"]      \* sendVoiceNote
  /\ UNCHANGED <<manager, socket, pending, auth, step, up, faults, history>>

\* Mutant: the voice note waits for a socket.
SpeakWaits(k) ==
  /\ msg[k].at = "speaking"
  /\ Tell(k, "answered")
  /\ UNCHANGED <<manager, socket, pending, auth, step, up, faults, history>>

\* The speech is ready or is not; the voice note or the text goes out.
Speak(k) ==
  /\ msg[k].at = "speaking"
  /\ Tell(k, "answered") \/ Apologise(k)
  /\ UNCHANGED <<manager, socket, pending, auth, step, up, faults, history>>

\* The answer is out.  When storing it, or the presence after it, throws, the
\* same catch sends its apology too.
Finish(k) ==
  /\ msg[k].at = "answered"
  /\ Tell(k, "told") \/ msg' = [msg EXCEPT ![k].at = "told"]
  /\ UNCHANGED <<manager, socket, pending, auth, step, up, faults, history>>

Next ==
  \/ up /\ \/ \E u \in Users : Connect(u) \/ Resume(u) \/ ConnectThrows(u)
           \/ \E i \in Sockets : Open(i) \/ SaveCreds(i)
           \/ \E i \in Sockets, gone \in BOOLEAN : Close(i, gone)
           \/ ReconnectTimer \/ Crash
           \/ \E atOnce \in BOOLEAN : Disconnect(atOnce)
           \/ \E i \in Sockets, k \in Msgs, kind \in {"own", "text", "voice"} : Receive(i, k, kind)
           \/ \E k \in Msgs : Hear(k) \/ Think(k) \/ Speak(k) \/ Finish(k)
  \/ Start

Spec == Init /\ [][Next]_vars

\* Timers fire, what is awaited settles (the agent's client and the sockets
\* have timeouts of their own).
Fairness ==
  /\ WF_vars(ReconnectTimer)
  /\ \A u \in Users : WF_vars(Resume(u))
  /\ \A k \in Msgs : WF_vars(Hear(k)) /\ WF_vars(Think(k)) /\ WF_vars(Speak(k)) /\ WF_vars(Finish(k))

-----------------------------------------------------------------------------
\* Unless two connects, or a connect and a disconnect, crossed: every socket
\* is the manager's and belongs to the user it is connected for, and the
\* status says connected exactly while it is open (whatsapp.ts:123-210).
OneLink ==
  ~overlapped =>
    /\ \A i \in Sockets : socket[i].at \in {"opening", "open"} => i = sock /\ socket[i].user = userId
    /\ (status = "connected") <=> Usable(sock)

\* Whatever a message is answered with, an apology after the answer included,
\* goes out from the number it came in to, unless another user connected in
\* between (handleMessage sends over this.sock, :212-215, :451-466, :486-490).
OwnNumber ==
  ~overlapped => \A k \in Msgs \ parted : msg[k].through \subseteq {msg[k].user}

\* A link that drops without a logout comes back, unless the user disconnects
\* or the attempt throws: nobody tries a second time (:174-182).
LinkReturns ==
  (status = "disconnected" /\ userId # None /\ ~loggedOut)
     ~> (sock # 0 \/ userId = None \/ loggedOut \/ refused \/ Free = {})

\* Every message that came in ends: skipped, answered, apologised for, or lost
\* with the process (handleMessage, :261-493).
MessagesEnd == \A k \in Msgs : Underway(k) ~> msg[k].at \in Ended
=============================================================================
