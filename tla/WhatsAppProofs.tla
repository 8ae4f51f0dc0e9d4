---------------------------- MODULE WhatsAppProofs ----------------------------
(***************************************************************************)
(* Theorems about WhatsApp, for any users, messages, sockets and connects  *)
(* that wait.  Inv is inductive: while no two of its operations crossed,   *)
(* the manager holds the one socket that lives, a connect that waits is    *)
(* alone, and a message under way is of the user who is connected.         *)
(***************************************************************************)
EXTENDS WhatsApp, TLAPS

Live(i) == socket[i].at \in {"opening", "open"}
link == <<sock, userId, status, socket, pending, overlapped, up>>

\* The manager's socket lives, until it closes or the manager drops it.
Held ==
  /\ sock # 0 => Live(sock)
  /\ \A i \in Sockets : Live(i) => socket[i].user \in Users

Linked ==
  ~overlapped =>
    /\ \A i \in Sockets : Live(i) => i = sock
    /\ sock # 0 => Live(sock) /\ socket[sock].user = userId /\ userId \in Users
    /\ (status = "connected") <=> Usable(sock)
    /\ \A u \in Users : pending[u] > 0 =>
         u = userId /\ pending[u] = 1 /\ sock = 0 /\ \A i \in Sockets : socket[i].at = "free"

\* The process that starts finds nothing of the one before.
Resting ==
  ~up => /\ sock = 0 /\ userId = None /\ status = "disconnected"
         /\ \A i \in Sockets : socket[i].at = "free"
         /\ \A u \in Users : pending[u] = 0
         /\ \A k \in Msgs : ~Underway(k)

Untold == \A k \in Msgs : msg[k].at = "none" => msg[k] = NoMsg

Addressed ==
  ~overlapped => \A k \in Msgs \ parted :
    /\ msg[k].through \subseteq {msg[k].user}
    /\ Underway(k) => userId \in {None, msg[k].user}

Inv == TypeOK /\ Held /\ Linked /\ Resting /\ Untold /\ Addressed

-----------------------------------------------------------------------------
LEMMA Constants ==
  /\ FirstUser \in Users /\ None \notin Users /\ Questions \in Nat /\ MaxFaults \in Nat
  /\ MaxSockets \in Nat /\ MaxConnects \in Nat /\ MaxConnects # 0 /\ MaxTimers \in Nat
  /\ Sockets \subseteq Nat /\ 0 \notin Sockets /\ Sockets \subseteq 0..MaxSockets
  /\ 0..MaxSockets = Sockets \cup {0}
BY WhatsAppAssumption DEF Sockets

Msg == [at : {"none"} \cup Busy \cup Ended, user : Users \cup {None}, through : SUBSET (Users \cup {None})]

LEMMA Fields ==
  ASSUME TypeOK
  PROVE  /\ \A i \in Sockets : socket[i].user \in Users \cup {None}
                               /\ socket[i].at \in {"free", "opening", "open", "ending"}
         /\ \A k \in Msgs : msg[k] \in Msg
         /\ sock = 0 \/ sock \in Sockets
         /\ \A u \in Users : pending[u] \in 0..MaxConnects /\ pending[u] \in Nat
<1>1. sock = 0 \/ sock \in Sockets
  BY Constants DEF TypeOK
<1>2. \A u \in Users : pending[u] \in 0..MaxConnects /\ pending[u] \in Nat
  BY Constants DEF TypeOK
<1>3. \A i \in Sockets : socket[i].user \in Users \cup {None}
                         /\ socket[i].at \in {"free", "opening", "open", "ending"}
  BY DEF TypeOK
<1>4. \A k \in Msgs : msg[k] \in Msg
  BY DEF TypeOK, Msg
<1>. QED BY <1>1, <1>2, <1>3, <1>4

\* The socket over which an answer goes is the connected user's.
LEMMA Sender ==
  ASSUME Inv, ~overlapped, Usable(sock)
  PROVE  sock \in Sockets /\ Live(sock) /\ socket[sock].user = userId /\ userId \in Users
BY Fields DEF Inv, Linked, Usable, Live

LEMMA InitInv == Init => Inv
<1>. SUFFICES ASSUME Init PROVE Inv
  OBVIOUS
<1>1. TypeOK
  <2>1. /\ sock \in 0..MaxSockets /\ timers \in 0..MaxTimers /\ faults \in 0..MaxFaults
        /\ pending \in [Users -> 0..MaxConnects] /\ step \in [Users -> 0..Questions]
    BY Constants DEF Init
  <2>2. /\ socket \in [Sockets -> [at : {"free", "opening", "open", "ending"}, user : Users \cup {None}]]
        /\ msg \in [Msgs -> Msg] /\ auth \subseteq Users /\ parted \subseteq Msgs
    BY DEF Init, NoSocket, NoMsg, Msg
  <2>3. userId \in Users \cup {None} /\ status \in {"disconnected", "connecting", "connected"} /\ ~tracked
    BY DEF Init
  <2>4. tracked \in BOOLEAN /\ up \in BOOLEAN
    BY Zenon DEF Init
  <2>5. overlapped \in BOOLEAN /\ loggedOut \in BOOLEAN /\ refused \in BOOLEAN
    BY Zenon DEF Init
  <2>. QED BY <2>1, <2>2, <2>3, <2>4, <2>5 DEF TypeOK, Msg
<1>2. Held /\ Linked /\ Resting
  BY Constants DEF Init, Held, Linked, Resting, Live, Usable, NoSocket
<1>3. Untold /\ Addressed
  BY DEF Init, Untold, Addressed, Underway, Busy, NoMsg
<1>. QED BY <1>1, <1>2, <1>3 DEF Inv

-----------------------------------------------------------------------------
(* What follows when one part of the state is left alone *)

LEMMA LinkStays ==
  ASSUME Inv, UNCHANGED link, \A k \in Msgs : Underway(k)' => up
  PROVE  Held' /\ Linked' /\ Resting'
<1>1. Held' /\ Linked'
  BY DEF Inv, link, Held, Linked, Live, Usable
<1>2. Resting'
  BY DEF Inv, link, Resting
<1>. QED BY <1>1, <1>2

\* While messages stay as they are, who is connected may change only for those
\* that are set apart.
LEMMA MessagesStay ==
  ASSUME Inv, UNCHANGED msg, parted \subseteq parted', ~overlapped' => ~overlapped,
         ~overlapped' => \A k \in Msgs \ parted' : Underway(k) => userId' \in {None, userId, msg[k].user}
  PROVE  Untold' /\ Addressed'
BY DEF Inv, Untold, Addressed, Underway

\* One message goes on.
LEMMA OneMessage ==
  ASSUME Inv, up, UNCHANGED link, UNCHANGED parted, NEW k \in Msgs, NEW m \in Msg,
         msg' = [msg EXCEPT ![k] = m], m.at # "none",
         ~overlapped /\ k \notin parted =>
           m.through \subseteq {m.user} /\ (m.at \in Busy => userId \in {None, m.user})
  PROVE  /\ Held' /\ Linked' /\ Resting' /\ Untold' /\ Addressed'
         /\ msg' \in [Msgs -> Msg]
<1>1. msg' \in [Msgs -> Msg] /\ msg'[k] = m /\ \A j \in Msgs \ {k} : msg'[j] = msg[j]
  BY DEF Inv, TypeOK, Msg
<1>2. Held' /\ Linked' /\ Resting'
  BY LinkStays
<1>3. Untold' /\ Addressed'
  BY <1>1 DEF Inv, Untold, Addressed, Underway, link
<1>. QED BY <1>1, <1>2, <1>3


-----------------------------------------------------------------------------
(* Messages *)

LEMMA TalkTyped ==
  ASSUME Inv, UNCHANGED <<manager, socket, pending, auth, up, faults, history>>,
         msg' \in [Msgs -> Msg], step' \in [Users -> 0..Questions]
  PROVE  TypeOK' /\ UNCHANGED link /\ UNCHANGED parted
<1>1. UNCHANGED link /\ UNCHANGED parted
  BY DEF link, manager, history
<1>. QED BY <1>1 DEF Inv, TypeOK, manager, history, Msg

\* The process ends, and with it the messages under way.
LEMMA ExitKeeps ==
  ASSUME Inv, Exit, NEW f \in [Msgs -> Msg], msg' = Lost(f), faults' \in 0..MaxFaults,
         step' \in [Users -> 0..Questions],
         \A k \in Msgs : \/ f[k] = msg[k]
                         \/ /\ f[k].at = "lost" /\ f[k].through = msg[k].through /\ f[k].user = msg[k].user
                            /\ msg[k].at \in Busy \cup {"none"}
  PROVE  Inv'
<1>1. /\ up' = FALSE /\ sock' = 0 /\ userId' = None /\ status' = "disconnected" /\ timers' = 0
      /\ tracked' = FALSE /\ socket' = [i \in Sockets |-> NoSocket] /\ pending' = [u \in Users |-> 0]
      /\ parted' = IF overlapped THEN parted \cup {k \in Msgs : msg[k].through # {}} ELSE parted
      /\ overlapped' = FALSE /\ loggedOut' = FALSE /\ refused' = FALSE /\ UNCHANGED auth
  BY DEF Exit
<1>2. \A k \in Msgs : msg'[k] = IF f[k].at \in Busy THEN [f[k] EXCEPT !.at = "lost"] ELSE f[k]
  BY DEF Lost
<1>3. \A k \in Msgs : msg'[k] \in Msg /\ msg'[k].through = f[k].through /\ msg'[k].user = f[k].user
                      /\ msg'[k].at \notin Busy /\ (msg'[k].at = f[k].at \/ msg'[k].at = "lost")
  <2>. SUFFICES ASSUME NEW k \in Msgs
                PROVE  msg'[k] \in Msg /\ msg'[k].through = f[k].through /\ msg'[k].user = f[k].user
                       /\ msg'[k].at \notin Busy /\ (msg'[k].at = f[k].at \/ msg'[k].at = "lost")
    OBVIOUS
  <2>1. f[k] \in Msg
    OBVIOUS
  <2>2. CASE f[k].at \in Busy
    <3>1. msg'[k] = [f[k] EXCEPT !.at = "lost"]
      BY <1>2, <2>2
    <3>. QED BY <2>1, <3>1 DEF Msg, Ended, Busy
  <2>3. CASE f[k].at \notin Busy
    BY <1>2, <2>1, <2>3
  <2>. QED BY <2>2, <2>3
<1>4. TypeOK'
  <2>1. msg' \in [Msgs -> Msg]
    BY <1>3 DEF Lost
  <2>2. /\ sock' \in 0..MaxSockets /\ timers' \in 0..MaxTimers /\ pending' \in [Users -> 0..MaxConnects]
        /\ socket' \in [Sockets -> [at : {"free", "opening", "open", "ending"}, user : Users \cup {None}]]
    BY <1>1, Constants DEF NoSocket
  <2>3. up' \in BOOLEAN /\ overlapped' \in BOOLEAN /\ loggedOut' \in BOOLEAN /\ refused' \in BOOLEAN
        /\ tracked' \in BOOLEAN
    BY <1>1
  <2>4. parted' \subseteq Msgs /\ auth' \subseteq Users /\ ~tracked'
    BY <1>1 DEF Inv, TypeOK
  <2>. QED BY <1>1, <2>1, <2>2, <2>3, <2>4 DEF TypeOK, Msg
<1>5. Held' /\ Linked' /\ Resting'
  BY <1>1, <1>3, Constants DEF Held, Linked, Resting, Live, Usable, NoSocket, Underway
<1>6. Untold'
  <2>. SUFFICES ASSUME NEW k \in Msgs, msg'[k].at = "none" PROVE msg'[k] = NoMsg
    BY <1>3 DEF Untold, Underway
  <2>1. f[k].at = "none" /\ msg'[k] = f[k]
    BY <1>2, <1>3 DEF Busy
  <2>2. f[k] = msg[k]
    BY <2>1
  <2>. QED BY <2>1, <2>2 DEF Inv, Untold
<1>7. Addressed'
  <2>. SUFFICES ASSUME NEW k \in Msgs \ parted' PROVE msg'[k].through \subseteq {msg'[k].user}
    BY <1>3 DEF Addressed, Underway
  <2>1. msg'[k].through = msg[k].through /\ msg'[k].user = msg[k].user
    BY <1>3
  <2>2. CASE overlapped
    BY <1>1, <2>1, <2>2
  <2>3. CASE ~overlapped
    BY <1>1, <2>1, <2>3 DEF Inv, Addressed
  <2>. QED BY <2>2, <2>3
<1>. QED BY <1>4, <1>5, <1>6, <1>7 DEF Inv

\* A rejection in the course of k.
LEMMA RejectionKeeps ==
  ASSUME Inv, NEW k \in Msgs, msg[k].at \in Busy \cup {"none"}, Unhandled(k) \/ Rejected(k),
         step' \in [Users -> 0..Questions]
  PROVE  Inv'
<1>. DEFINE f == [msg EXCEPT ![k].at = "lost"]
<1>1. Exit /\ msg' = Lost(f) /\ faults' \in 0..MaxFaults
  <2>1. Exit /\ msg' = Lost(f) /\ (faults' = faults \/ (faults < MaxFaults /\ faults' = faults + 1))
    BY DEF Unhandled, Rejected
  <2>. QED BY <2>1, Constants DEF Inv, TypeOK
<1>2. f \in [Msgs -> Msg]
  BY Fields DEF Inv, TypeOK, Msg, Ended
<1>3. \A j \in Msgs : \/ f[j] = msg[j]
                      \/ /\ f[j].at = "lost" /\ f[j].through = msg[j].through /\ f[j].user = msg[j].user
                         /\ msg[j].at \in Busy \cup {"none"}
  BY Fields DEF Inv, TypeOK, Msg
<1>. QED BY <1>1, <1>2, <1>3, ExitKeeps

LEMMA CrashKeeps ==
  ASSUME Inv, Crash
  PROVE  Inv'
<1>1. msg \in [Msgs -> Msg]
  BY DEF Inv, TypeOK, Msg
<1>2. Exit /\ msg' = Lost(msg) /\ faults' \in 0..MaxFaults /\ step' \in [Users -> 0..Questions]
  BY Constants DEF Crash, Inv, TypeOK
<1>. QED BY <1>1, <1>2, ExitKeeps

LEMMA HandleKeeps ==
  ASSUME Inv, up, NEW k \in Msgs, NEW u \in Users \cup {None}, Handle(k, u),
         msg[k].at \in {"none", "hearing"}, ~overlapped /\ k \notin parted => userId \in {None, u}
  PROVE  Inv'
<1>1. CASE step[u] = Questions
  <2>. DEFINE m == [at |-> "thinking", user |-> u, through |-> {}]
  <2>1. msg' = [msg EXCEPT ![k] = m] /\ UNCHANGED <<manager, socket, pending, auth, step, up, faults, history>>
    BY <1>1 DEF Handle
  <2>2. m \in Msg /\ m.at # "none" /\ m.through = {} /\ m.user = u
    BY DEF Msg, Busy
  <2>. HIDE DEF m
  <2>3. UNCHANGED link /\ UNCHANGED parted
    BY <2>1 DEF link, manager, history
  <2>4. Held' /\ Linked' /\ Resting' /\ Untold' /\ Addressed' /\ msg' \in [Msgs -> Msg]
    BY <2>1, <2>2, <2>3, OneMessage
  <2>5. step' \in [Users -> 0..Questions]
    BY <2>1 DEF Inv, TypeOK
  <2>6. TypeOK'
    BY <2>1, <2>4, <2>5, TalkTyped
  <2>. QED BY <2>4, <2>6 DEF Inv
<1>2. CASE step[u] # Questions
  <2>1. step' \in [Users -> 0..Questions]
    <3>1. step' = [step EXCEPT ![u] = step[u] + 1] \/ step' = step
      BY <1>2 DEF Handle
    <3>2. step \in [Users -> 0..Questions]
      BY DEF Inv, TypeOK
    <3>. QED BY <1>2, <3>1, <3>2, Constants
  <2>2. CASE Unhandled(k) \/ Rejected(k)
    BY <2>1, <2>2, RejectionKeeps DEF Busy
  <2>3. CASE /\ Usable(sock)
             /\ msg' = [msg EXCEPT ![k] = [at |-> "told", user |-> u, through |-> {socket[sock].user}]]
             /\ UNCHANGED <<manager, socket, pending, auth, up, faults, history>>
    <3>. DEFINE m == [at |-> "told", user |-> u, through |-> {socket[sock].user}]
    <3>1. sock \in Sockets /\ socket[sock].user \in Users \cup {None}
      BY <2>3, Fields DEF Inv, Usable
    <3>2. m \in Msg /\ m.at = "told" /\ m.user = u /\ m.through = {socket[sock].user}
      BY <3>1 DEF Msg, Ended
    <3>3. ~overlapped /\ k \notin parted => m.through = {m.user}
      BY <2>3, <3>2, Sender, Constants
    <3>4. msg' = [msg EXCEPT ![k] = m]
      BY <2>3
    <3>. HIDE DEF m
    <3>5. UNCHANGED link /\ UNCHANGED parted
      BY <2>3 DEF link, manager, history
    <3>6. Held' /\ Linked' /\ Resting' /\ Untold' /\ Addressed' /\ msg' \in [Msgs -> Msg]
      BY <3>2, <3>3, <3>4, <3>5, OneMessage DEF Busy
    <3>7. TypeOK'
      BY <2>1, <2>3, <3>6, TalkTyped
    <3>. QED BY <3>6, <3>7 DEF Inv
  <2>. QED BY <1>2, <2>2, <2>3 DEF Handle
<1>. QED BY <1>1, <1>2

\* Whatever is told goes over the manager's socket.
LEMMA TellKeeps ==
  ASSUME Inv, up, NEW k \in Msgs, Underway(k), NEW at \in {"speaking", "answered", "untold", "told"},
         Tell(k, at) \/ msg' = [msg EXCEPT ![k].at = at],
         UNCHANGED <<manager, socket, pending, auth, step, up, faults, history>>
  PROVE  Inv'
<1>1. PICK T \in SUBSET {socket[sock].user} :
        /\ msg' = [msg EXCEPT ![k] = [msg[k] EXCEPT !.at = at, !.through = msg[k].through \cup T]]
        /\ T = {} \/ Usable(sock)
  <2>1. CASE Tell(k, at)
    BY <2>1 DEF Tell, Inv, TypeOK
  <2>2. CASE msg' = [msg EXCEPT ![k].at = at]
    <3>1. msg[k] \in Msg
      BY Fields DEF Inv
    <3>2. [msg[k] EXCEPT !.at = at] = [msg[k] EXCEPT !.at = at, !.through = msg[k].through \cup {}]
      BY <3>1 DEF Msg
    <3>3. msg' = [msg EXCEPT ![k] = [msg[k] EXCEPT !.at = at]]
      BY <2>2 DEF Inv, TypeOK
    <3>. QED BY <3>2, <3>3
  <2>. QED BY <2>1, <2>2
<1>. DEFINE m == [msg[k] EXCEPT !.at = at, !.through = msg[k].through \cup T]
<1>2. msg[k] \in Msg /\ T \subseteq Users \cup {None}
  BY <1>1, Fields DEF Inv, Usable
<1>3. m \in Msg /\ m.at = at /\ m.user = msg[k].user /\ m.through = msg[k].through \cup T
  BY <1>2 DEF Msg, Ended, Busy
<1>. HIDE DEF m
<1>4. ~overlapped /\ k \notin parted => m.through \subseteq {m.user} /\ userId \in {None, m.user}
  <2>1. ~overlapped /\ k \notin parted => userId \in {None, msg[k].user} /\ msg[k].through \subseteq {msg[k].user}
    BY DEF Inv, Addressed
  <2>2. ~overlapped /\ k \notin parted => T \subseteq {msg[k].user}
    BY <1>1, <2>1, Sender, Constants
  <2>. QED BY <1>3, <2>1, <2>2
<1>5. m.at # "none" /\ UNCHANGED link /\ UNCHANGED parted /\ msg' = [msg EXCEPT ![k] = m]
  BY <1>1, <1>3 DEF link, manager, history, m
<1>6. Held' /\ Linked' /\ Resting' /\ Untold' /\ Addressed' /\ msg' \in [Msgs -> Msg]
  BY <1>3, <1>4, <1>5, OneMessage
<1>7. step' \in [Users -> 0..Questions]
  BY DEF Inv, TypeOK
<1>8. TypeOK'
  BY <1>6, <1>7, TalkTyped
<1>. QED BY <1>6, <1>8 DEF Inv

LEMMA ReceiveKeeps ==
  ASSUME Inv, up, NEW i \in Sockets, NEW k \in Msgs, NEW kind \in {"own", "text", "voice"}, Receive(i, k, kind)
  PROVE  Inv'
<1>1. /\ socket[i].at = "open" /\ msg[k] = NoMsg /\ msg[k].at = "none" /\ socket[i].user \in Users \cup {None}
  BY Fields DEF Receive, Inv, NoMsg
<1>2. ~overlapped => userId = socket[i].user
  BY <1>1, Constants DEF Inv, Linked, Live
<1>3. CASE kind = "text"
  BY <1>1, <1>2, <1>3, HandleKeeps DEF Receive
<1>4. CASE kind # "text"
  <2>. DEFINE m == [at |-> IF kind = "own" THEN "skipped" ELSE "hearing", user |-> socket[i].user, through |-> {}]
  <2>1. msg' = [msg EXCEPT ![k] = m] /\ UNCHANGED <<manager, socket, pending, auth, step, up, faults, history>>
    BY <1>4 DEF Receive
  <2>2. m \in Msg /\ m.at # "none" /\ m.through = {} /\ m.user = socket[i].user
    BY <1>1 DEF Msg, Busy, Ended
  <2>. HIDE DEF m
  <2>3. UNCHANGED link /\ UNCHANGED parted
    BY <2>1 DEF link, manager, history
  <2>4. Held' /\ Linked' /\ Resting' /\ Untold' /\ Addressed' /\ msg' \in [Msgs -> Msg]
    BY <1>2, <2>1, <2>2, <2>3, OneMessage
  <2>5. step' \in [Users -> 0..Questions]
    BY <2>1 DEF Inv, TypeOK
  <2>6. TypeOK'
    BY <2>1, <2>4, <2>5, TalkTyped
  <2>. QED BY <2>4, <2>6 DEF Inv
<1>. QED BY <1>3, <1>4

LEMMA TalkKeeps ==
  ASSUME Inv, up, NEW k \in Msgs, Hear(k) \/ Think(k) \/ Speak(k) \/ Finish(k)
  PROVE  Inv'
<1>1. Underway(k)
  BY DEF Hear, Think, Speak, Finish, Underway, Busy
<1>2. ASSUME NEW at \in {"speaking", "answered", "untold", "told"},
             Tell(k, at) \/ msg' = [msg EXCEPT ![k].at = at],
             UNCHANGED <<manager, socket, pending, auth, step, up, faults, history>>
      PROVE  Inv'
  BY <1>1, <1>2, TellKeeps
<1>3. ASSUME Tell(k, "answered") \/ Apologise(k),
             UNCHANGED <<manager, socket, pending, auth, step, up, faults, history>>
      PROVE  Inv'
  BY <1>2, <1>3 DEF Apologise
<1>4. ASSUME msg[k].at = "hearing", Handle(k, msg[k].user)
      PROVE  Inv'
  <2>1. msg[k].user \in Users \cup {None}
    BY Fields DEF Inv, Msg
  <2>2. ~overlapped /\ k \notin parted => userId \in {None, msg[k].user}
    BY <1>1 DEF Inv, Addressed
  <2>. QED BY <1>4, <2>1, <2>2, HandleKeeps
<1>5. ASSUME msg[k].at = "hearing", UNCHANGED step, Unhandled(k) \/ Rejected(k)
      PROVE  Inv'
  BY <1>5, RejectionKeeps DEF Inv, TypeOK, Busy
<1>6. CASE Hear(k)
  BY <1>2, <1>4, <1>5, <1>6 DEF Hear
<1>7. CASE Think(k)
  BY <1>2, <1>3, <1>7 DEF Think
<1>8. CASE Speak(k)
  BY <1>3, <1>8 DEF Speak
<1>9. CASE Finish(k)
  BY <1>2, <1>9 DEF Finish
<1>. QED BY <1>6, <1>7, <1>8, <1>9


-----------------------------------------------------------------------------
(* The link *)

\* A connect begins, by a request, the timer or the start-up.
LEMMA Begun ==
  ASSUME TypeOK, NEW u \in Users, pending[u] < MaxConnects, pending' = [pending EXCEPT ![u] = pending[u] + 1]
  PROVE  /\ pending' \in [Users -> 0..MaxConnects]
         /\ \A v \in Users : pending'[v] = IF v = u THEN pending[u] + 1 ELSE pending[v]
<1>1. pending \in [Users -> 0..MaxConnects] /\ pending[u] \in Nat
  BY Fields DEF TypeOK
<1>2. pending[u] + 1 \in 0..MaxConnects
  BY <1>1, Constants
<1>. QED BY <1>1, <1>2

LEMMA Alone ==
  ASSUME Inv, ~ (overlapped \/ Connecting \/ Free # Sockets)
  PROVE  ~overlapped /\ (\A i \in Sockets : socket[i].at = "free") /\ \A v \in Users : pending[v] = 0
<1>1. ~overlapped /\ Free = Sockets /\ \A v \in Users : ~ (pending[v] > 0)
  BY DEF Connecting
<1>2. \A i \in Sockets : socket[i].at = "free"
  BY <1>1 DEF Free
<1>3. \A v \in Users : pending[v] \in Nat
  BY Fields DEF Inv
<1>4. \A v \in Users : pending[v] = 0
  BY <1>1, <1>3
<1>. QED BY <1>1, <1>2, <1>4

LEMMA ConnectKeeps ==
  ASSUME Inv, up, NEW u \in Users, Connect(u)
  PROVE  Inv'
<1>1. /\ sock = 0 /\ userId' = u /\ status' = "connecting" /\ pending[u] < MaxConnects
      /\ pending' = [pending EXCEPT ![u] = pending[u] + 1] /\ auth' = auth \cup {u}
      /\ overlapped' = (overlapped \/ Connecting \/ Free # Sockets)
      /\ parted' = parted \cup {k \in Msgs : Underway(k) /\ msg[k].user # u}
      /\ UNCHANGED <<sock, timers, tracked, socket, step, msg, up, faults, loggedOut, refused>>
  BY DEF Connect, Room, Inv, TypeOK
<1>2. /\ pending' \in [Users -> 0..MaxConnects]
      /\ \A v \in Users : pending'[v] = IF v = u THEN pending[u] + 1 ELSE pending[v]
  BY <1>1, Begun DEF Inv
<1>3. TypeOK'
  <2>1. overlapped' \in BOOLEAN
    BY <1>1 DEF Inv, TypeOK
  <2>. QED BY <1>1, <1>2, <2>1 DEF Inv, TypeOK
<1>4. Linked'
  <2>. SUFFICES ASSUME ~overlapped' PROVE Linked'
    BY DEF Linked
  <2>1. ~overlapped /\ (\A i \in Sockets : socket[i].at = "free") /\ \A v \in Users : pending[v] = 0
    BY <1>1, Alone
  <2>. QED BY <1>1, <1>2, <2>1 DEF Linked, Live, Usable
<1>5. Untold' /\ Addressed'
  BY <1>1, MessagesStay
<1>. QED BY <1>1, <1>3, <1>4, <1>5 DEF Inv, Resting, Held, Live

LEMMA ReconnectKeeps ==
  ASSUME Inv, up, ReconnectTimer
  PROVE  Inv'
<1>1. /\ timers > 0 /\ timers' = timers - 1 /\ tracked' = (tracked /\ timers > 1)
      /\ UNCHANGED <<sock, userId, socket, step, msg, up, faults, loggedOut, refused, parted>>
  BY DEF ReconnectTimer
<1>2. timers' \in 0..MaxTimers /\ (tracked' => timers' > 0) /\ tracked' \in BOOLEAN
  <2>1. timers \in 0..MaxTimers /\ tracked \in BOOLEAN
    BY DEF Inv, TypeOK
  <2>2. timers' \in 0..MaxTimers /\ (timers > 1 => timers' > 0)
    BY <1>1, <2>1, Constants
  <2>3. tracked' \in BOOLEAN /\ (tracked' => timers > 1)
    BY <1>1, <2>1
  <2>. QED BY <2>2, <2>3
<1>3. CASE userId # None /\ sock = 0
  <2>1. /\ userId \in Users /\ status' = "connecting" /\ pending[userId] < MaxConnects
        /\ pending' = [pending EXCEPT ![userId] = pending[userId] + 1] /\ auth' = auth \cup {userId}
        /\ overlapped' = (overlapped \/ Connecting \/ Free # Sockets)
    BY <1>3 DEF ReconnectTimer, Room, Inv, TypeOK
  <2>2. /\ pending' \in [Users -> 0..MaxConnects]
        /\ \A v \in Users : pending'[v] = IF v = userId THEN pending[userId] + 1 ELSE pending[v]
    BY <2>1, Begun DEF Inv
  <2>3. TypeOK'
    <3>1. overlapped' \in BOOLEAN
      BY <2>1 DEF Inv, TypeOK
    <3>. QED BY <1>1, <1>2, <2>1, <2>2, <3>1 DEF Inv, TypeOK
  <2>4. Linked'
    <3>. SUFFICES ASSUME ~overlapped' PROVE Linked'
      BY DEF Linked
    <3>1. ~overlapped /\ (\A i \in Sockets : socket[i].at = "free") /\ \A v \in Users : pending[v] = 0
      BY <2>1, Alone
    <3>. QED BY <1>1, <1>3, <2>1, <2>2, <3>1 DEF Linked, Live, Usable
  <2>5. Untold' /\ Addressed'
    BY <1>1, <2>1, MessagesStay
  <2>. QED BY <1>1, <2>3, <2>4, <2>5 DEF Inv, Resting, Held, Live
<1>4. CASE ~ (userId # None /\ sock = 0)
  <2>1. UNCHANGED <<status, pending, auth, overlapped>>
    BY <1>4 DEF ReconnectTimer
  <2>2. UNCHANGED link
    BY <1>1, <2>1 DEF link
  <2>3. TypeOK'
    BY <1>1, <1>2, <2>1 DEF Inv, TypeOK
  <2>4. Held' /\ Linked' /\ Resting'
    BY <2>2, LinkStays
  <2>5. Untold' /\ Addressed'
    BY <1>1, <2>1, MessagesStay
  <2>. QED BY <2>3, <2>4, <2>5 DEF Inv
<1>. QED BY <1>3, <1>4

LEMMA StartKeeps ==
  ASSUME Inv, Start
  PROVE  Inv'
<1>1. /\ ~up /\ up' = TRUE
      /\ UNCHANGED <<sock, timers, tracked, socket, step, msg, faults, overlapped, loggedOut, refused, parted>>
  BY DEF Start, history
<1>2. /\ sock = 0 /\ userId = None /\ status = "disconnected" /\ \A i \in Sockets : socket[i].at = "free"
      /\ \A u \in Users : pending[u] = 0
      /\ \A k \in Msgs : ~Underway(k)
  BY <1>1 DEF Inv, Resting
<1>3. Untold' /\ Addressed'
  BY <1>1, <1>2, MessagesStay
<1>4. CASE auth = {}
  <2>1. UNCHANGED <<userId, status, pending, auth>>
    BY <1>4 DEF Start
  <2>2. TypeOK'
    BY <1>1, <2>1 DEF Inv, TypeOK
  <2>3. Linked'
    BY <1>1, <2>1 DEF Inv, Linked, Live, Usable
  <2>. QED BY <1>1, <1>3, <2>2, <2>3 DEF Inv, Resting, Held, Live
<1>5. CASE auth # {}
  <2>1. /\ userId' = FirstUser /\ status' = "connecting" /\ pending' = [pending EXCEPT ![FirstUser] = 1]
        /\ auth' = auth \cup {FirstUser}
    BY <1>5 DEF Start
  <2>2. /\ pending' \in [Users -> 0..MaxConnects]
        /\ \A v \in Users : pending'[v] = IF v = FirstUser THEN 1 ELSE 0
    BY <1>2, <2>1, Constants DEF Inv, TypeOK
  <2>3. TypeOK'
    BY <1>1, <2>1, <2>2, Constants DEF Inv, TypeOK
  <2>4. Linked'
    BY <1>1, <1>2, <2>1, <2>2, Constants DEF Linked, Live, Usable
  <2>. QED BY <1>1, <1>3, <2>3, <2>4 DEF Inv, Resting, Held, Live
<1>. QED BY <1>4, <1>5

LEMMA ResumeKeeps ==
  ASSUME Inv, up, NEW u \in Users, Resume(u)
  PROVE  Inv'
<1>1. PICK i \in Free : /\ socket' = [socket EXCEPT ![i] = [at |-> "opening", user |-> u]]
                        /\ sock' = i
  BY DEF Resume
<1>2. /\ pending[u] > 0 /\ pending' = [pending EXCEPT ![u] = pending[u] - 1]
      /\ overlapped' = (overlapped \/ userId # u) /\ refused' = FALSE
      /\ UNCHANGED <<userId, status, timers, tracked, auth, step, msg, up, faults, loggedOut, parted>>
  BY DEF Resume, Inv, TypeOK
<1>3. i \in Sockets /\ i # 0 /\ i \in 0..MaxSockets
  BY Constants DEF Free
<1>4. /\ pending' \in [Users -> 0..MaxConnects]
      /\ \A v \in Users : pending'[v] = IF v = u THEN pending[u] - 1 ELSE pending[v]
  <2>1. pending[u] - 1 \in 0..MaxConnects
    BY <1>2, Fields, Constants DEF Inv
  <2>. QED BY <1>2, <2>1 DEF Inv, TypeOK
<1>5. /\ socket' \in [Sockets -> [at : {"free", "opening", "open", "ending"}, user : Users \cup {None}]]
      /\ \A j \in Sockets : socket'[j] = IF j = i THEN [at |-> "opening", user |-> u] ELSE socket[j]
  BY <1>1, <1>3 DEF Inv, TypeOK
<1>6. TypeOK'
  <2>1. overlapped' \in BOOLEAN /\ refused' \in BOOLEAN
    BY <1>2 DEF Inv, TypeOK
  <2>. QED BY <1>1, <1>2, <1>3, <1>4, <1>5, <2>1 DEF Inv, TypeOK
<1>7. Linked'
  <2>. SUFFICES ASSUME ~overlapped' PROVE Linked'
    BY DEF Linked
  <2>1. /\ ~overlapped /\ userId = u /\ pending[u] = 1 /\ sock = 0 /\ status # "connected"
        /\ \A j \in Sockets : socket[j].at = "free"
        /\ \A v \in Users \ {u} : ~ (pending[v] > 0)
    BY <1>2 DEF Inv, Linked, Usable
  <2>2. \A v \in Users : ~ (pending'[v] > 0)
    BY <1>4, <2>1
  <2>3. sock' = i /\ socket'[i].at = "opening" /\ socket'[i].user = u /\ status' # "connected" /\ userId' = u
    BY <1>1, <1>2, <1>3, <1>5, <2>1
  <2>4. \A j \in Sockets : socket'[j].at \in {"opening", "open"} => j = i
    BY <1>5, <2>1
  <2>. QED BY <1>3, <2>2, <2>3, <2>4 DEF Linked, Live, Usable
<1>8. Untold' /\ Addressed'
  BY <1>2, MessagesStay
<1>9. Held'
  BY <1>1, <1>3, <1>5 DEF Inv, Held, Live
<1>. QED BY <1>2, <1>6, <1>7, <1>8, <1>9 DEF Inv, Resting

LEMMA ConnectThrowsKeeps ==
  ASSUME Inv, up, NEW u \in Users, ConnectThrows(u)
  PROVE  Inv'
<1>1. /\ pending[u] > 0 /\ faults < MaxFaults /\ faults' = faults + 1
      /\ pending' = [pending EXCEPT ![u] = pending[u] - 1] /\ refused' = TRUE
      /\ UNCHANGED <<sock, userId, status, timers, tracked, socket, auth, step, msg, up, overlapped, loggedOut, parted>>
  BY DEF ConnectThrows, manager, Inv, TypeOK
<1>2. /\ pending' \in [Users -> 0..MaxConnects]
      /\ \A v \in Users : pending'[v] = IF v = u THEN pending[u] - 1 ELSE pending[v]
  <2>1. pending[u] - 1 \in 0..MaxConnects
    BY <1>1, Fields, Constants DEF Inv
  <2>. QED BY <1>1, <2>1 DEF Inv, TypeOK
<1>3. TypeOK'
  <2>1. faults' \in 0..MaxFaults /\ refused' \in BOOLEAN
    BY <1>1, Constants DEF Inv, TypeOK
  <2>. QED BY <1>1, <1>2, <2>1 DEF Inv, TypeOK
<1>4. Linked'
  <2>1. ~overlapped => \A v \in Users : ~ (pending'[v] > 0)
    BY <1>1, <1>2 DEF Inv, Linked
  <2>. QED BY <1>1, <2>1 DEF Inv, Linked, Live, Usable
<1>5. Untold' /\ Addressed'
  BY <1>1, MessagesStay
<1>. QED BY <1>1, <1>3, <1>4, <1>5 DEF Inv, Resting, Held, Live


\* A socket changes, and the link with it.
LEMMA OpenKeeps ==
  ASSUME Inv, up, NEW i \in Sockets, Open(i)
  PROVE  Inv'
<1>1. /\ socket[i].at = "opening" /\ socket' = [socket EXCEPT ![i].at = "open"] /\ status' = "connected"
      /\ auth' = auth \cup {socket[i].user}
      /\ UNCHANGED <<sock, userId, timers, tracked, pending, step, msg, up, faults>>
      /\ UNCHANGED <<overlapped, loggedOut, refused, parted>>
  BY DEF Open, history
<1>2. /\ socket' \in [Sockets -> [at : {"free", "opening", "open", "ending"}, user : Users \cup {None}]]
      /\ socket'[i].at = "open" /\ socket'[i].user = socket[i].user
      /\ \A j \in Sockets \ {i} : socket'[j] = socket[j]
  BY <1>1 DEF Inv, TypeOK
<1>3. socket[i].user \in Users
  BY <1>1 DEF Inv, Held, Live
<1>4. TypeOK'
  BY <1>1, <1>2, <1>3 DEF Inv, TypeOK
<1>5. Held'
  BY <1>1, <1>2, <1>3, Fields DEF Inv, Held, Live
<1>6. Linked'
  <2>. SUFFICES ASSUME ~overlapped' PROVE Linked'
    BY DEF Linked
  <2>1. ~overlapped /\ i = sock /\ socket[sock].user = userId
    BY <1>1, Constants DEF Inv, Linked, Live
  <2>2. \A u \in Users : ~ (pending[u] > 0)
    BY <1>1, <2>1 DEF Inv, Linked
  <2>3. \A j \in Sockets : Live(j) => j = i
    BY <1>1, <2>1 DEF Inv, Linked
  <2>4. \A j \in Sockets : Live(j)' => j = i
    BY <1>2, <2>3 DEF Live
  <2>. QED BY <1>1, <1>2, <1>3, <2>1, <2>2, <2>4, Constants DEF Linked, Live, Usable
<1>7. Untold' /\ Addressed'
  BY <1>1, MessagesStay
<1>. QED BY <1>1, <1>4, <1>5, <1>6, <1>7 DEF Inv, Resting

LEMMA SaveCredsKeeps ==
  ASSUME Inv, up, NEW i \in Sockets, SaveCreds(i)
  PROVE  Inv'
<1>1. /\ auth' = auth \cup {socket[i].user} /\ socket[i].user \in Users
      /\ UNCHANGED <<manager, socket, pending, step, msg, up, faults, history>>
  BY DEF SaveCreds, Inv, Held, Live
<1>2. TypeOK' /\ UNCHANGED link
  BY <1>1 DEF Inv, TypeOK, manager, history, link
<1>3. Held' /\ Linked' /\ Resting'
  BY <1>1, <1>2, LinkStays DEF Underway
<1>4. Untold' /\ Addressed'
  BY <1>1, MessagesStay DEF history, manager
<1>. QED BY <1>2, <1>3, <1>4 DEF Inv

LEMMA CloseKeeps ==
  ASSUME Inv, up, NEW i \in Sockets, NEW gone \in BOOLEAN, Close(i, gone)
  PROVE  Inv'
<1>1. /\ socket' = [socket EXCEPT ![i] = NoSocket] /\ sock' = 0 /\ status' = "disconnected"
      /\ overlapped' = (overlapped \/ sock \notin {0, i}) /\ loggedOut' = gone
      /\ socket[i].at # "free"
      /\ UNCHANGED <<userId, pending, step, msg, up, faults, refused, parted>>
  BY DEF Close
<1>2. /\ socket' \in [Sockets -> [at : {"free", "opening", "open", "ending"}, user : Users \cup {None}]]
      /\ socket'[i].at = "free" /\ \A j \in Sockets \ {i} : socket'[j] = socket[j]
  BY <1>1 DEF Inv, TypeOK, NoSocket
<1>3. /\ auth' \subseteq Users /\ timers' \in 0..MaxTimers /\ tracked' \in BOOLEAN /\ (tracked' => timers' > 0)
  <2>1. /\ auth \subseteq Users /\ timers \in 0..MaxTimers /\ tracked \in BOOLEAN /\ (tracked => timers > 0)
    BY DEF Inv, TypeOK
  <2>2. \/ auth' \subseteq auth /\ UNCHANGED <<timers, tracked>>
        \/ auth' = auth /\ timers < MaxTimers /\ timers' = timers + 1 /\ tracked' = TRUE
    BY DEF Close
  <2>3. CASE auth' \subseteq auth /\ UNCHANGED <<timers, tracked>>
    BY <2>1, <2>3
  <2>4. CASE auth' = auth /\ timers < MaxTimers /\ timers' = timers + 1 /\ tracked' = TRUE
    <3>1. timers + 1 \in 0..MaxTimers /\ timers + 1 > 0
      BY <2>1, <2>4, Constants
    <3>. QED BY <2>1, <2>4, <3>1
  <2>. QED BY <2>2, <2>3, <2>4
<1>4. TypeOK'
  <2>1. overlapped' \in BOOLEAN /\ loggedOut' \in BOOLEAN /\ 0 \in 0..MaxSockets
    BY <1>1, Constants DEF Inv, TypeOK
  <2>. QED BY <1>1, <1>2, <1>3, <2>1 DEF Inv, TypeOK
<1>5. Held'
  BY <1>1, <1>2 DEF Inv, Held, Live
<1>6. Linked'
  <2>. SUFFICES ASSUME ~overlapped' PROVE Linked'
    BY DEF Linked
  <2>1. ~overlapped /\ sock \in {0, i}
    BY <1>1
  <2>2. \A j \in Sockets : ~Live(j)'
    BY <1>1, <1>2, <2>1, Constants DEF Inv, Linked, Live
  <2>3. \A u \in Users : ~ (pending'[u] > 0)
    BY <1>1, <2>1 DEF Inv, Linked
  <2>. QED BY <1>1, <2>2, <2>3 DEF Linked, Usable
<1>7. Untold' /\ Addressed'
  BY <1>1, MessagesStay
<1>. QED BY <1>1, <1>4, <1>5, <1>6, <1>7 DEF Inv, Resting

LEMMA DisconnectKeeps ==
  ASSUME Inv, up, NEW atOnce \in BOOLEAN, Disconnect(atOnce)
  PROVE  Inv'
<1>. DEFINE left == IF tracked THEN timers - 1 ELSE timers
<1>1. /\ sock' = 0 /\ status' = "disconnected" /\ userId' = None
      /\ overlapped' = (overlapped \/ Connecting)
      /\ UNCHANGED <<pending, auth, step, msg, up, faults, refused, parted>>
  BY DEF Disconnect
<1>2. left \in 0..MaxTimers
  <2>1. timers \in 0..MaxTimers /\ tracked \in BOOLEAN /\ (tracked => timers > 0)
    BY DEF Inv, TypeOK
  <2>. QED BY <2>1, Constants
<1>3. /\ timers' \in 0..MaxTimers /\ tracked' \in BOOLEAN /\ (tracked' => timers' > 0) /\ loggedOut' \in BOOLEAN
  <2>1. \/ timers' = left /\ tracked' = FALSE
        \/ left < MaxTimers /\ userId # None /\ timers' = left + 1 /\ tracked' = TRUE
    BY DEF Disconnect
  <2>2. loggedOut' \in BOOLEAN
    BY DEF Disconnect, Inv, TypeOK
  <2>. HIDE DEF left
  <2>3. CASE timers' = left /\ tracked' = FALSE
    BY <1>2, <2>2, <2>3
  <2>4. CASE left < MaxTimers /\ userId # None /\ timers' = left + 1 /\ tracked' = TRUE
    <3>1. left + 1 \in 0..MaxTimers /\ left + 1 > 0
      BY <1>2, <2>4, Constants
    <3>. QED BY <2>2, <2>4, <3>1
  <2>. QED BY <2>1, <2>3, <2>4
<1>4. /\ socket' \in [Sockets -> [at : {"free", "opening", "open", "ending"}, user : Users \cup {None}]]
      /\ \A j \in Sockets : (Live(j)' => Live(j) /\ j # sock) /\ (socket[j].at = "free" => socket'[j].at = "free")
      /\ \A j \in Sockets : Live(j)' => socket'[j] = socket[j]
  <2>1. CASE sock = 0
    <3>1. socket' = socket
      BY <2>1 DEF Disconnect
    <3>. QED BY <2>1, <3>1, Constants DEF Inv, TypeOK, Live
  <2>2. CASE sock # 0
    <3>1. sock \in Sockets /\ socket[sock] \in [at : {"free", "opening", "open", "ending"}, user : Users \cup {None}]
          /\ Live(sock)
      BY <2>2, Fields DEF Inv, TypeOK, Held
    <3>2. socket' = [socket EXCEPT ![sock] = NoSocket] \/ socket' = [socket EXCEPT ![sock].at = "ending"]
      BY <2>2 DEF Disconnect
    <3>3. \E r \in [at : {"free", "ending"}, user : Users \cup {None}] : socket' = [socket EXCEPT ![sock] = r]
      BY <3>1, <3>2 DEF NoSocket, Inv, TypeOK
    <3>. QED BY <3>1, <3>3 DEF Inv, TypeOK, Live
  <2>. QED BY <2>1, <2>2
<1>5. TypeOK'
  <2>1. overlapped' \in BOOLEAN /\ 0 \in 0..MaxSockets
    BY <1>1, Constants DEF Inv, TypeOK
  <2>. QED BY <1>1, <1>3, <1>4, <2>1 DEF Inv, TypeOK
<1>6. Held'
  BY <1>1, <1>4 DEF Inv, Held
<1>7. Linked'
  <2>. SUFFICES ASSUME ~overlapped' PROVE Linked'
    BY DEF Linked
  <2>1. ~overlapped /\ \A u \in Users : ~ (pending'[u] > 0)
    BY <1>1 DEF Connecting
  <2>2. \A j \in Sockets : ~Live(j)'
    BY <1>4, <2>1 DEF Inv, Linked
  <2>. QED BY <1>1, <2>1, <2>2 DEF Linked, Usable
<1>8. Untold' /\ Addressed'
  BY <1>1, MessagesStay
<1>. QED BY <1>1, <1>5, <1>6, <1>7, <1>8 DEF Inv, Resting

-----------------------------------------------------------------------------
LEMMA NextInv == Inv /\ [Next]_vars => Inv'
<1>. SUFFICES ASSUME Inv, [Next]_vars PROVE Inv'
  OBVIOUS
<1>1. CASE UNCHANGED vars
  <2>1. TypeOK' /\ UNCHANGED link
    BY <1>1 DEF Inv, TypeOK, vars, manager, history, link
  <2>2. UNCHANGED msg /\ UNCHANGED parted /\ UNCHANGED overlapped /\ UNCHANGED userId
    BY <1>1 DEF vars, manager, history
  <2>3. \A k \in Msgs : Underway(k)' => up
    BY <2>2 DEF Inv, Resting, Underway
  <2>4. Held' /\ Linked' /\ Resting'
    BY <2>1, <2>3, LinkStays
  <2>. QED BY <2>1, <2>2, <2>4, MessagesStay DEF Inv
<1>2. ASSUME up, NEW u \in Users, Connect(u) \/ Resume(u) \/ ConnectThrows(u) PROVE Inv'
  BY <1>2, ConnectKeeps, ResumeKeeps, ConnectThrowsKeeps
<1>3. ASSUME up, NEW i \in Sockets, Open(i) \/ SaveCreds(i) PROVE Inv'
  BY <1>3, OpenKeeps, SaveCredsKeeps
<1>4. ASSUME up, NEW i \in Sockets, NEW gone \in BOOLEAN, Close(i, gone) PROVE Inv'
  BY <1>4, CloseKeeps
<1>5. ASSUME up, ReconnectTimer \/ Crash \/ \E atOnce \in BOOLEAN : Disconnect(atOnce) PROVE Inv'
  BY <1>5, ReconnectKeeps, CrashKeeps, DisconnectKeeps
<1>6. ASSUME up, NEW i \in Sockets, NEW k \in Msgs, NEW kind \in {"own", "text", "voice"}, Receive(i, k, kind)
      PROVE  Inv'
  BY <1>6, ReceiveKeeps
<1>7. ASSUME up, NEW k \in Msgs, Hear(k) \/ Think(k) \/ Speak(k) \/ Finish(k) PROVE Inv'
  BY <1>7, TalkKeeps
<1>8. CASE Start
  BY <1>8, StartKeeps
<1>. QED BY <1>1, <1>2, <1>3, <1>4, <1>5, <1>6, <1>7, <1>8 DEF Next

THEOREM Invariance == Spec => []Inv
BY InitInv, NextInv, PTL DEF Spec

\* Every variable of the link keeps its type.
THEOREM TypeCorrect == Spec => []TypeOK
BY Invariance, PTL DEF Inv

\* Until two of its operations cross, the manager holds the only socket that
\* lives, for the user it is connected for, and its status says so.
THEOREM HoldsOneLink == Spec => []OneLink
<1>1. Inv => OneLink
  <2>. SUFFICES ASSUME Inv, ~overlapped PROVE OneLink
    BY DEF OneLink
  <2>1. \A i \in Sockets : Live(i) => i = sock /\ socket[i].user = userId
    BY Constants DEF Inv, Linked
  <2>. QED BY <2>1 DEF Inv, Linked, OneLink, Live
<1>. QED BY <1>1, Invariance, PTL

\* Until then an answer leaves from the number its message came in to,
\* although it is sent over whatever socket the manager holds when it is ready.
THEOREM AnswersFromOwnNumber == Spec => []OwnNumber
<1>1. Inv => OwnNumber
  BY DEF Inv, Addressed, OwnNumber
<1>. QED BY <1>1, Invariance, PTL
=============================================================================
