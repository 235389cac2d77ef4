--------------------------- MODULE SessionProofs ---------------------------
(***************************************************************************)
(* Session, for any users, clients and bounds: every socket speaks for the *)
(* user of the session that made its client; a client that was cut off     *)
(* stays silent; and a client counts as authenticated only on a socket     *)
(* that the server accepted.                                               *)
(***************************************************************************)
EXTENDS Session, TLAPS

-----------------------------------------------------------------------------
(* The invariant *)

\* Token t is the user's of the client c, unless c is stray.
Fits(c, t) == t \in 1 .. Len(issued) /\ (stray[c] \/ issued[t] = userOf[c])

SocketInv ==
  /\ sockets \in Seq(Socket)
  /\ \A s \in DOMAIN sockets :
       userOf[sockets[s].client] # NoUser /\ Fits(sockets[s].client, sockets[s].token)

\* A client that goes on is the session's, or stray, or about to be stopped; and
\* while it is about to be, there is no token that it could take.
ClientOf(c) ==
  /\ carried[c] # NoToken => Fits(c, carried[c])
  /\ manager[c] = "opening" => carried[c] # NoToken
  /\ userOf[c] = NoUser => manager[c] = "none" /\ carried[c] = NoToken /\ ending[c] = "none"
  /\ manager[c] \notin {"none", "done"} => c = session \/ stray[c] \/ ending[c] # "none"
  /\ ending[c] = "scheduled" => token = NoToken
  /\ window = "down" => manager[c] \in {"none", "done"} /\ ending[c] = "none"

ClientInv ==
  /\ manager \in [Client -> Phase] /\ carried \in [Client -> Nat]
  /\ ending \in [Client -> Ending]
  /\ userOf \in [Client -> User \cup {NoUser}] /\ stray = [d \in Client |-> stray[d]]
  /\ \A c \in Client : ClientOf(c)

\* The row and the token of one user belong together unless somebody is left.
TableInv ==
  /\ issued \in Seq(User) /\ token \in 0 .. Len(issued) /\ file \in 0 .. Len(issued)
  /\ rows \subseteq User
  /\ file # NoToken /\ ~left => rows \subseteq {issued[file]}
  /\ window = "login" /\ rows # {} => left

SessionInv ==
  /\ session \in Client \cup {NoSession}
  /\ window = "main" <=> session # NoSession
  /\ session # NoSession =>
       userOf[session] # NoUser /\ (token # NoToken => Fits(session, token))
  /\ unlocked # NoUser => session # NoSession /\ userOf[session] = unlocked
  /\ task = "soon" => session # NoSession

IInv == SocketInv /\ ClientInv /\ TableInv /\ SessionInv

LEMMA InitInv == Init => IInv
<1> SUFFICES ASSUME Init PROVE IInv
  OBVIOUS
<1>1. SocketInv
  BY DEF Init, SignalingInit, SocketInv
<1>2. ClientInv
  BY DEF Init, SignalingInit, ClientInv, ClientOf, Phase, Ending, NoToken, NoUser
<1>3. TableInv
  BY DEF Init, SignalingInit, TableInv, NoToken
<1>4. SessionInv
  BY DEF Init, SignalingInit, SessionInv, NoSession, NoToken, NoUser
<1>5. QED BY <1>1, <1>2, <1>3, <1>4 DEF IInv

-----------------------------------------------------------------------------
(* Sockets that change keep their client and their token *)

Same(q, r) ==
  /\ r \in Seq(Socket) /\ DOMAIN r = DOMAIN q
  /\ \A s \in DOMAIN q : r[s].client = q[s].client /\ r[s].token = q[s].token

LEMMA Replaced ==
  ASSUME NEW q \in Seq(Socket), NEW s, NEW x,
         s \in DOMAIN q => x \in Socket /\ x.client = q[s].client /\ x.token = q[s].token
  PROVE  Same(q, [q EXCEPT ![s] = x])
<1> DEFINE r == [q EXCEPT ![s] = x]
<1>1. \A i \in DOMAIN q : r[i] = IF i = s THEN x ELSE q[i]
  OBVIOUS
<1>2. DOMAIN r = DOMAIN q
  OBVIOUS
<1>3. r \in Seq(Socket)
  <2>1. CASE s \in DOMAIN q
    BY <2>1
  <2>2. CASE s \notin DOMAIN q
    <3>1. r = q
      BY <2>2
    <3>2. QED BY <3>1
  <2>3. QED BY <2>1, <2>2
<1>4. QED BY <1>1, <1>2, <1>3 DEF Same

LEMMA OpenField ==
  ASSUME NEW x \in Socket, NEW o \in BOOLEAN
  PROVE  LET y == [x EXCEPT !.open = o] IN y \in Socket /\ y.client = x.client /\ y.token = x.token
BY DEF Socket

LEMMA InboxField ==
  ASSUME NEW x \in Socket, NEW q \in Seq({"auth_ok", "error"})
  PROVE  LET y == [x EXCEPT !.inbox = q] IN y \in Socket /\ y.client = x.client /\ y.token = x.token
BY DEF Socket

LEMMA StageField ==
  ASSUME NEW x \in Socket, NEW g \in {"asked", "accepted", "refused"}
  PROVE  LET y == [x EXCEPT !.stage = g] IN y \in Socket /\ y.client = x.client /\ y.token = x.token
BY DEF Socket

LEMMA SameSelf == ASSUME NEW q \in Seq(Socket) PROVE Same(q, q)
BY DEF Same

LEMMA SameClosed == ASSUME NEW s, sockets \in Seq(Socket) PROVE Same(sockets, ClosedSockets(s))
<1> DEFINE x == [sockets[s] EXCEPT !.open = FALSE]
<1>1. s \in DOMAIN sockets =>
        x \in Socket /\ x.client = sockets[s].client /\ x.token = sockets[s].token
  <2>1. s \in DOMAIN sockets => sockets[s] \in Socket
    OBVIOUS
  <2>2. QED BY <2>1, OpenField
<1>2. Same(sockets, [sockets EXCEPT ![s] = x])
  BY <1>1, Replaced
<1>3. QED BY <1>2, SameSelf DEF ClosedSockets

LEMMA OwnedByClient ==
  ASSUME sockets \in Seq(Socket), NEW s \in DOMAIN sockets
  PROVE  sockets[s].client \in Client
<1>1. sockets[s] \in Socket
  OBVIOUS
<1>2. QED BY <1>1 DEF Socket

LEMMA SocketsKept ==
  ASSUME SocketInv, Same(sockets, sockets'), UNCHANGED <<issued, userOf, stray>>
  PROVE  SocketInv'
BY DEF SocketInv, Same, Fits

-----------------------------------------------------------------------------
(* Steps of one client *)

\* What the table, the session and the token are about.
Outside == <<token, issued, file, rows, window, session, userOf, unlocked, left, stray>>

\* A step of client c: its manager is at p with token k, its end at e.
LEMMA ClientMoves ==
  ASSUME IInv, NEW c \in Client, UNCHANGED Outside, task' = "soon" => task = "soon",
         NEW p \in Phase, NEW k \in Nat, NEW e \in Ending,
         manager' = [manager EXCEPT ![c] = p], carried' = [carried EXCEPT ![c] = k],
         ending' = [ending EXCEPT ![c] = e], SocketInv',
         window # "down", userOf[c] # NoUser, k # NoToken => Fits(c, k),
         p = "opening" => k # NoToken,
         p \notin {"none", "done"} => c = session \/ stray[c] \/ e # "none",
         e = "scheduled" => ending[c] = "scheduled"
  PROVE  IInv'
<1>1. TableInv' /\ SessionInv'
  BY DEF IInv, TableInv, SessionInv, Outside, Fits
<1>2. /\ manager' \in [Client -> Phase] /\ carried' \in [Client -> Nat]
      /\ ending' \in [Client -> Ending]
      /\ userOf' \in [Client -> User \cup {NoUser}] /\ stray' = [d \in Client |-> stray'[d]]
  BY DEF IInv, ClientInv, Outside
<1>3. ASSUME NEW d \in Client PROVE ClientOf(d)'
  <2>1. /\ manager'[d] = IF d = c THEN p ELSE manager[d]
        /\ carried'[d] = IF d = c THEN k ELSE carried[d]
        /\ ending'[d] = IF d = c THEN e ELSE ending[d]
    BY DEF IInv, ClientInv
  <2>2. ClientOf(d) /\ ClientOf(c)
    BY DEF IInv, ClientInv
  <2>3. CASE d = c
    BY <2>1, <2>2, <2>3 DEF ClientOf, Fits, Outside
  <2>4. CASE d # c
    BY <2>1, <2>2, <2>4 DEF ClientOf, Fits, Outside
  <2>5. QED BY <2>3, <2>4
<1>4. QED BY <1>1, <1>2, <1>3 DEF IInv, ClientInv

\* A client whose manager is at work has a user, while the program runs.
LEMMA AtWork ==
  ASSUME IInv, NEW c \in Client, manager[c] \notin {"none", "done"}
  PROVE  /\ window # "down" /\ userOf[c] # NoUser
         /\ c = session \/ stray[c] \/ ending[c] # "none"
         /\ ending[c] = "scheduled" => token = NoToken
         /\ carried[c] # NoToken => Fits(c, carried[c])
         /\ manager[c] = "opening" => carried[c] # NoToken
         /\ carried[c] \in Nat /\ ending[c] \in Ending
         /\ ending = [ending EXCEPT ![c] = ending[c]]
         /\ carried = [carried EXCEPT ![c] = carried[c]]
BY DEF IInv, ClientInv, ClientOf

\* A step of the manager that neither takes a token nor makes a socket.
LEMMA ManagerMoves ==
  ASSUME IInv, NEW c \in Client, manager[c] \notin {"none", "done"}, UNCHANGED Outside,
         task' = task, NEW p \in Phase \ {"opening"}, manager' = [manager EXCEPT ![c] = p],
         Forgotten(c) \/ carried' = carried, ending' = ending, Same(sockets, sockets')
  PROVE  IInv'
<1>1. SocketInv'
  BY SocketsKept DEF IInv, Outside
<1>2. p \in Phase /\ p # "opening"
  OBVIOUS
<1>3. CASE Forgotten(c)
  <2>1. carried' = [carried EXCEPT ![c] = 0]
    BY <1>3 DEF Forgotten, NoToken
  <2>2. QED BY <1>1, <1>2, <2>1, AtWork, ClientMoves DEF NoToken
<1>4. CASE carried' = carried
  BY <1>1, <1>2, <1>4, AtWork, ClientMoves
<1>5. QED BY <1>3, <1>4

LEMMA StepRetry ==
  ASSUME IInv, NEW c \in Client, manager[c] \notin {"none", "done"}, UNCHANGED Outside,
         task' = task, ending' = ending, Retry(c) \/ Stop(c)
  PROVE  IInv'
<1>1. Forgotten(c) /\ sockets' = ClosedSockets(Held(c))
  BY DEF Retry, Stop, Release
<1>2. Same(sockets, sockets')
  BY <1>1, SameClosed DEF IInv, SocketInv
<1>3. PICK p \in {"due", "done"} : manager' = [manager EXCEPT ![c] = p]
  BY DEF Retry, Stop, BackOff, Ends
<1>4. p \in Phase \ {"opening"}
  BY DEF Phase
<1>5. QED BY <1>1, <1>2, <1>3, <1>4, ManagerMoves

\* The token that is taken now is the user's.
LEMMA StepWake ==
  ASSUME IInv, NEW c \in Client, Wake(c), UNCHANGED Outside, task' = task PROVE IInv'
<1>1. manager[c] \notin {"none", "done"} /\ ending' = ending
  BY DEF Wake
<1>2. CASE Stop(c) \/ Retry(c)
  BY <1>1, <1>2, StepRetry
<1>3. CASE /\ ~Stopping(c) /\ token # NoToken
           /\ manager' = [manager EXCEPT ![c] = "opening"]
           /\ carried' = [carried EXCEPT ![c] = token]
           /\ UNCHANGED sockets
  <2>1. SocketInv'
    BY <1>3, SameSelf, SocketsKept DEF IInv, SocketInv, Outside
  <2>2. ending[c] = "none"
    BY <1>1, <1>3, AtWork DEF Stopping, Ending
  <2>3. c = session \/ stray[c]
    BY <1>1, <2>2, AtWork
  <2>4. token \in 1 .. Len(issued) /\ token \in Nat
    BY <1>3 DEF IInv, TableInv, NoToken
  <2>5. Fits(c, token)
    BY <1>3, <2>3, <2>4, ClientAssumption DEF IInv, SessionInv, Fits, NoSession
  <2>6. "opening" \in Phase
    BY DEF Phase
  <2>7. QED BY <1>1, <1>3, <2>1, <2>3, <2>4, <2>5, <2>6, AtWork, ClientMoves
<1>4. QED BY <1>2, <1>3 DEF Wake

LEMMA StepOpened ==
  ASSUME IInv, NEW c \in Client, Opened(c), UNCHANGED Outside, task' = task PROVE IInv'
<1>1. manager[c] = "opening" /\ ending' = ending /\ Forgotten(c)
      /\ manager' = [manager EXCEPT ![c] = "auth"]
  BY DEF Opened
<1>2. Fits(c, carried[c]) /\ userOf[c] # NoUser
  BY <1>1, AtWork
<1>3. PICK x : /\ x = [client |-> c, token |-> carried[c], stage |-> "asked",
                       open |-> TRUE, inbox |-> <<>>]
               /\ sockets' = Append(sockets, x)
  BY DEF Opened
<1>4. x \in Socket /\ x.client = c /\ x.token = carried[c]
  <2>1. carried[c] \in Nat /\ <<>> \in Seq({"auth_ok", "error"})
    BY DEF IInv, ClientInv
  <2>2. QED BY <1>3, <2>1 DEF Socket
<1>5. SocketInv'
  <2>1. sockets' \in Seq(Socket)
    BY <1>3, <1>4 DEF IInv, SocketInv
  <2>2. ASSUME NEW s \in DOMAIN sockets'
        PROVE  (s \in DOMAIN sockets /\ sockets'[s] = sockets[s]) \/ sockets'[s] = x
    BY <1>3, <1>4 DEF IInv, SocketInv
  <2>3. QED BY <1>2, <1>4, <2>1, <2>2 DEF IInv, SocketInv, Fits, Outside
<1>6. carried' = [carried EXCEPT ![c] = 0] /\ "auth" \in Phase
  BY <1>1 DEF Forgotten, NoToken, Phase
<1>7. QED BY <1>1, <1>5, <1>6, AtWork, ClientMoves DEF NoToken

LEMMA StepManager ==
  ASSUME IInv, NEW c \in Client, Manager(c), UNCHANGED Outside, task' = task PROVE IInv'
<1>1. CASE Wake(c)
  BY <1>1, StepWake
<1>2. CASE Opened(c)
  BY <1>2, StepOpened
<1>3. CASE OpenFails(c) \/ OpenedInVain(c) \/ AuthTimeout(c) \/ AuthRefused(c) \/ Lost(c)
  <2>1. manager[c] \notin {"none", "done"} /\ ending' = ending /\ (Retry(c) \/ Stop(c))
    BY <1>3 DEF OpenFails, OpenedInVain, AuthTimeout, AuthRefused, Lost
  <2>2. QED BY <2>1, StepRetry
<1>4. CASE AuthAccepted(c)
  <2>1. /\ manager[c] \notin {"none", "done"} /\ ending' = ending /\ carried' = carried
        /\ manager' = [manager EXCEPT ![c] = "up"] /\ sockets' = sockets
    BY <1>4 DEF AuthAccepted
  <2>2. Same(sockets, sockets') /\ "up" \in Phase \ {"opening"}
    BY <2>1, SameSelf DEF IInv, SocketInv, Phase
  <2>3. QED BY <2>1, <2>2, ManagerMoves
<1>5. QED BY <1>1, <1>2, <1>3, <1>4 DEF Manager

LEMMA StepConnect ==
  ASSUME IInv, StartSession PROVE IInv'
<1>1. session \in Client /\ window = "main" /\ userOf[session] # NoUser
  BY DEF IInv, SessionInv, StartSession
<1>2. /\ manager' = [manager EXCEPT ![session] = "due"] /\ carried' = carried
      /\ ending' = ending /\ sockets' = sockets /\ task' = "connect"
      /\ UNCHANGED Outside /\ manager[session] = "none"
  BY DEF StartSession, Connect, TaskMoves, Outside
<1>3. SocketInv'
  BY <1>2, SameSelf, SocketsKept DEF IInv, SocketInv, Outside
<1>4. /\ carried = [carried EXCEPT ![session] = carried[session]]
      /\ ending = [ending EXCEPT ![session] = ending[session]]
      /\ carried[session] \in Nat /\ ending[session] \in Ending
      /\ carried[session] # NoToken => Fits(session, carried[session])
  BY <1>1 DEF IInv, ClientInv, ClientOf
<1>5. "due" \in Phase
  BY DEF Phase
<1>6. QED BY <1>1, <1>2, <1>3, <1>4, <1>5, ClientMoves

LEMMA StepBeginDisconnect ==
  ASSUME IInv, NEW c \in Client, BeginDisconnect(c), UNCHANGED Outside, task' = task PROVE IInv'
<1>1. /\ ending[c] = "scheduled" /\ ending' = [ending EXCEPT ![c] = "begun"]
      /\ manager' = manager /\ carried' = carried /\ sockets' = ClosedSockets(Held(c))
  BY DEF BeginDisconnect
<1>2. Same(sockets, sockets')
  BY <1>1, SameClosed DEF IInv, SocketInv
<1>3. SocketInv'
  BY <1>2, SocketsKept DEF IInv, Outside
<1>4. ClientOf(c)
  BY DEF IInv, ClientInv
<1>5. /\ manager = [manager EXCEPT ![c] = manager[c]]
      /\ carried = [carried EXCEPT ![c] = carried[c]]
      /\ manager[c] \in Phase /\ carried[c] \in Nat
  BY DEF IInv, ClientInv
<1>6. window # "down" /\ "begun" \in Ending /\ userOf[c] # NoUser
  BY <1>1, <1>4 DEF ClientOf, Ending
<1>7. QED BY <1>1, <1>3, <1>4, <1>5, <1>6, ClientMoves DEF ClientOf

LEMMA EndDisconnectKeeps ==
  ASSUME IInv, NEW c \in Client, EndDisconnect(c) PROVE Same(sockets, sockets')
<1> DEFINE l == latest[c]
           x == [[sockets[l] EXCEPT !.open = FALSE] EXCEPT !.inbox = <<>>]
<1>1. CASE sockets' = sockets
  BY <1>1, SameSelf DEF IInv, SocketInv
<1>2. CASE sockets' = [sockets EXCEPT ![l].open = FALSE, ![l].inbox = <<>>]
  <2>1. l \in DOMAIN sockets =>
          x \in Socket /\ x.client = sockets[l].client /\ x.token = sockets[l].token
    <3>1. l \in DOMAIN sockets => sockets[l] \in Socket
      BY DEF IInv, SocketInv
    <3>2. ASSUME l \in DOMAIN sockets
          PROVE  x \in Socket /\ x.client = sockets[l].client /\ x.token = sockets[l].token
      <4>1. PICK y : y = [sockets[l] EXCEPT !.open = FALSE]
        OBVIOUS
      <4>2. y \in Socket /\ y.client = sockets[l].client /\ y.token = sockets[l].token
        BY <3>1, <3>2, <4>1, OpenField
      <4>3. <<>> \in Seq({"auth_ok", "error"}) /\ x = [y EXCEPT !.inbox = <<>>]
        BY <4>1
      <4>4. QED BY <4>2, <4>3, InboxField
    <3>3. QED BY <3>2
  <2>2. Same(sockets, [sockets EXCEPT ![l] = x])
    BY <2>1, Replaced DEF IInv, SocketInv
  <2>3. QED BY <1>2, <2>2
<1>3. QED BY <1>1, <1>2 DEF EndDisconnect

LEMMA StepEndDisconnect ==
  ASSUME IInv, NEW c \in Client, EndDisconnect(c), UNCHANGED Outside, task' = task PROVE IInv'
<1>1. /\ ending[c] = "begun" /\ ending' = [ending EXCEPT ![c] = "ended"]
      /\ manager' = [manager EXCEPT ![c] = "done"] /\ carried' = [carried EXCEPT ![c] = 0]
  BY DEF EndDisconnect, Ends, Forgotten, NoToken
<1>2. Same(sockets, sockets')
  BY EndDisconnectKeeps
<1>3. SocketInv'
  BY <1>2, SocketsKept DEF IInv, Outside
<1>4. ClientOf(c)
  BY DEF IInv, ClientInv
<1>5. window # "down" /\ userOf[c] # NoUser /\ "done" \in Phase /\ "ended" \in Ending
  BY <1>1, <1>4 DEF ClientOf, Phase, Ending
<1>6. QED BY <1>1, <1>3, <1>5, ClientMoves DEF NoToken

\* The receiver, the server and the network change fields of one socket.
LEMMA SocketMoves ==
  ASSUME IInv, Same(sockets, sockets'), UNCHANGED Outside, task' = "soon" => task = "soon",
         UNCHANGED <<manager, carried, ending>>
  PROVE  IInv'
<1>1. SocketInv'
  BY SocketsKept DEF IInv, Outside
<1>2. TableInv' /\ SessionInv' /\ ClientInv'
  BY DEF IInv, TableInv, SessionInv, ClientInv, ClientOf, Outside, Fits
<1>3. QED BY <1>1, <1>2 DEF IInv

LEMMA ReceiveKeeps ==
  ASSUME IInv, NEW s \in DOMAIN sockets, Receive(s) PROVE Same(sockets, sockets')
<1>1. sockets[s] \in Socket
  BY DEF IInv, SocketInv
<1>2. PICK q : q = Tail(sockets[s].inbox)
  OBVIOUS
<1>3. q \in Seq({"auth_ok", "error"})
  <2>1. sockets[s].inbox \in Seq({"auth_ok", "error"}) /\ sockets[s].inbox # <<>>
    BY <1>1 DEF Receive, Socket
  <2>2. QED BY <1>2, <2>1
<1>4. sockets' = [sockets EXCEPT ![s] = [sockets[s] EXCEPT !.inbox = q]]
  BY <1>2 DEF Receive
<1>5. QED BY <1>1, <1>3, <1>4, InboxField, Replaced DEF IInv, SocketInv

LEMMA StepReceive ==
  ASSUME IInv, NEW s \in DOMAIN sockets, Receive(s), UNCHANGED Outside, task' = task PROVE IInv'
BY ReceiveKeeps, SocketMoves DEF Receive

LEMMA ConnectionKeeps ==
  ASSUME IInv, NEW s \in DOMAIN sockets, Connection(s) PROVE Same(sockets, sockets')
<1>1. sockets[s] \in Socket
  BY DEF IInv, SocketInv
<1>2. PICK ok, no : /\ ok = Append(sockets[s].inbox, "auth_ok")
                    /\ no = Append(sockets[s].inbox, "error")
  OBVIOUS
<1>3. ok \in Seq({"auth_ok", "error"}) /\ no \in Seq({"auth_ok", "error"})
  <2>1. sockets[s].inbox \in Seq({"auth_ok", "error"})
    BY <1>1 DEF Socket
  <2>2. QED BY <1>2, <2>1
<1>4. PICK x : /\ x \in Socket /\ x.client = sockets[s].client /\ x.token = sockets[s].token
               /\ sockets' = [sockets EXCEPT ![s] = x]
  <2>1. CASE Drop(s)
    BY <1>1, <2>1, OpenField DEF Drop
  <2>2. CASE RequestFails(s)
    BY <1>1, <1>2, <1>3, <2>2, InboxField DEF RequestFails
  <2>3. ASSUME NEW g \in {"asked", "accepted", "refused"}, NEW q \in {ok, no},
               sockets' = [sockets EXCEPT ![s].stage = g, ![s].inbox = q]
        PROVE  \E x : /\ x \in Socket
                      /\ x.client = sockets[s].client /\ x.token = sockets[s].token
                      /\ sockets' = [sockets EXCEPT ![s] = x]
    <3>1. PICK y : y = [sockets[s] EXCEPT !.stage = g]
      OBVIOUS
    <3>2. y \in Socket /\ y.client = sockets[s].client /\ y.token = sockets[s].token
      BY <1>1, <3>1, StageField
    <3>3. sockets' = [sockets EXCEPT ![s] = [y EXCEPT !.inbox = q]]
      BY <2>3, <3>1
    <3>4. QED BY <1>3, <3>2, <3>3, InboxField
  <2>4. CASE Accept(s)
    BY <1>2, <2>3, <2>4 DEF Accept
  <2>5. CASE Refuse(s)
    BY <1>2, <2>3, <2>5 DEF Refuse
  <2>6. QED BY <2>1, <2>2, <2>4, <2>5 DEF Connection
<1>5. QED BY <1>4, Replaced DEF IInv, SocketInv

LEMMA StepConnection ==
  ASSUME IInv, NEW s \in DOMAIN sockets, Connection(s), UNCHANGED Outside, task' = task
  PROVE  IInv'
<1>1. UNCHANGED <<manager, carried, ending>>
  BY DEF Connection, Accept, Refuse, RequestFails, Drop, clientVars
<1>2. QED BY <1>1, ConnectionKeeps, SocketMoves

-----------------------------------------------------------------------------
(* Sessions that open and close *)

\* No client yet: no socket, no token, no manager.
LEMMA FreshClient ==
  ASSUME IInv, NEW c \in Client, userOf[c] = NoUser
  PROVE  /\ manager[c] = "none" /\ carried[c] = NoToken /\ ending[c] = "none"
         /\ \A s \in DOMAIN sockets : sockets[s].client # c
BY DEF IInv, ClientInv, ClientOf, SocketInv

\* A session of u opens with a token of u, or with one that may be another's.
LEMMA SessionOpens ==
  ASSUME IInv, NEW c \in Client, NEW u \in User, NEW other,
         OpenMainWindow(c, u, other), UNCHANGED signaling, TableInv',
         window # "main", \A d \in Client : ending[d] # "scheduled",
         \A t \in 1 .. Len(issued) : t \in 1 .. Len(issued') /\ issued'[t] = issued[t],
         token' \in 1 .. Len(issued'), other \/ issued'[token'] = u,
         unlocked' \in {u, NoUser}
  PROVE  IInv'
<1>1. /\ userOf[c] = NoUser /\ userOf' = [userOf EXCEPT ![c] = u]
      /\ stray' = [stray EXCEPT ![c] = other] /\ session' = c /\ window' = "main"
      /\ u # NoUser
  BY UserAssumption DEF OpenMainWindow, Fresh
<1>2. UNCHANGED <<manager, carried, ending, sockets>>
  BY DEF signaling, clientVars
<1>3. session = NoSession /\ session \notin Client
  BY ClientAssumption DEF IInv, SessionInv, NoSession
<1>4. ASSUME NEW d \in Client
      PROVE  /\ userOf'[d] = IF d = c THEN u ELSE userOf[d]
             /\ stray'[d] = IF d = c THEN other ELSE stray[d]
  BY <1>1 DEF IInv, ClientInv
<1>5. ASSUME NEW d \in Client, d # c, NEW t, Fits(d, t) PROVE Fits(d, t)'
  BY <1>4, <1>5 DEF Fits
<1>6. SocketInv'
  <2>1. ASSUME NEW s \in DOMAIN sockets
        PROVE  /\ sockets[s].client \in Client /\ sockets[s].client # c
               /\ userOf[sockets[s].client] # NoUser
               /\ Fits(sockets[s].client, sockets[s].token)
    <3>1. sockets[s].client \in Client
      BY OwnedByClient DEF IInv, SocketInv
    <3>2. QED BY <1>1, <3>1, FreshClient DEF IInv, SocketInv
  <2>2. ASSUME NEW s \in DOMAIN sockets
        PROVE  /\ userOf'[sockets[s].client] # NoUser
               /\ Fits(sockets[s].client, sockets[s].token)'
    <3>1. PICK d, t : d = sockets[s].client /\ t = sockets[s].token
      OBVIOUS
    <3>2. userOf'[d] # NoUser /\ Fits(d, t)'
      BY <2>1, <3>1, <1>4, <1>5
    <3>3. sockets' = sockets
      BY <1>2
    <3>4. QED BY <3>1, <3>2, <3>3 DEF Fits
  <2>3. QED BY <1>2, <2>2 DEF IInv, SocketInv, Fits
<1>7. ASSUME NEW d \in Client PROVE ClientOf(d)'
  <2>1. ClientOf(d)
    BY DEF IInv, ClientInv
  <2>2. CASE d = c
    BY <1>1, <1>2, <2>2, FreshClient DEF ClientOf, NoToken
  <2>3. CASE d # c
    <3>1. carried[d] # NoToken => Fits(d, carried[d])'
      BY <1>2, <1>5, <2>1, <2>3 DEF ClientOf, Fits
    <3>2. QED BY <1>1, <1>2, <1>3, <1>4, <2>1, <2>3, <3>1 DEF ClientOf, Fits
  <2>4. QED BY <2>2, <2>3
<1>8. ClientInv'
  BY <1>1, <1>2, <1>7 DEF IInv, ClientInv
<1>9. SessionInv'
  <2>1. c # NoSession
    BY ClientAssumption DEF NoSession
  <2>2. userOf'[c] = u /\ stray'[c] = other
    BY <1>4
  <2>3. QED BY <1>1, <2>1, <2>2 DEF SessionInv, Fits
<1>10. QED BY <1>6, <1>8, <1>9 DEF IInv

\* No session is open after the step, and no new client is.
LEMMA NoSessionOpens ==
  ASSUME IInv, UNCHANGED <<signaling, session, userOf, unlocked, stray, task>>, TableInv',
         window # "main", window' = "login", \A d \in Client : ending[d] # "scheduled",
         \A t \in 1 .. Len(issued) : t \in 1 .. Len(issued') /\ issued'[t] = issued[t]
  PROVE  IInv'
<1>1. UNCHANGED <<manager, carried, ending, sockets>>
  BY DEF signaling, clientVars
<1>2. SocketInv'
  BY <1>1 DEF IInv, SocketInv, Fits
<1>3. ClientInv'
  BY <1>1 DEF IInv, ClientInv, ClientOf, Fits
<1>4. SessionInv'
  BY DEF IInv, SessionInv
<1>5. QED BY <1>2, <1>3, <1>4 DEF IInv

LEMMA StepStart ==
  ASSUME IInv, Start PROVE IInv'
<1>1. /\ window = "down" /\ UNCHANGED <<expired, signaling, issued, keyed, unlocked>>
      /\ \A d \in Client : ending[d] = "none"
  BY DEF Start, IInv, ClientInv, ClientOf
<1>2. session = NoSession /\ unlocked = NoUser
  BY <1>1 DEF IInv, SessionInv
<1>3. CASE /\ file # NoToken /\ LoadTokens /\ UNCHANGED <<rows, left>>
           /\ \E c \in Client, u \in User : IsCurrent(u) /\ OpenMainWindow(c, u, left)
  <2>1. PICK c \in Client, u \in User : u \in rows /\ OpenMainWindow(c, u, left)
    BY <1>3 DEF IsCurrent
  <2>2. TableInv'
    BY <1>1, <1>3, <2>1 DEF IInv, TableInv, LoadTokens, OpenMainWindow
  <2>3. file \in 1 .. Len(issued) /\ (left \/ issued[file] = u)
    BY <1>3, <2>1 DEF IInv, TableInv, NoToken
  <2>4. QED BY <1>1, <1>2, <1>3, <2>1, <2>2, <2>3, SessionOpens DEF LoadTokens
<1>4. CASE /\ ForgetUser /\ window' = "login"
           /\ UNCHANGED <<session, userOf, stray, task>>
  <2>1. TableInv'
    BY <1>1, <1>4
       DEF IInv, TableInv, ForgetUser, ClearTokens, SaveTokens, ClearCurrent, NoToken
  <2>2. QED BY <1>1, <1>4, <2>1, NoSessionOpens
<1>5. CASE /\ LoadTokens /\ window' = "login" /\ left' = (rows # {})
           /\ UNCHANGED <<rows, session, userOf, stray, task>>
  <2>1. TableInv'
    BY <1>1, <1>5 DEF IInv, TableInv, LoadTokens
  <2>2. QED BY <1>1, <1>5, <2>1, NoSessionOpens
<1>6. QED BY <1>3, <1>4, <1>5 DEF Start

\* A token that is granted is the last one and its user's.
LEMMA Granted ==
  ASSUME IInv, NEW u \in User, Grant(u)
  PROVE  /\ issued' \in Seq(User) /\ Len(issued') \in 1 .. Len(issued')
         /\ issued'[Len(issued')] = u
         /\ \A t \in 1 .. Len(issued) : t \in 1 .. Len(issued') /\ issued'[t] = issued[t]
BY DEF Grant, IInv, TableInv

LEMMA StepSignIn ==
  ASSUME IInv, NEW u \in User, SignIn(u) PROVE IInv'
<1>1. /\ window = "login" /\ \A d \in Client : ending[d] # "scheduled"
      /\ Grant(u) /\ token' = Len(issued') /\ file' = Len(issued')
      /\ UNCHANGED <<expired, signaling, left>>
  BY DEF SignIn, SaveTokens
<1>2. rows # {} => left
  BY <1>1 DEF IInv, TableInv
<1>3. CASE /\ SaveUser(u) /\ Unlock(u)
           /\ \E c \in Client : OpenMainWindow(c, u, FALSE)
  <2>1. PICK c \in Client : OpenMainWindow(c, u, FALSE)
    BY <1>3
  <2>2. TableInv'
    BY <1>1, <1>2, <1>3, <2>1, Granted DEF IInv, TableInv, SaveUser, OpenMainWindow
  <2>3. QED BY <1>1, <1>3, <2>1, <2>2, Granted, SessionOpens DEF Unlock
<1>4. CASE /\ IsCurrent(u)
           /\ UNCHANGED <<rows, keyed, window, session, userOf, unlocked, task, stray>>
  <2>1. TableInv'
    BY <1>1, <1>2, <1>4, Granted DEF IInv, TableInv, IsCurrent
  <2>2. QED BY <1>1, <1>4, <2>1, Granted, NoSessionOpens
<1>5. QED BY <1>3, <1>4 DEF SignIn

\* The client that is left is about to be stopped, or stray.
LEMMA StepLogout ==
  ASSUME IInv, Logout PROVE IInv'
<1>1. /\ session \in Client /\ userOf[session] # NoUser
      /\ session' = NoSession /\ unlocked' = NoUser /\ task' = "none" /\ window' = "login"
      /\ token' = NoToken /\ file' = NoToken /\ rows' = {} /\ left' = FALSE
      /\ UNCHANGED <<manager, carried, sockets, issued, userOf>>
  BY DEF Logout, CloseSession, ForgetUser, ClearTokens, SaveTokens, ClearCurrent, clientVars,
         IInv, SessionInv
<1>2. \/ ending' = [ending EXCEPT ![session] = "scheduled"] /\ stray' = stray
      \/ stray' = [stray EXCEPT ![session] = TRUE] /\ ending' = ending
  BY DEF Logout, CloseSession
<1>3. /\ ending' \in [Client -> Ending] /\ stray' = [d \in Client |-> stray'[d]]
      /\ \A d \in Client : stray[d] => stray'[d]
      /\ \A d \in Client : d # session => ending'[d] = ending[d]
      /\ ending[session] # "none" \/ stray[session] => ending'[session] # "none" \/ stray'[session]
      /\ stray'[session] \/ ending'[session] # "none"
  <2>1. "scheduled" \in Ending /\ "scheduled" # "none"
    BY DEF Ending
  <2>2. QED BY <1>1, <1>2, <2>1 DEF IInv, ClientInv
<1>4. SocketInv'
  <2>1. ASSUME NEW s \in DOMAIN sockets
        PROVE  /\ userOf[sockets[s].client] # NoUser
               /\ Fits(sockets[s].client, sockets[s].token)'
    <3>1. sockets[s].client \in Client /\ sockets' = sockets
      BY <1>1, OwnedByClient DEF IInv, SocketInv
    <3>2. QED BY <1>1, <1>3, <3>1 DEF IInv, SocketInv, Fits
  <2>2. QED BY <1>1, <2>1 DEF IInv, SocketInv, Fits
<1>5. ASSUME NEW d \in Client PROVE ClientOf(d)'
  <2>1. ClientOf(d)
    BY DEF IInv, ClientInv
  <2>2. carried[d] # NoToken => Fits(d, carried[d])'
    BY <1>1, <1>3, <2>1 DEF ClientOf, Fits
  <2>3. manager[d] \notin {"none", "done"} => stray'[d] \/ ending'[d] # "none"
    BY <1>3, <2>1 DEF ClientOf
  <2>4. userOf[d] = NoUser => ending'[d] = "none"
    BY <1>1, <1>3, <2>1 DEF ClientOf
  <2>5. QED BY <1>1, <2>1, <2>2, <2>3, <2>4 DEF ClientOf, Fits
<1>6. TableInv' /\ SessionInv'
  BY <1>1 DEF IInv, TableInv, SessionInv, NoToken, NoSession
<1>7. QED BY <1>1, <1>3, <1>4, <1>5, <1>6 DEF IInv, ClientInv

LEMMA StepDies ==
  ASSUME IInv, Dies,
         \/ UNCHANGED <<issued, file>>
         \/ \E u \in User : window = "login" /\ Grant(u) /\ file' = Len(issued')
  PROVE  IInv'
<1>1. /\ window' = "down" /\ token' = NoToken
      /\ session' = NoSession /\ unlocked' = NoUser /\ task' = "none"
      /\ manager' = [c \in Client |-> IF manager[c] = "none" THEN "none" ELSE "done"]
      /\ carried' = [c \in Client |-> NoToken] /\ ending' = [c \in Client |-> "none"]
      /\ sockets' = <<>> /\ UNCHANGED <<rows, userOf, left, stray>>
  BY DEF Dies
<1>2. SocketInv'
  BY <1>1 DEF SocketInv
<1>3. ClientInv'
  BY <1>1 DEF IInv, ClientInv, ClientOf, Phase, Ending, NoToken
<1>4. TableInv'
  <2>1. CASE UNCHANGED <<issued, file>>
    BY <1>1, <2>1 DEF IInv, TableInv, NoToken
  <2>2. ASSUME NEW u \in User, window = "login", Grant(u), file' = Len(issued') PROVE TableInv'
    BY <1>1, <2>2, Granted DEF IInv, TableInv, NoToken
  <2>3. QED BY <2>1, <2>2
<1>5. SessionInv'
  BY <1>1 DEF SessionInv
<1>6. QED BY <1>2, <1>3, <1>4, <1>5 DEF IInv

-----------------------------------------------------------------------------
(* Every step *)

LEMMA StepTask ==
  ASSUME IInv, ConnectWakes \/ ConnectFails \/ GoesOnline \/ Expire PROVE IInv'
<1>1. /\ UNCHANGED Outside
      /\ task' = "soon" => task = "soon"
      /\ UNCHANGED <<manager, carried, ending, sockets>>
  BY DEF ConnectWakes, ConnectFails, GoesOnline, Expire, TaskMoves, Outside, signaling,
         clientVars, sessionVars
<1>2. Same(sockets, sockets')
  BY <1>1, SameSelf DEF IInv, SocketInv
<1>3. QED BY <1>1, <1>2, SocketMoves

LEMMA NextInv == IInv /\ [Next]_vars => IInv'
<1> SUFFICES ASSUME IInv, [Next]_vars PROVE IInv'
  OBVIOUS
<1>1. CASE Start \/ Logout \/ Exit
  BY <1>1, StepStart, StepLogout, StepDies DEF Exit
<1>2. ASSUME NEW u \in User, SignIn(u) \/ ExitDuringSignIn(u) PROVE IInv'
  BY <1>2, StepSignIn, StepDies DEF ExitDuringSignIn
<1>3. CASE StartSession
  BY <1>3, StepConnect
<1>4. CASE ConnectWakes \/ ConnectFails \/ GoesOnline \/ Expire
  BY <1>4, StepTask
<1>5. CASE UNCHANGED <<token, expired, sessionVars>> /\ (Network \/ \E c \in Client : Manager(c))
  <2>1. UNCHANGED Outside /\ task' = task
    BY <1>5 DEF Outside, sessionVars
  <2>2. QED BY <1>5, <2>1, StepManager, StepReceive, StepConnection, StepBeginDisconnect,
              StepEndDisconnect DEF Network
<1>6. CASE UNCHANGED vars
  <2>1. UNCHANGED Outside /\ task' = task /\ UNCHANGED <<manager, carried, ending, sockets>>
    BY <1>6 DEF vars, Outside, sessionVars, signaling, clientVars
  <2>2. Same(sockets, sockets')
    BY <2>1, SameSelf DEF IInv, SocketInv
  <2>3. QED BY <2>1, <2>2, SocketMoves
<1>7. QED BY <1>1, <1>2, <1>3, <1>4, <1>5, <1>6 DEF Next

\* One identity (AppController over AuthManager and SignalingClient): a client
\* that its session did not abandon only ever opens sockets with tokens of that
\* session's user, and only that user's key is unlocked.
THEOREM OneIdentityHolds == Spec => []OneIdentity
<1>1. IInv => OneIdentity
  BY DEF IInv, SocketInv, SessionInv, Fits, OneIdentity
<1>2. QED BY <1>1, InitInv, NextInv, PTL DEF Spec

-----------------------------------------------------------------------------
(* Types *)

\* What TypeOK says beyond the invariant above: of the clients, and of the rest.
ClientsTyped ==
  /\ attempt \in [Client -> 0 .. MaxAttempts]
  /\ latest \in [Client -> 0 .. Len(sockets)]
  /\ connected \in [Client -> BOOLEAN] /\ authenticated \in [Client -> BOOLEAN]
  /\ authError \in [Client -> BOOLEAN]
  /\ Len(sockets) <= MaxSockets /\ errors \in 0 .. MaxErrors
  /\ \A c \in Client : manager[c] \in {"auth", "up"} => latest[c] # NoSocket

OthersTyped ==
  /\ expired \subseteq Nat /\ Len(issued) <= MaxTokens
  /\ keyed \subseteq User /\ unlocked \in User \cup {NoUser}
  /\ window \in {"login", "main", "down"} /\ task \in Task
  /\ left \in BOOLEAN /\ stray \in [Client -> BOOLEAN]

TypeInv == IInv /\ ClientsTyped /\ OthersTyped

LEMMA TypeInvType == TypeInv => TypeOK
<1> SUFFICES ASSUME TypeInv PROVE TypeOK
  OBVIOUS
<1>1. sockets \in Seq(Socket) /\ issued \in Seq(User) /\ token \in 0 .. Len(issued)
      /\ file \in 0 .. Len(issued) /\ rows \subseteq User
  BY DEF TypeInv, IInv, SocketInv, TableInv
<1>2. /\ manager \in [Client -> Phase] /\ carried \in [Client -> Nat]
      /\ ending \in [Client -> Ending] /\ userOf \in [Client -> User \cup {NoUser}]
  BY DEF TypeInv, IInv, ClientInv
<1>3. token \in Nat
  BY <1>1
<1>4. SignalingTypeOK
  BY <1>1, <1>2, <1>3 DEF TypeInv, ClientsTyped, OthersTyped, SignalingTypeOK
<1>5. QED BY <1>1, <1>2, <1>4 DEF TypeInv, OthersTyped, IInv, SessionInv, TypeOK

LEMMA InitTyped == Init => TypeInv
<1> SUFFICES ASSUME Init PROVE TypeInv
  OBVIOUS
<1>1. ClientsTyped
  <2>1. /\ attempt = [c \in Client |-> 0] /\ latest = [c \in Client |-> 0]
        /\ connected = [c \in Client |-> FALSE] /\ authenticated = [c \in Client |-> FALSE]
        /\ authError = [c \in Client |-> FALSE]
        /\ sockets = <<>> /\ errors = 0 /\ manager = [c \in Client |-> "none"]
    BY DEF Init, SignalingInit, NoSocket
  <2>2. connected \in [Client -> BOOLEAN] /\ authenticated \in [Client -> BOOLEAN]
        /\ authError \in [Client -> BOOLEAN]
    BY <2>1
  <2>3. /\ attempt \in [Client -> 0 .. MaxAttempts] /\ latest \in [Client -> 0 .. Len(sockets)]
        /\ Len(sockets) <= MaxSockets /\ errors \in 0 .. MaxErrors
    BY <2>1, MaxAttemptsAssumption, MaxSocketsAssumption, MaxErrorsAssumption
  <2>4. QED BY <2>1, <2>2, <2>3 DEF ClientsTyped
<1>2. OthersTyped
  <2>1. stray \in [Client -> BOOLEAN]
    BY DEF Init
  <2>2. /\ expired = {} /\ issued = <<>> /\ keyed = {} /\ unlocked = NoUser /\ window = "down"
        /\ task = "none" /\ left = FALSE
    BY DEF Init, SignalingInit
  <2>3. task \in Task /\ Len(issued) <= MaxTokens
    BY <2>2, MaxTokensAssumption DEF Task
  <2>4. QED BY <2>1, <2>2, <2>3 DEF OthersTyped
<1>3. QED BY <1>1, <1>2, InitInv DEF TypeInv

\* A step of one client that keeps its sockets.
LEMMA ClientsKept ==
  ASSUME TypeInv, NEW c \in Client, Same(sockets, sockets'),
         NEW p, manager' = [manager EXCEPT ![c] = p],
         p \in {"auth", "up"} => manager[c] \in {"auth", "up"},
         NEW n \in 0 .. MaxAttempts, attempt' = [attempt EXCEPT ![c] = n],
         NEW b \in BOOLEAN, connected' = [connected EXCEPT ![c] = b],
         NEW a \in BOOLEAN, authenticated' = [authenticated EXCEPT ![c] = a],
         NEW e \in BOOLEAN, authError' = [authError EXCEPT ![c] = e],
         latest' = latest, errors' \in 0 .. MaxErrors
  PROVE  ClientsTyped'
<1>1. Len(sockets') = Len(sockets)
  BY DEF TypeInv, IInv, SocketInv, Same
<1>2. \A d \in Client : manager'[d] = IF d = c THEN p ELSE manager[d]
  BY DEF TypeInv, IInv, ClientInv
<1>3. \A d \in Client : manager'[d] \in {"auth", "up"} => latest[d] # NoSocket
  BY <1>2 DEF TypeInv, ClientsTyped
<1>4. QED BY <1>1, <1>3 DEF TypeInv, ClientsTyped

\* The values of client c.
LEMMA OfClient ==
  ASSUME TypeInv, NEW c \in Client
  PROVE  /\ manager = [manager EXCEPT ![c] = manager[c]]
         /\ attempt = [attempt EXCEPT ![c] = attempt[c]] /\ attempt[c] \in 0 .. MaxAttempts
         /\ connected = [connected EXCEPT ![c] = connected[c]] /\ connected[c] \in BOOLEAN
         /\ authenticated = [authenticated EXCEPT ![c] = authenticated[c]]
         /\ authenticated[c] \in BOOLEAN
         /\ authError = [authError EXCEPT ![c] = authError[c]] /\ authError[c] \in BOOLEAN
         /\ errors \in 0 .. MaxErrors /\ 0 \in 0 .. MaxAttempts
         /\ sockets \in Seq(Socket) /\ Same(sockets, sockets)
         /\ latest[c] \in 0 .. Len(sockets)
BY MaxAttemptsAssumption, SameSelf
   DEF TypeInv, IInv, SocketInv, ClientInv, ClientsTyped

\* What a released attempt changes.
LEMMA Released ==
  ASSUME TypeInv, NEW c \in Client, Retry(c) \/ Stop(c)
  PROVE  /\ \E p \in {"due", "done"}, n \in 0 .. MaxAttempts :
              /\ manager' = [manager EXCEPT ![c] = p] /\ attempt' = [attempt EXCEPT ![c] = n]
              /\ p = "due" => Retry(c)
         /\ connected' = [connected EXCEPT ![c] = FALSE]
         /\ authenticated' = [authenticated EXCEPT ![c] = FALSE]
         /\ sockets' = ClosedSockets(Held(c)) /\ Same(sockets, sockets')
         /\ latest' = latest /\ authError' = authError
<1>1. /\ connected' = [connected EXCEPT ![c] = FALSE]
      /\ authenticated' = [authenticated EXCEPT ![c] = FALSE]
      /\ sockets' = ClosedSockets(Held(c)) /\ latest' = latest /\ authError' = authError
  BY DEF Retry, Stop, Release
<1>2. Same(sockets, sockets')
  BY <1>1, OfClient, SameClosed
<1>3. CASE Ends(c)
  BY <1>1, <1>2, <1>3, OfClient DEF Ends
<1>4. CASE /\ Retry(c) /\ attempt[c] < MaxAttempts
           /\ manager' = [manager EXCEPT ![c] = "due"]
           /\ attempt' = [attempt EXCEPT ![c] = @ + 1]
  <2>1. PICK n : n = attempt[c] + 1
    OBVIOUS
  <2>2. n \in 0 .. MaxAttempts
    BY <1>4, <2>1, OfClient, MaxAttemptsAssumption
  <2>3. attempt' = [attempt EXCEPT ![c] = n]
    BY <1>4, <2>1
  <2>4. QED BY <1>1, <1>2, <1>4, <2>2, <2>3
<1>5. QED BY <1>3, <1>4 DEF Retry, Stop, BackOff

LEMMA ReleasedTyped ==
  ASSUME TypeInv, NEW c \in Client, Retry(c) \/ Stop(c), errors' = errors
  PROVE  ClientsTyped'
<1>1. PICK p \in {"due", "done"}, n \in 0 .. MaxAttempts :
        /\ manager' = [manager EXCEPT ![c] = p] /\ attempt' = [attempt EXCEPT ![c] = n]
  BY Released
<1>2. p \notin {"auth", "up"}
  OBVIOUS
<1>3. authError' = [authError EXCEPT ![c] = authError[c]] /\ authError[c] \in BOOLEAN
  BY Released, OfClient
<1>4. QED BY <1>1, <1>2, <1>3, Released, OfClient, ClientsKept

\* One more socket, the last one, becomes the client's.
LEMMA OpenedTyped == ASSUME TypeInv, NEW c \in Client, Opened(c) PROVE ClientsTyped'
<1>1. /\ latest' = [latest EXCEPT ![c] = Len(sockets) + 1] /\ Len(sockets) < MaxSockets
      /\ UNCHANGED <<attempt, connected, authenticated, authError, errors>>
      /\ manager' = [manager EXCEPT ![c] = "auth"]
  BY DEF Opened
<1>2. sockets \in Seq(Socket) /\ Len(sockets') = Len(sockets) + 1
  BY OfClient DEF Opened
<1>3. latest' \in [Client -> 0 .. Len(sockets')] /\ Len(sockets') <= MaxSockets
  BY <1>1, <1>2, MaxSocketsAssumption DEF TypeInv, ClientsTyped
<1>4. \A d \in Client : manager'[d] \in {"auth", "up"} => latest'[d] # NoSocket
  BY <1>1, <1>2 DEF TypeInv, ClientsTyped, IInv, ClientInv, NoSocket
<1>5. QED BY <1>1, <1>3, <1>4 DEF TypeInv, ClientsTyped

LEMMA ManagerTyped == ASSUME TypeInv, NEW c \in Client, Manager(c) PROVE ClientsTyped'
<1>1. CASE (Retry(c) \/ Stop(c)) /\ errors' = errors
  BY <1>1, ReleasedTyped
<1>2. CASE Opened(c)
  BY <1>2, OpenedTyped
<1>3. CASE Wake(c)
  <2>1. /\ errors' = errors
        /\ \/ Retry(c) \/ Stop(c)
           \/ /\ manager' = [manager EXCEPT ![c] = "opening"]
              /\ UNCHANGED <<attempt, latest, connected, authenticated, authError, sockets>>
    BY <1>3 DEF Wake
  <2>2. CASE /\ manager' = [manager EXCEPT ![c] = "opening"]
             /\ UNCHANGED <<attempt, latest, connected, authenticated, authError, sockets>>
    BY <2>1, <2>2, OfClient, ClientsKept
  <2>3. QED BY <1>1, <2>1, <2>2
<1>4. CASE AuthAccepted(c)
  <2>1. /\ manager' = [manager EXCEPT ![c] = "up"] /\ attempt' = [attempt EXCEPT ![c] = 0]
        /\ connected' = [connected EXCEPT ![c] = TRUE] /\ manager[c] = "auth"
        /\ UNCHANGED <<latest, authenticated, authError, sockets, errors>>
    BY <1>4 DEF AuthAccepted
  <2>2. QED BY <2>1, OfClient, ClientsKept
<1>5. CASE OpenFails(c) \/ OpenedInVain(c) \/ AuthTimeout(c) \/ AuthRefused(c) \/ Lost(c)
  BY <1>1, <1>5 DEF OpenFails, OpenedInVain, AuthTimeout, AuthRefused, Lost
<1>6. QED BY <1>2, <1>3, <1>4, <1>5 DEF Manager

LEMMA ConnectTyped == ASSUME TypeInv, StartSession PROVE ClientsTyped'
<1>1. /\ session \in Client /\ manager' = [manager EXCEPT ![session] = "due"]
      /\ UNCHANGED <<attempt, latest, connected, authenticated, authError, sockets, errors>>
  BY DEF TypeInv, IInv, SessionInv, StartSession, Connect
<1>2. QED BY <1>1, OfClient, ClientsKept

\* Disconnecting a client and reading for it leave its manager, or end it.
LEMMA DisconnectTyped ==
  ASSUME TypeInv, NEW c \in Client, BeginDisconnect(c) \/ EndDisconnect(c), Same(sockets, sockets')
  PROVE  ClientsTyped'
<1>1. CASE BeginDisconnect(c)
  <2>1. /\ manager' = manager /\ attempt' = attempt /\ latest' = latest /\ errors' = errors
        /\ connected' = [connected EXCEPT ![c] = FALSE]
        /\ authenticated' = [authenticated EXCEPT ![c] = FALSE]
        /\ authError' = [authError EXCEPT ![c] = FALSE]
    BY <1>1 DEF BeginDisconnect
  <2>2. QED BY <2>1, OfClient, ClientsKept
<1>2. CASE EndDisconnect(c)
  <2>1. /\ manager' = [manager EXCEPT ![c] = "done"] /\ attempt' = [attempt EXCEPT ![c] = 0]
        /\ connected' = [connected EXCEPT ![c] = FALSE]
        /\ authenticated' = [authenticated EXCEPT ![c] = FALSE]
        /\ UNCHANGED <<latest, authError, errors>>
    BY <1>2 DEF EndDisconnect, Ends
  <2>2. QED BY <2>1, OfClient, ClientsKept
<1>3. QED BY <1>1, <1>2

LEMMA ReceiveTyped ==
  ASSUME TypeInv, NEW s \in DOMAIN sockets, Receive(s), Same(sockets, sockets')
  PROVE  ClientsTyped'
<1>1. PICK c \in Client : c = sockets[s].client
  BY OwnedByClient, OfClient DEF TypeInv, IInv, SocketInv
<1>2. UNCHANGED <<manager, attempt, latest, connected, errors>>
  BY DEF Receive
<1>3. PICK a \in BOOLEAN, e \in BOOLEAN :
        /\ authenticated' = [authenticated EXCEPT ![c] = a]
        /\ authError' = [authError EXCEPT ![c] = e]
  BY <1>1, OfClient DEF Receive
<1>4. QED BY <1>2, <1>3, OfClient, ClientsKept

LEMMA ConnectionTyped ==
  ASSUME TypeInv, NEW s \in DOMAIN sockets, Connection(s), Same(sockets, sockets')
  PROVE  ClientsTyped'
<1>1. UNCHANGED <<manager, attempt, latest, connected, authenticated, authError>>
  BY DEF Connection, Accept, Refuse, RequestFails, Drop, clientVars
<1>2. errors' \in 0 .. MaxErrors
  BY MaxErrorsAssumption
     DEF Connection, Accept, Refuse, RequestFails, Drop, TypeInv, ClientsTyped
<1>3. Len(sockets') = Len(sockets)
  BY OfClient DEF Same, TypeInv, IInv, SocketInv
<1>4. QED BY <1>1, <1>2, <1>3 DEF TypeInv, ClientsTyped

\* The program goes down.
LEMMA DiesTyped == ASSUME TypeInv, Dies PROVE ClientsTyped'
<1>1. /\ manager' = [c \in Client |-> IF manager[c] = "none" THEN "none" ELSE "done"]
      /\ attempt' = [c \in Client |-> 0] /\ latest' = [c \in Client |-> 0]
      /\ connected' = [c \in Client |-> FALSE] /\ authenticated' = [c \in Client |-> FALSE]
      /\ authError' = [c \in Client |-> FALSE] /\ sockets' = <<>> /\ errors' = errors
  BY DEF Dies, NoSocket
<1>2. /\ connected' \in [Client -> BOOLEAN] /\ authenticated' \in [Client -> BOOLEAN]
      /\ authError' \in [Client -> BOOLEAN]
  BY <1>1
<1>3. /\ attempt' \in [Client -> 0 .. MaxAttempts] /\ latest' \in [Client -> 0 .. Len(sockets')]
      /\ Len(sockets') <= MaxSockets /\ errors' \in 0 .. MaxErrors
  BY <1>1, MaxAttemptsAssumption, MaxSocketsAssumption DEF TypeInv, ClientsTyped
<1>4. \A c \in Client : manager'[c] \notin {"auth", "up"}
  BY <1>1
<1>5. QED BY <1>2, <1>3, <1>4 DEF ClientsTyped

LEMMA SignalingUnchanged == ASSUME TypeInv, UNCHANGED signaling PROVE ClientsTyped'
BY DEF TypeInv, ClientsTyped, signaling, clientVars

\* What the session's own steps change.
LEMMA OpensTyped ==
  ASSUME TypeInv, NEW c \in Client, NEW u \in User, NEW other \in BOOLEAN,
         OpenMainWindow(c, u, other)
  PROVE  window' = "main" /\ task' \in Task /\ stray' \in [Client -> BOOLEAN]
<1>1. "soon" \in Task
  BY DEF Task
<1>2. QED BY <1>1 DEF TypeInv, OthersTyped, OpenMainWindow

LEMMA GrantTyped ==
  ASSUME TypeInv, NEW u \in User, Grant(u) PROVE Len(issued') <= MaxTokens
BY MaxTokensAssumption DEF TypeInv, IInv, TableInv, Grant

LEMMA SessionTyped ==
  ASSUME TypeInv,
         \/ Start \/ Logout \/ Exit \/ StartSession
         \/ ConnectWakes \/ ConnectFails \/ GoesOnline \/ Expire
         \/ \E u \in User : SignIn(u) \/ ExitDuringSignIn(u)
  PROVE  OthersTyped'
<1>1. CASE Start
  <2>1. UNCHANGED <<expired, issued, keyed, unlocked>>
    BY <1>1 DEF Start
  <2>2. CASE \E c \in Client, u \in User : OpenMainWindow(c, u, left) /\ left' = left
    <3>1. PICK c \in Client, u \in User : OpenMainWindow(c, u, left)
      BY <2>2
    <3>2. left \in BOOLEAN
      BY DEF TypeInv, OthersTyped
    <3>3. window' = "main" /\ task' \in Task /\ stray' \in [Client -> BOOLEAN]
      BY <3>1, <3>2, OpensTyped
    <3>4. QED BY <2>1, <2>2, <3>2, <3>3 DEF TypeInv, OthersTyped
  <2>3. CASE UNCHANGED <<session, userOf, stray, task>> /\ window' = "login" /\ left' \in BOOLEAN
    BY <2>1, <2>3 DEF TypeInv, OthersTyped
  <2>4. QED BY <1>1, <2>2, <2>3 DEF Start, ForgetUser, ClearCurrent
<1>2. CASE Logout
  <2>1. /\ UNCHANGED <<expired, issued, keyed>> /\ unlocked' = NoUser
        /\ task' = "none" /\ window' = "login" /\ left' = FALSE
        /\ \/ stray' = stray
           \/ stray' = [stray EXCEPT ![session] = TRUE]
    BY <1>2 DEF Logout, CloseSession, ForgetUser, ClearCurrent
  <2>2. stray' \in [Client -> BOOLEAN]
    BY <2>1 DEF TypeInv, OthersTyped
  <2>3. "none" \in Task
    BY DEF Task
  <2>4. QED BY <2>1, <2>2, <2>3 DEF TypeInv, OthersTyped
<1>3. CASE Exit \/ \E u \in User : ExitDuringSignIn(u)
  <2>1. /\ UNCHANGED <<expired, keyed, left, stray>> /\ unlocked' = NoUser
        /\ task' = "none" /\ window' = "down"
    BY <1>3 DEF Exit, ExitDuringSignIn, Dies
  <2>2. Len(issued') <= MaxTokens
    BY <1>3, GrantTyped DEF Exit, ExitDuringSignIn, TypeInv, OthersTyped
  <2>3. "none" \in Task
    BY DEF Task
  <2>4. QED BY <2>1, <2>2, <2>3 DEF TypeInv, OthersTyped
<1>4. CASE StartSession \/ ConnectWakes \/ ConnectFails \/ GoesOnline
  <2>1. /\ UNCHANGED <<expired, issued, keyed, unlocked, window, left, stray>>
        /\ task' \in {"connect", "woken", "ready", "failed"}
    BY <1>4 DEF StartSession, ConnectWakes, ConnectFails, GoesOnline, TaskMoves
  <2>2. task' \in Task
    BY <2>1 DEF Task
  <2>3. QED BY <2>1, <2>2 DEF TypeInv, OthersTyped
<1>5. CASE Expire
  <2>1. file \in Nat
    BY DEF TypeInv, IInv, TableInv
  <2>2. QED BY <1>5, <2>1 DEF Expire, sessionVars, TypeInv, OthersTyped
<1>6. ASSUME NEW u \in User, SignIn(u) PROVE OthersTyped'
  <2>1. UNCHANGED <<expired, left>> /\ Grant(u)
    BY <1>6 DEF SignIn
  <2>2. CASE /\ keyed' = keyed \cup {u} /\ unlocked' = u
             /\ \E c \in Client : OpenMainWindow(c, u, FALSE)
    <3>1. window' = "main" /\ task' \in Task /\ stray' \in [Client -> BOOLEAN]
      BY <2>2, OpensTyped
    <3>2. QED BY <2>1, <2>2, <3>1, GrantTyped DEF TypeInv, OthersTyped
  <2>3. CASE UNCHANGED <<rows, keyed, window, session, userOf, unlocked, task, stray>>
    BY <2>1, <2>3, GrantTyped DEF TypeInv, OthersTyped
  <2>4. QED BY <1>6, <2>2, <2>3 DEF SignIn, Unlock
<1>7. QED BY <1>1, <1>2, <1>3, <1>4, <1>5, <1>6

LEMMA NetworkTyped == ASSUME TypeInv, Network PROVE ClientsTyped'
<1>1. IInv
  BY DEF TypeInv
<1>2. ASSUME NEW s \in DOMAIN sockets, Connection(s) \/ Receive(s) PROVE ClientsTyped'
  BY <1>1, <1>2, ConnectionKeeps, ReceiveKeeps, ConnectionTyped, ReceiveTyped
<1>3. ASSUME NEW c \in Client, BeginDisconnect(c) PROVE ClientsTyped'
  <2>1. Same(sockets, sockets')
    BY <1>3, OfClient, SameClosed DEF BeginDisconnect
  <2>2. QED BY <1>3, <2>1, DisconnectTyped
<1>4. ASSUME NEW c \in Client, EndDisconnect(c) PROVE ClientsTyped'
  BY <1>1, <1>4, EndDisconnectKeeps, DisconnectTyped
<1>5. QED BY <1>2, <1>3, <1>4 DEF Network

LEMMA NextTyped == TypeInv /\ [Next]_vars => TypeInv'
<1> SUFFICES ASSUME TypeInv, [Next]_vars PROVE TypeInv'
  OBVIOUS
<1>1. IInv'
  BY NextInv DEF TypeInv
<1>2. CASE Start \/ ConnectWakes \/ ConnectFails \/ GoesOnline \/ Expire
           \/ \E u \in User : SignIn(u)
  <2>1. UNCHANGED signaling
    BY <1>2 DEF Start, ConnectWakes, ConnectFails, GoesOnline, Expire, SignIn
  <2>2. QED BY <1>1, <1>2, <2>1, SignalingUnchanged, SessionTyped DEF TypeInv
<1>3. CASE StartSession
  BY <1>1, <1>3, ConnectTyped, SessionTyped DEF TypeInv
<1>4. CASE Logout
  <2>1. UNCHANGED <<manager, attempt, latest, connected, authenticated, authError, sockets, errors>>
    BY <1>4 DEF Logout, clientVars
  <2>2. ClientsTyped'
    BY <2>1 DEF TypeInv, ClientsTyped
  <2>3. QED BY <1>1, <1>4, <2>2, SessionTyped DEF TypeInv
<1>5. CASE Exit \/ \E u \in User : ExitDuringSignIn(u)
  <2>1. Dies
    BY <1>5 DEF Exit, ExitDuringSignIn
  <2>2. QED BY <1>1, <1>5, <2>1, DiesTyped, SessionTyped DEF TypeInv
<1>6. CASE (Network \/ \E c \in Client : Manager(c)) /\ UNCHANGED <<token, expired, sessionVars>>
  <2>1. OthersTyped'
    BY <1>6 DEF TypeInv, OthersTyped, sessionVars
  <2>2. ClientsTyped'
    BY <1>6, ManagerTyped, NetworkTyped
  <2>3. QED BY <1>1, <2>1, <2>2 DEF TypeInv
<1>7. CASE UNCHANGED vars
  <2>1. UNCHANGED signaling /\ UNCHANGED <<expired, sessionVars>>
    BY <1>7 DEF vars
  <2>2. OthersTyped'
    BY <2>1 DEF TypeInv, OthersTyped, sessionVars
  <2>3. QED BY <1>1, <2>1, <2>2, SignalingUnchanged DEF TypeInv
<1>8. QED BY <1>2, <1>3, <1>4, <1>5, <1>6, <1>7 DEF Next

\* Types: the manager waits for an answer, or is up, only on a socket that was
\* opened; the window and the session agree.
THEOREM TypeCorrect == Spec => []TypeOK
BY InitTyped, NextTyped, TypeInvType, PTL DEF Spec

-----------------------------------------------------------------------------
(* What a client believes of its socket, and what the server did *)

\* The newest socket of c was accepted, and its receiver has read the answer.
Answered(c) ==
  /\ sockets[latest[c]].stage = "accepted"
  /\ \A i \in DOMAIN sockets[latest[c]].inbox : sockets[latest[c]].inbox[i] # "auth_ok"

\* Only the newest socket of a client may still be asking, or have an auth_ok that
\* is unread; and the auth_ok is the first thing a socket says.
SocketBook(s) ==
  LET k == sockets[s] IN
  /\ s <= latest[k.client]
  /\ k.stage = "asked" => k.inbox = <<>> /\ s = latest[k.client]
  /\ \A i \in DOMAIN k.inbox :
       k.inbox[i] = "auth_ok" => i = 1 /\ k.stage = "accepted" /\ s = latest[k.client]

\* Between two sockets only a refusal that was read late counts as an answer.
ClientBook(c) ==
  /\ latest[c] # NoSocket => sockets[latest[c]].client = c
  /\ manager[c] = "none" => latest[c] = NoSocket /\ ~authenticated[c]
  /\ manager[c] \in {"due", "opening"} =>
       /\ latest[c] # NoSocket => Answered(c)
       /\ authenticated[c] => authError[c]
  /\ manager[c] = "auth" /\ authenticated[c] /\ ~authError[c] => Answered(c)
  /\ manager[c] = "up" => Answered(c)
  /\ connected[c] => manager[c] = "up"

\* Some socket of the session was accepted.
Came == \E s \in DOMAIN sockets : sockets[s].client = session /\ sockets[s].stage = "accepted"

ClientBooks == (\A s \in DOMAIN sockets : SocketBook(s)) /\ (\A c \in Client : ClientBook(c))

Books ==
  /\ TypeInv /\ ClientBooks
  /\ task # "none" => session # NoSession
  /\ task \in {"woken", "ready"} => Came

LEMMA BooksAuthenticate == Books => AuthenticatedIsAccepted
<1> SUFFICES ASSUME Books PROVE AuthenticatedIsAccepted
  OBVIOUS
<1>1. ASSUME NEW c \in Client, MayBeAuthenticated(c), ~authError[c]
      PROVE  sockets[WebSocket(c)].stage = "accepted"
  <2>1. authenticated[c] /\ manager[c] \in {"auth", "up"} /\ WebSocket(c) = latest[c]
    BY <1>1 DEF MayBeAuthenticated, MayBeConnected, WebSocket, Held
  <2>2. ClientBook(c)
    BY DEF Books, ClientBooks
  <2>3. QED BY <1>1, <2>1, <2>2 DEF ClientBook, Answered
<1>2. QED BY <1>1 DEF Books, Came, AuthenticatedIsAccepted

LEMMA InitBooks == Init => Books
<1> SUFFICES ASSUME Init PROVE Books
  OBVIOUS
<1>1. /\ sockets = <<>> /\ manager = [c \in Client |-> "none"] /\ task = "none"
      /\ latest = [c \in Client |-> 0] /\ authenticated = [c \in Client |-> FALSE]
      /\ connected = [c \in Client |-> FALSE]
  BY DEF Init, SignalingInit, NoSocket
<1>2. \A c \in Client : ClientBook(c)
  BY <1>1 DEF ClientBook, NoSocket
<1>3. QED BY <1>1, <1>2, InitTyped DEF Books, ClientBooks

\* A step of client c touches nobody else's books.
LEMMA OneClientMoves ==
  ASSUME TypeInv, ClientBooks, NEW c \in Client,
         sockets' \in Seq(Socket), Len(sockets) <= Len(sockets'),
         \A d \in Client \ {c} :
           /\ manager'[d] = manager[d] /\ latest'[d] = latest[d]
           /\ connected'[d] = connected[d] /\ authenticated'[d] = authenticated[d]
           /\ authError'[d] = authError[d],
         \A s \in DOMAIN sockets' :
           sockets'[s].client # c => s \in DOMAIN sockets /\ sockets'[s] = sockets[s],
         \A s \in DOMAIN sockets : sockets'[s].client = sockets[s].client,
         \A s \in DOMAIN sockets' : sockets'[s].client = c => SocketBook(s)',
         ClientBook(c)'
  PROVE  ClientBooks'
<1>1. ASSUME NEW s \in DOMAIN sockets', sockets'[s].client # c PROVE SocketBook(s)'
  <2>1. s \in DOMAIN sockets /\ sockets'[s] = sockets[s]
    BY <1>1
  <2>2. sockets[s].client \in Client \ {c}
    BY <1>1, <2>1, OwnedByClient, OfClient
  <2>3. latest'[sockets[s].client] = latest[sockets[s].client]
    BY <2>2
  <2>4. QED BY <2>1, <2>3 DEF SocketBook, ClientBooks
<1>2. ASSUME NEW d \in Client, d # c PROVE ClientBook(d)'
  <2>1. ClientBook(d)
    BY DEF ClientBooks
  <2>2. /\ manager'[d] = manager[d] /\ latest'[d] = latest[d]
        /\ connected'[d] = connected[d] /\ authenticated'[d] = authenticated[d]
        /\ authError'[d] = authError[d]
    BY <1>2
  <2>3. latest[d] # NoSocket => sockets'[latest[d]] = sockets[latest[d]]
    <3>1. latest[d] # NoSocket => latest[d] \in DOMAIN sockets /\ latest[d] \in DOMAIN sockets'
      BY OfClient DEF NoSocket
    <3>2. QED BY <1>2, <2>1, <3>1 DEF ClientBook
  <2>4. manager[d] = "up" => latest[d] # NoSocket
    BY DEF TypeInv, ClientsTyped
  <2>5. manager[d] = "auth" => latest[d] # NoSocket
    BY DEF TypeInv, ClientsTyped
  <2>6. latest[d] # NoSocket /\ Answered(d) => Answered(d)'
    BY <2>2, <2>3 DEF Answered
  <2>7. QED BY <2>1, <2>2, <2>3, <2>4, <2>5, <2>6 DEF ClientBook
<1>3. QED BY <1>1, <1>2 DEF ClientBooks

\* A step of client c that changes, of the sockets, only whether they are open.
OnlyOpen ==
  /\ Same(sockets, sockets')
  /\ \A s \in DOMAIN sockets : /\ sockets'[s].stage = sockets[s].stage
                               /\ sockets'[s].inbox = sockets[s].inbox

LEMMA ClosedOnlyOpen ==
  ASSUME TypeInv, NEW l, sockets' = ClosedSockets(l) PROVE OnlyOpen
<1>1. sockets \in Seq(Socket) /\ Same(sockets, sockets')
  BY SameClosed DEF TypeInv, IInv, SocketInv
<1>2. ASSUME NEW s \in DOMAIN sockets
      PROVE  sockets'[s].stage = sockets[s].stage /\ sockets'[s].inbox = sockets[s].inbox
  <2>1. sockets[s] \in Socket
    BY <1>1
  <2>2. sockets'[s] \in {sockets[s], [sockets[s] EXCEPT !.open = FALSE]}
    BY <1>1 DEF ClosedSockets
  <2>3. QED BY <2>1, <2>2 DEF Socket
<1>3. QED BY <1>1, <1>2 DEF OnlyOpen

\* What happens to one client's books when no stage and no inbox changes.
LEMMA QuietMoves ==
  ASSUME TypeInv, ClientBooks, NEW c \in Client, OnlyOpen, latest' = latest,
         NEW p, manager' = [manager EXCEPT ![c] = p],
         NEW b \in BOOLEAN, connected' = [connected EXCEPT ![c] = b],
         NEW a \in BOOLEAN, authenticated' = [authenticated EXCEPT ![c] = a],
         NEW e \in BOOLEAN, authError' = [authError EXCEPT ![c] = e],
         p = "none" => latest[c] = NoSocket /\ ~a,
         p \in {"due", "opening"} => (latest[c] # NoSocket => Answered(c)) /\ (a => e),
         p = "auth" /\ a /\ ~e => Answered(c),
         p = "up" => Answered(c), b => p = "up",
         p \in {"auth", "up"} => latest[c] # NoSocket
  PROVE  ClientBooks'
<1>1. /\ manager'[c] = p /\ connected'[c] = b /\ authenticated'[c] = a /\ authError'[c] = e
      /\ \A d \in Client \ {c} :
           /\ manager'[d] = manager[d] /\ latest'[d] = latest[d]
           /\ connected'[d] = connected[d] /\ authenticated'[d] = authenticated[d]
           /\ authError'[d] = authError[d]
  BY DEF TypeInv, IInv, ClientInv, ClientsTyped
<1>2. ASSUME NEW s \in DOMAIN sockets PROVE SocketBook(s)'
  BY DEF OnlyOpen, Same, SocketBook, ClientBooks
<1>3. ASSUME NEW d \in Client, latest[d] # NoSocket PROVE Answered(d) => Answered(d)'
  <2>1. latest[d] \in DOMAIN sockets
    BY <1>3, OfClient DEF NoSocket
  <2>2. QED BY <2>1 DEF OnlyOpen, Answered
<1>4. ASSUME NEW d \in Client PROVE ClientBook(d)'
  <2>1. ClientBook(d)
    BY DEF ClientBooks
  <2>2. latest[d] # NoSocket => sockets'[latest[d]].client = d
    <3>1. latest[d] # NoSocket => latest[d] \in DOMAIN sockets
      BY OfClient DEF NoSocket
    <3>2. QED BY <2>1, <3>1 DEF OnlyOpen, Same, ClientBook
  <2>3. CASE d = c
    BY <1>1, <1>3, <2>1, <2>2, <2>3 DEF ClientBook
  <2>4. CASE d # c
    <3>1. manager[d] \in {"auth", "up"} => latest[d] # NoSocket
      BY DEF TypeInv, ClientsTyped
    <3>2. QED BY <1>1, <1>3, <2>1, <2>2, <2>4, <3>1 DEF ClientBook
  <2>5. QED BY <2>3, <2>4
<1>5. DOMAIN sockets' = DOMAIN sockets
  BY DEF OnlyOpen, Same
<1>6. QED BY <1>2, <1>4, <1>5 DEF ClientBooks

\* The attempts that are released go on only from where the last socket is answered.
LEMMA ReleaseBooks ==
  ASSUME TypeInv, ClientBooks, NEW c \in Client, Retry(c) \/ Stop(c),
         Stop(c) \/ manager[c] \in {"due", "opening", "up"}
  PROVE  ClientBooks'
<1>1. PICK p \in {"due", "done"} :
        manager' = [manager EXCEPT ![c] = p] /\ (p = "due" => Retry(c))
  BY Released
<1>2. OnlyOpen /\ latest' = latest
  BY Released, ClosedOnlyOpen
<1>3. authError' = [authError EXCEPT ![c] = authError[c]] /\ authError[c] \in BOOLEAN
  BY Released, OfClient
<1>4. ClientBook(c)
  BY DEF ClientBooks
<1>5. p = "due" => (latest[c] # NoSocket => Answered(c))
  <2>1. CASE Stop(c)
    <3>1. manager'[c] = "done" /\ manager'[c] = p
      BY <1>1, <2>1 DEF Stop, Ends, TypeInv, IInv, ClientInv
    <3>2. QED BY <3>1
  <2>2. CASE manager[c] \in {"due", "opening", "up"}
    BY <1>4, <2>2 DEF ClientBook
  <2>3. QED BY <2>1, <2>2
<1>6. QED BY <1>1, <1>2, <1>3, <1>5, Released, QuietMoves

LEMMA OpenedBooks == ASSUME TypeInv, ClientBooks, NEW c \in Client, Opened(c) PROVE ClientBooks'
<1>1. /\ manager[c] = "opening" /\ manager' = [manager EXCEPT ![c] = "auth"]
      /\ latest' = [latest EXCEPT ![c] = Len(sockets) + 1]
      /\ UNCHANGED <<connected, authenticated, authError>>
  BY DEF Opened
<1>2. PICK x : /\ x = [client |-> c, token |-> carried[c], stage |-> "asked",
                       open |-> TRUE, inbox |-> <<>>]
               /\ sockets' = Append(sockets, x)
  BY DEF Opened
<1>3. x \in Socket /\ x.client = c /\ x.stage = "asked" /\ x.inbox = <<>>
  <2>1. carried[c] \in Nat /\ <<>> \in Seq({"auth_ok", "error"})
    BY DEF TypeInv, IInv, ClientInv
  <2>2. QED BY <1>2, <2>1 DEF Socket
<1>4. /\ sockets \in Seq(Socket) /\ sockets' \in Seq(Socket)
      /\ Len(sockets') = Len(sockets) + 1 /\ sockets'[Len(sockets) + 1] = x
      /\ \A s \in DOMAIN sockets : sockets'[s] = sockets[s]
  BY <1>2, <1>3, OfClient
<1>5. /\ manager'[c] = "auth" /\ latest'[c] = Len(sockets) + 1
      /\ \A d \in Client \ {c} :
           /\ manager'[d] = manager[d] /\ latest'[d] = latest[d]
           /\ connected'[d] = connected[d] /\ authenticated'[d] = authenticated[d]
           /\ authError'[d] = authError[d]
  BY <1>1 DEF TypeInv, IInv, ClientInv, ClientsTyped
<1>6. ClientBook(c) /\ latest[c] \in 0 .. Len(sockets)
  BY OfClient DEF ClientBooks
<1>7. ASSUME NEW s \in DOMAIN sockets', sockets'[s].client = c PROVE SocketBook(s)'
  <2>1. CASE s = Len(sockets) + 1
    <3>1. sockets'[s] = x /\ latest'[c] = s
      BY <1>4, <1>5, <2>1
    <3>2. s <= s
      BY <1>4, <2>1
    <3>3. QED BY <1>3, <3>1, <3>2 DEF SocketBook
  <2>2. CASE s # Len(sockets) + 1
    <3>1. s \in DOMAIN sockets /\ sockets'[s] = sockets[s] /\ sockets[s].client = c
      BY <1>4, <1>7, <2>2
    <3>2. SocketBook(s)
      BY <3>1 DEF ClientBooks
    <3>3. latest[c] # NoSocket /\ s <= latest[c]
      BY <1>6, <3>1, <3>2 DEF SocketBook, NoSocket
    <3>4. Answered(c)
      BY <1>1, <1>6, <3>3 DEF ClientBook
    <3>5. /\ sockets[s].stage # "asked"
          /\ \A i \in DOMAIN sockets[s].inbox : sockets[s].inbox[i] # "auth_ok"
      BY <3>1, <3>2, <3>4 DEF SocketBook, Answered
    <3>6. s <= latest'[c]
      BY <1>4, <1>5, <3>1
    <3>7. QED BY <3>1, <3>5, <3>6 DEF SocketBook
  <2>3. QED BY <2>1, <2>2
<1>8. ClientBook(c)'
  <2>1. authenticated[c] => authError[c]
    BY <1>1, <1>6 DEF ClientBook
  <2>2. ~connected'[c]
    BY <1>1, <1>6 DEF ClientBook
  <2>3. sockets'[latest'[c]].client = c
    BY <1>3, <1>4, <1>5
  <2>4. QED BY <1>1, <1>5, <2>1, <2>2, <2>3 DEF ClientBook
<1>9. \A s \in DOMAIN sockets' : sockets'[s].client # c => s \in DOMAIN sockets
  BY <1>3, <1>4
<1>10. QED BY <1>4, <1>5, <1>7, <1>8, <1>9, OneClientMoves

LEMMA UnchangedOnlyOpen == ASSUME TypeInv, UNCHANGED sockets PROVE OnlyOpen
<1>1. sockets \in Seq(Socket)
  BY DEF TypeInv, IInv, SocketInv
<1>2. Same(sockets, sockets')
  BY <1>1, SameSelf
<1>3. QED BY <1>2 DEF OnlyOpen

LEMMA ManagerBooks == ASSUME TypeInv, ClientBooks, NEW c \in Client, Manager(c) PROVE ClientBooks'
<1>1. ClientBook(c)
  BY DEF ClientBooks
<1>2. CASE Stop(c)
  BY <1>2, ReleaseBooks
<1>3. CASE Retry(c) /\ manager[c] \in {"due", "opening", "up"}
  BY <1>3, ReleaseBooks
<1>4. CASE Opened(c)
  BY <1>4, OpenedBooks
<1>5. CASE Wake(c)
  <2>1. manager[c] = "due"
    BY <1>5 DEF Wake
  <2>2. CASE Retry(c) \/ Stop(c)
    BY <1>2, <1>3, <2>1, <2>2
  <2>3. CASE /\ manager' = [manager EXCEPT ![c] = "opening"]
             /\ UNCHANGED <<attempt, latest, connected, authenticated, authError, sockets>>
    <3>1. /\ latest[c] # NoSocket => Answered(c)
          /\ authenticated[c] => authError[c]
          /\ ~connected[c]
      BY <1>1, <2>1 DEF ClientBook
    <3>2. OnlyOpen
      BY <2>3, UnchangedOnlyOpen
    <3>3. PICK p \in {"opening"}, b \in BOOLEAN, a \in BOOLEAN, e \in BOOLEAN :
            /\ manager' = [manager EXCEPT ![c] = p]
            /\ connected' = [connected EXCEPT ![c] = b] /\ b = connected[c]
            /\ authenticated' = [authenticated EXCEPT ![c] = a] /\ a = authenticated[c]
            /\ authError' = [authError EXCEPT ![c] = e] /\ e = authError[c]
      BY <2>3, OfClient
    <3>4. p = "opening" /\ ~b /\ (a => e)
      BY <3>1, <3>3
    <3>5. QED BY <2>3, <3>1, <3>2, <3>3, <3>4, QuietMoves
  <2>4. QED BY <1>5, <2>2, <2>3 DEF Wake
<1>6. CASE AuthAccepted(c)
  <2>1. /\ manager[c] = "auth" /\ authenticated[c] /\ ~authError[c]
        /\ manager' = [manager EXCEPT ![c] = "up"]
        /\ connected' = [connected EXCEPT ![c] = TRUE]
        /\ UNCHANGED <<latest, authenticated, authError, sockets>>
    BY <1>6 DEF AuthAccepted
  <2>2. Answered(c) /\ latest[c] # NoSocket
    BY <1>1, <2>1 DEF ClientBook, TypeInv, ClientsTyped
  <2>3. OnlyOpen
    BY <2>1, UnchangedOnlyOpen
  <2>4. PICK p \in {"up"}, b \in BOOLEAN, a \in BOOLEAN, e \in BOOLEAN :
          /\ manager' = [manager EXCEPT ![c] = p]
          /\ connected' = [connected EXCEPT ![c] = b]
          /\ authenticated' = [authenticated EXCEPT ![c] = a]
          /\ authError' = [authError EXCEPT ![c] = e]
    BY <2>1, OfClient
  <2>5. p = "up"
    OBVIOUS
  <2>6. QED BY <2>1, <2>2, <2>3, <2>4, <2>5, QuietMoves
<1>7. QED BY <1>2, <1>3, <1>4, <1>5, <1>6
  DEF Manager, OpenFails, OpenedInVain, AuthTimeout, AuthRefused, Lost

LEMMA ConnectBooks == ASSUME TypeInv, ClientBooks, StartSession PROVE ClientBooks'
<1>1. PICK c \in Client : c = session
  BY DEF TypeInv, IInv, SessionInv, StartSession
<1>2. /\ manager[c] = "none" /\ manager' = [manager EXCEPT ![c] = "due"]
      /\ UNCHANGED <<latest, connected, authenticated, authError, sockets>>
  BY <1>1 DEF StartSession, Connect
<1>3. ClientBook(c)
  BY DEF ClientBooks
<1>4. latest[c] = NoSocket /\ ~authenticated[c] /\ ~connected[c]
  BY <1>2, <1>3 DEF ClientBook
<1>5. OnlyOpen
  BY <1>2, UnchangedOnlyOpen
<1>6. PICK p \in {"due"}, b \in BOOLEAN, a \in BOOLEAN, e \in BOOLEAN :
        /\ manager' = [manager EXCEPT ![c] = p]
        /\ connected' = [connected EXCEPT ![c] = b] /\ b = connected[c]
        /\ authenticated' = [authenticated EXCEPT ![c] = a] /\ a = authenticated[c]
        /\ authError' = [authError EXCEPT ![c] = e]
  BY <1>2, OfClient
<1>7. p = "due" /\ ~a /\ ~b
  BY <1>4, <1>6
<1>8. QED BY <1>2, <1>4, <1>5, <1>6, <1>7, QuietMoves

LEMMA BeginBooks ==
  ASSUME TypeInv, ClientBooks, NEW c \in Client, BeginDisconnect(c) PROVE ClientBooks'
<1>1. /\ connected' = [connected EXCEPT ![c] = FALSE]
      /\ authenticated' = [authenticated EXCEPT ![c] = FALSE]
      /\ authError' = [authError EXCEPT ![c] = FALSE]
      /\ sockets' = ClosedSockets(Held(c)) /\ UNCHANGED <<manager, latest>>
  BY DEF BeginDisconnect
<1>2. OnlyOpen
  BY <1>1, ClosedOnlyOpen
<1>3. ClientBook(c)
  BY DEF ClientBooks
<1>4. PICK p : p = manager[c]
  OBVIOUS
<1>5. manager' = [manager EXCEPT ![c] = p]
  BY <1>1, <1>4, OfClient
<1>6. /\ p = "none" => latest[c] = NoSocket
      /\ p \in {"due", "opening"} => (latest[c] # NoSocket => Answered(c))
      /\ p = "up" => Answered(c)
  BY <1>3, <1>4 DEF ClientBook
<1>7. p \in {"auth", "up"} => latest[c] # NoSocket
  BY <1>4 DEF TypeInv, ClientsTyped
<1>8. QED BY <1>1, <1>2, <1>5, <1>6, <1>7, QuietMoves

\* The last socket of a client that ends is read no further.
LEMMA EndBooks ==
  ASSUME TypeInv, ClientBooks, NEW c \in Client, EndDisconnect(c) PROVE ClientBooks'
<1>1. /\ manager' = [manager EXCEPT ![c] = "done"] /\ latest' = latest
      /\ connected' = [connected EXCEPT ![c] = FALSE]
      /\ authenticated' = [authenticated EXCEPT ![c] = FALSE] /\ authError' = authError
  BY DEF EndDisconnect, Ends
<1>2. /\ manager'[c] = "done" /\ ~connected'[c]
      /\ \A d \in Client \ {c} :
           /\ manager'[d] = manager[d] /\ latest'[d] = latest[d]
           /\ connected'[d] = connected[d] /\ authenticated'[d] = authenticated[d]
           /\ authError'[d] = authError[d]
  BY <1>1 DEF TypeInv, IInv, ClientInv, ClientsTyped
<1>3. sockets \in Seq(Socket) /\ Same(sockets, sockets')
  BY EndDisconnectKeeps DEF TypeInv, IInv, SocketInv
<1>4. sockets' \in Seq(Socket) /\ DOMAIN sockets' = DOMAIN sockets /\ Len(sockets') = Len(sockets)
  BY <1>3 DEF Same
<1>5. ClientBook(c)
  BY DEF ClientBooks
<1>6. ASSUME NEW s \in DOMAIN sockets
      PROVE  /\ sockets'[s].client = sockets[s].client /\ sockets'[s].stage = sockets[s].stage
             /\ sockets'[s].inbox \in {sockets[s].inbox, <<>>}
             /\ sockets[s].client # c => sockets'[s] = sockets[s]
  <2>1. CASE latest[c] = NoSocket \/ s # latest[c]
    BY <1>3, <2>1 DEF EndDisconnect
  <2>2. CASE latest[c] # NoSocket /\ s = latest[c]
    <3>1. sockets[s] \in Socket /\ sockets[s].client = c
      BY <1>3, <1>5, <2>2 DEF ClientBook
    <3>2. sockets'[s] = [[sockets[s] EXCEPT !.open = FALSE] EXCEPT !.inbox = <<>>]
      BY <1>3, <2>2 DEF EndDisconnect
    <3>3. QED BY <3>1, <3>2 DEF Socket
  <2>3. QED BY <2>1, <2>2
<1>7. ASSUME NEW s \in DOMAIN sockets' PROVE SocketBook(s)'
  <2>1. SocketBook(s) /\ latest' = latest
    BY <1>1, <1>4 DEF ClientBooks
  <2>2. \A i \in DOMAIN sockets'[s].inbox :
          /\ i \in DOMAIN sockets[s].inbox
          /\ sockets'[s].inbox[i] = sockets[s].inbox[i]
    BY <1>4, <1>6
  <2>3. sockets[s].inbox = <<>> => sockets'[s].inbox = <<>>
    BY <1>4, <1>6
  <2>4. QED BY <1>4, <1>6, <2>1, <2>2, <2>3 DEF SocketBook
<1>8. ClientBook(c)'
  <2>1. latest[c] # NoSocket => sockets'[latest[c]].client = c
    <3>1. latest[c] # NoSocket => latest[c] \in DOMAIN sockets
      BY <1>3, OfClient DEF NoSocket
    <3>2. QED BY <1>5, <1>6, <3>1 DEF ClientBook
  <2>2. QED BY <1>1, <1>2, <2>1 DEF ClientBook
<1>9. QED BY <1>2, <1>4, <1>6, <1>7, <1>8, OneClientMoves

\* Nothing is there to be received that would count as an answer.
Heard(q) == \A i \in DOMAIN q : q[i] # "auth_ok"

\* What SocketBook says of socket s of client c, once it is x.
InOrder(s, c, x) ==
  /\ x.stage = "asked" => x.inbox = <<>> /\ s = latest[c]
  /\ \A i \in DOMAIN x.inbox :
       x.inbox[i] = "auth_ok" => i = 1 /\ x.stage = "accepted" /\ s = latest[c]

\* A step that reads or fills the inbox of socket s, which becomes x.
LEMMA SocketChanges ==
  ASSUME TypeInv, ClientBooks, NEW s \in DOMAIN sockets,
         NEW c \in Client, c = sockets[s].client,
         NEW x \in Socket, x.client = c, sockets' = [sockets EXCEPT ![s] = x],
         UNCHANGED <<manager, latest, connected>>,
         NEW a \in BOOLEAN, authenticated' = [authenticated EXCEPT ![c] = a],
         NEW e \in BOOLEAN, authError' = [authError EXCEPT ![c] = e],
         InOrder(s, c, x),
         s = latest[c] /\ Answered(c) => x.stage = "accepted" /\ Heard(x.inbox),
         manager[c] \in {"due", "opening"} /\ a => e,
         manager[c] = "auth" /\ a /\ ~e =>
           Answered(c) \/ (s = latest[c] /\ x.stage = "accepted" /\ Heard(x.inbox))
  PROVE  ClientBooks'
<1>1. sockets \in Seq(Socket) /\ sockets' \in Seq(Socket) /\ Len(sockets') = Len(sockets)
  <2>1. sockets \in Seq(Socket)
    BY DEF TypeInv, IInv, SocketInv
  <2>2. sockets[s] \in Socket
    BY <2>1
  <2>3. QED BY <2>1, <2>2
<1>2. \A r \in DOMAIN sockets' :
        r \in DOMAIN sockets /\ sockets'[r] = IF r = s THEN x ELSE sockets[r]
  BY <1>1
<1>3. /\ authenticated'[c] = a /\ authError'[c] = e
      /\ \A d \in Client \ {c} :
           authenticated'[d] = authenticated[d] /\ authError'[d] = authError[d]
  BY DEF TypeInv, ClientsTyped
<1>4. ClientBook(c) /\ latest[c] \in 0 .. Len(sockets) /\ SocketBook(s)
  BY OfClient DEF ClientBooks
<1>5. latest[c] # NoSocket /\ s <= latest[c] /\ latest[c] \in DOMAIN sockets'
  BY <1>1, <1>4 DEF SocketBook, NoSocket
<1>6. Answered(c) => Answered(c)'
  <2>1. CASE s = latest[c]
    BY <1>2, <1>5, <2>1 DEF Answered, Heard
  <2>2. CASE s # latest[c]
    BY <1>2, <1>5, <2>2 DEF Answered
  <2>3. QED BY <2>1, <2>2
<1>7. s = latest[c] /\ x.stage = "accepted" /\ Heard(x.inbox) => Answered(c)'
  BY <1>2, <1>5 DEF Answered, Heard
<1>8. sockets'[latest[c]].client = c
  BY <1>2, <1>4, <1>5 DEF ClientBook
<1>9. ClientBook(c)'
  BY <1>3, <1>4, <1>5, <1>6, <1>7, <1>8 DEF ClientBook
<1>10. ASSUME NEW r \in DOMAIN sockets', sockets'[r].client = c PROVE SocketBook(r)'
  <2>1. CASE r = s
    BY <1>2, <1>4, <1>5, <2>1 DEF SocketBook, InOrder
  <2>2. CASE r # s
    <3>1. SocketBook(r) /\ sockets'[r] = sockets[r]
      BY <1>2, <2>2 DEF ClientBooks
    <3>2. QED BY <3>1 DEF SocketBook
  <2>3. QED BY <2>1, <2>2
<1>11. QED BY <1>1, <1>2, <1>3, <1>9, <1>10, OneClientMoves

LEMMA TailHeard ==
  ASSUME NEW q \in Seq({"auth_ok", "error"}), q # <<>>,
         \A i \in DOMAIN q : q[i] = "auth_ok" => i = 1
  PROVE  Tail(q) \in Seq({"auth_ok", "error"}) /\ Heard(Tail(q))
<1>1. /\ Tail(q) \in Seq({"auth_ok", "error"})
      /\ \A i \in DOMAIN Tail(q) : i + 1 \in DOMAIN q /\ Tail(q)[i] = q[i + 1] /\ i + 1 # 1
  OBVIOUS
<1>2. QED BY <1>1 DEF Heard

LEMMA ReceiveBooks ==
  ASSUME TypeInv, ClientBooks, NEW s \in DOMAIN sockets, Receive(s) PROVE ClientBooks'
<1>1. sockets[s] \in Socket /\ SocketBook(s)
  BY DEF TypeInv, IInv, SocketInv, ClientBooks
<1>2. PICK c \in Client : c = sockets[s].client
  BY <1>1 DEF Socket
<1>3. PICK q : q = Tail(sockets[s].inbox)
  OBVIOUS
<1>4. /\ sockets[s].inbox \in Seq({"auth_ok", "error"}) /\ sockets[s].inbox # <<>>
      /\ q \in Seq({"auth_ok", "error"}) /\ Heard(q)
  <2>1. sockets[s].inbox \in Seq({"auth_ok", "error"}) /\ sockets[s].inbox # <<>>
    BY <1>1 DEF Receive, Socket
  <2>2. QED BY <1>1, <1>3, <2>1, TailHeard DEF SocketBook
<1>5. PICK x : x = [sockets[s] EXCEPT !.inbox = q]
  OBVIOUS
<1>6. /\ x \in Socket /\ x.client = c /\ x.stage = sockets[s].stage /\ x.inbox = q
      /\ sockets' = [sockets EXCEPT ![s] = x]
  BY <1>1, <1>2, <1>3, <1>4, <1>5 DEF Receive, Socket
<1>7. ClientBook(c) /\ UNCHANGED <<manager, latest, connected>> /\ sockets[s].stage # "asked"
  BY <1>1, <1>4 DEF ClientBooks, Receive, SocketBook
<1>8. s = latest[c] /\ Answered(c) => x.stage = "accepted" /\ Heard(x.inbox)
  BY <1>4, <1>6 DEF Answered
<1>9. InOrder(s, c, x)
  BY <1>4, <1>6, <1>7 DEF InOrder, Heard
<1>10. CASE /\ Head(sockets[s].inbox) = "auth_ok"
           /\ authError' = [authError EXCEPT ![c] = FALSE]
           /\ authenticated' = [authenticated EXCEPT ![c] = TRUE]
  <2>1. 1 \in DOMAIN sockets[s].inbox /\ sockets[s].inbox[1] = "auth_ok"
    BY <1>4, <1>10
  <2>2. s = latest[c] /\ sockets[s].stage = "accepted"
    BY <1>1, <1>2, <2>1 DEF SocketBook
  <2>3. ~Answered(c) /\ latest[c] # NoSocket
    <3>1. s # 0
      BY DEF TypeInv, IInv, SocketInv
    <3>2. QED BY <2>1, <2>2, <3>1 DEF Answered, NoSocket
  <2>4. manager[c] \notin {"due", "opening"}
    BY <1>7, <2>3 DEF ClientBook
  <2>5. QED BY <1>2, <1>4, <1>6, <1>7, <1>8, <1>10, <2>2, <2>4, <1>9, SocketChanges
<1>11. CASE /\ Head(sockets[s].inbox) = "error" /\ ~authenticated[c]
            /\ authError' = [authError EXCEPT ![c] = TRUE]
            /\ authenticated' = [authenticated EXCEPT ![c] = TRUE]
  BY <1>2, <1>4, <1>6, <1>7, <1>8, <1>11, <1>9, SocketChanges
<1>12. CASE UNCHANGED <<authError, authenticated>>
  <2>1. PICK a \in BOOLEAN, e \in BOOLEAN :
          /\ authenticated' = [authenticated EXCEPT ![c] = a] /\ a = authenticated[c]
          /\ authError' = [authError EXCEPT ![c] = e] /\ e = authError[c]
    BY <1>12, OfClient
  <2>2. /\ manager[c] \in {"due", "opening"} /\ a => e
        /\ manager[c] = "auth" /\ a /\ ~e => Answered(c)
    BY <1>7, <2>1 DEF ClientBook
  <2>3. QED BY <1>2, <1>4, <1>6, <1>7, <1>8, <2>1, <2>2, <1>9, SocketChanges
<1>13. QED BY <1>2, <1>10, <1>11, <1>12 DEF Receive

LEMMA AppendHeard ==
  ASSUME NEW q \in Seq({"auth_ok", "error"})
  PROVE  /\ Append(q, "error") \in Seq({"auth_ok", "error"})
         /\ Append(q, "auth_ok") \in Seq({"auth_ok", "error"})
         /\ Heard(q) => Heard(Append(q, "error"))
         /\ \A i \in DOMAIN Append(q, "error") :
              Append(q, "error")[i] = "auth_ok" => i \in DOMAIN q /\ q[i] = "auth_ok"
         /\ q = <<>> => \A i \in DOMAIN Append(q, "auth_ok") : i = 1
BY DEF Heard

LEMMA ConnectionBooks ==
  ASSUME TypeInv, ClientBooks, NEW s \in DOMAIN sockets, Connection(s) PROVE ClientBooks'
<1>1. sockets[s] \in Socket /\ SocketBook(s)
  BY DEF TypeInv, IInv, SocketInv, ClientBooks
<1>2. PICK c \in Client : c = sockets[s].client
  BY <1>1 DEF Socket
<1>3. UNCHANGED <<manager, latest, connected, authenticated, authError>>
  BY DEF Connection, Accept, Refuse, RequestFails, Drop, clientVars
<1>4. PICK a \in BOOLEAN, e \in BOOLEAN :
        /\ authenticated' = [authenticated EXCEPT ![c] = a] /\ a = authenticated[c]
        /\ authError' = [authError EXCEPT ![c] = e] /\ e = authError[c]
  BY <1>3, OfClient
<1>5. /\ manager[c] \in {"due", "opening"} /\ a => e
      /\ manager[c] = "auth" /\ a /\ ~e => Answered(c)
  <2>1. ClientBook(c) /\ latest[c] # NoSocket
    BY <1>1, <1>2, OfClient DEF ClientBooks, SocketBook, NoSocket
  <2>2. QED BY <1>4, <2>1 DEF ClientBook
<1>6. sockets[s].inbox \in Seq({"auth_ok", "error"})
  BY <1>1 DEF Socket
<1>7. PICK ok, no : /\ ok = Append(sockets[s].inbox, "auth_ok")
                    /\ no = Append(sockets[s].inbox, "error")
  OBVIOUS
<1>8. /\ ok \in Seq({"auth_ok", "error"}) /\ no \in Seq({"auth_ok", "error"})
      /\ Heard(sockets[s].inbox) => Heard(no)
      /\ \A i \in DOMAIN no :
           no[i] = "auth_ok" => i \in DOMAIN sockets[s].inbox /\ sockets[s].inbox[i] = "auth_ok"
      /\ sockets[s].inbox = <<>> => \A i \in DOMAIN ok : i = 1
  BY <1>6, <1>7, AppendHeard
<1>9. CASE Drop(s)
  <2>1. PICK x : x = [sockets[s] EXCEPT !.open = FALSE]
    OBVIOUS
  <2>2. /\ x \in Socket /\ x.client = c /\ x.stage = sockets[s].stage
        /\ x.inbox = sockets[s].inbox /\ sockets' = [sockets EXCEPT ![s] = x]
    BY <1>1, <1>2, <1>9, <2>1 DEF Drop, Socket
  <2>3. s = latest[c] /\ Answered(c) => x.stage = "accepted" /\ Heard(x.inbox)
    BY <2>2 DEF Answered, Heard
  <2>4. InOrder(s, c, x)
    BY <1>1, <1>2, <2>2 DEF SocketBook, InOrder
  <2>5. QED BY <1>2, <1>3, <1>4, <1>5, <2>2, <2>3, <2>4, SocketChanges
<1>10. CASE RequestFails(s)
  <2>1. PICK x : x = [sockets[s] EXCEPT !.inbox = no]
    OBVIOUS
  <2>2. /\ x \in Socket /\ x.client = c /\ x.stage = "accepted" /\ sockets[s].stage = "accepted"
        /\ x.inbox = no /\ sockets' = [sockets EXCEPT ![s] = x]
    BY <1>1, <1>2, <1>7, <1>8, <1>10, <2>1 DEF RequestFails, Socket
  <2>3. s = latest[c] /\ Answered(c) => Heard(x.inbox)
    BY <1>8, <2>2 DEF Answered, Heard
  <2>4. InOrder(s, c, x)
    BY <1>1, <1>2, <1>8, <2>2 DEF SocketBook, InOrder
  <2>5. QED BY <1>2, <1>3, <1>4, <1>5, <2>2, <2>3, <2>4, SocketChanges
<1>11. CASE Accept(s) \/ Refuse(s)
  <2>1. /\ sockets[s].stage = "asked" /\ sockets[s].inbox = <<>> /\ s = latest[c]
    BY <1>1, <1>2, <1>11 DEF Accept, Refuse, SocketBook
  <2>2. ~Answered(c)
    BY <2>1 DEF Answered
  <2>3. PICK x : /\ x \in Socket /\ x.client = c
                 /\ \/ x.stage = "accepted" /\ x.inbox = ok
                    \/ x.stage = "refused" /\ x.inbox = no
                 /\ sockets' = [sockets EXCEPT ![s] = x]
    <3>1. CASE Accept(s)
      <4>1. PICK x : x = [[sockets[s] EXCEPT !.stage = "accepted"] EXCEPT !.inbox = ok]
        OBVIOUS
      <4>2. x \in Socket /\ x.client = c /\ x.stage = "accepted" /\ x.inbox = ok
        BY <1>1, <1>2, <1>8, <4>1 DEF Socket
      <4>3. sockets' = [sockets EXCEPT ![s] = x]
        BY <1>7, <3>1, <4>1 DEF Accept
      <4>4. QED BY <4>2, <4>3
    <3>2. CASE Refuse(s)
      <4>1. PICK x : x = [[sockets[s] EXCEPT !.stage = "refused"] EXCEPT !.inbox = no]
        OBVIOUS
      <4>2. x \in Socket /\ x.client = c /\ x.stage = "refused" /\ x.inbox = no
        BY <1>1, <1>2, <1>8, <4>1 DEF Socket
      <4>3. sockets' = [sockets EXCEPT ![s] = x]
        BY <1>7, <3>2, <4>1 DEF Refuse
      <4>4. QED BY <4>2, <4>3
    <3>3. QED BY <1>11, <3>1, <3>2
  <2>4. InOrder(s, c, x)
    BY <1>8, <2>1, <2>3 DEF InOrder
  <2>5. QED BY <1>2, <1>3, <1>4, <1>5, <2>1, <2>2, <2>3, <2>4, SocketChanges
<1>12. QED BY <1>9, <1>10, <1>11 DEF Connection

LEMMA DiesBooks == ASSUME TypeInv, Dies PROVE ClientBooks' /\ task' = "none"
<1>1. /\ manager' = [c \in Client |-> IF manager[c] = "none" THEN "none" ELSE "done"]
      /\ latest' = [c \in Client |-> 0] /\ sockets' = <<>> /\ task' = "none"
      /\ connected' = [c \in Client |-> FALSE] /\ authenticated' = [c \in Client |-> FALSE]
  BY DEF Dies, NoSocket
<1>2. ASSUME NEW c \in Client PROVE ClientBook(c)'
  <2>1. manager'[c] \in {"none", "done"} /\ latest'[c] = 0
    BY <1>1
  <2>2. ~connected'[c] /\ ~authenticated'[c]
    BY <1>1
  <2>3. QED BY <2>1, <2>2 DEF ClientBook, NoSocket
<1>3. QED BY <1>1, <1>2 DEF ClientBooks

\* The books are about these alone.
Booked == <<manager, latest, connected, authenticated, authError, sockets>>

LEMMA BooksUnchanged == ASSUME ClientBooks, UNCHANGED Booked PROVE ClientBooks'
BY DEF Booked, ClientBooks, ClientBook, SocketBook, Answered

LEMMA NetworkBooks == ASSUME TypeInv, ClientBooks, Network PROVE ClientBooks'
BY ReceiveBooks, ConnectionBooks, BeginBooks, EndBooks DEF Network

\* Once accepted, always accepted.
LEMMA CameStays ==
  ASSUME TypeInv, Came, session' = session, Network \/ \E c \in Client : Manager(c)
  PROVE  Came'
<1>1. PICK s \in DOMAIN sockets : sockets[s].client = session /\ sockets[s].stage = "accepted"
  BY DEF Came
<1>2. sockets \in Seq(Socket) /\ IInv
  BY DEF TypeInv, IInv, SocketInv
<1>3. ASSUME OnlyOpen PROVE Came'
  BY <1>1, <1>3 DEF OnlyOpen, Same, Came
<1>4. ASSUME NEW c \in Client, Manager(c) PROVE Came'
  <2>1. CASE Retry(c) \/ Stop(c)
    BY <1>3, <2>1, Released, ClosedOnlyOpen
  <2>2. CASE Opened(c)
    <3>1. \E x : sockets' = Append(sockets, x)
      BY <2>2 DEF Opened
    <3>2. s \in DOMAIN sockets' /\ sockets'[s] = sockets[s]
      BY <1>2, <3>1
    <3>3. QED BY <1>1, <3>2 DEF Came
  <2>3. CASE sockets' = sockets
    BY <1>3, <2>3, UnchangedOnlyOpen
  <2>4. QED BY <1>4, <2>1, <2>2, <2>3
        DEF Manager, Wake, OpenFails, OpenedInVain, AuthTimeout, AuthRefused, AuthAccepted, Lost
<1>5. ASSUME NEW c \in Client, BeginDisconnect(c) PROVE Came'
  BY <1>3, <1>5, ClosedOnlyOpen DEF BeginDisconnect
<1>6. ASSUME Same(sockets, sockets'), sockets'[s].stage = "accepted" PROVE Came'
  BY <1>1, <1>6 DEF Same, Came
<1>7. ASSUME NEW c \in Client, EndDisconnect(c) PROVE Came'
  <2>1. sockets[s] \in Socket
    BY <1>2
  <2>2. \/ sockets'[s] = sockets[s]
        \/ sockets'[s] = [[sockets[s] EXCEPT !.open = FALSE] EXCEPT !.inbox = <<>>]
    BY <1>2, <1>7 DEF EndDisconnect
  <2>3. sockets'[s].stage = "accepted"
    BY <1>1, <2>1, <2>2 DEF Socket
  <2>4. QED BY <1>2, <1>6, <1>7, <2>3, EndDisconnectKeeps
<1>8. ASSUME NEW r \in DOMAIN sockets, Connection(r) \/ Receive(r) PROVE Came'
  <2>1. sockets[s] \in Socket
    BY <1>2
  <2>2. CASE r # s
    <3>1. sockets'[s] = sockets[s]
      BY <1>8, <2>2 DEF Connection, Accept, Refuse, RequestFails, Drop, Receive
    <3>2. QED BY <1>1, <1>2, <1>6, <1>8, <3>1, ConnectionKeeps, ReceiveKeeps
  <2>3. CASE r = s
    <3>1. ~Accept(s) /\ ~Refuse(s)
      BY <1>1 DEF Accept, Refuse
    <3>2. \/ sockets'[s] = [sockets[s] EXCEPT !.inbox = Tail(@)]
          \/ sockets'[s] = [sockets[s] EXCEPT !.inbox = Append(@, "error")]
          \/ sockets'[s] = [sockets[s] EXCEPT !.open = FALSE]
      BY <1>8, <2>3, <3>1 DEF Connection, RequestFails, Drop, Receive
    <3>3. sockets'[s].stage = "accepted"
      BY <1>1, <2>1, <3>2 DEF Socket
    <3>4. QED BY <1>2, <1>6, <1>8, <3>3, ConnectionKeeps, ReceiveKeeps
  <2>4. QED BY <2>2, <2>3
<1>9. QED BY <1>4, <1>5, <1>7, <1>8 DEF Network

\* A session that comes online sees its client connected: its socket was accepted.
LEMMA WakesAccepted == ASSUME Books, ConnectWakes PROVE Came
<1>1. connected[session] /\ task = "connect"
  BY DEF ConnectWakes
<1>2. session \in Client
  BY <1>1 DEF Books, TypeInv, IInv, SessionInv
<1>3. manager[session] = "up" /\ Answered(session) /\ latest[session] # NoSocket
      /\ sockets[latest[session]].client = session
  BY <1>1, <1>2 DEF Books, ClientBooks, ClientBook, TypeInv, ClientsTyped
<1>4. latest[session] \in DOMAIN sockets
  BY <1>2, <1>3, OfClient DEF Books, NoSocket
<1>5. QED BY <1>3, <1>4 DEF Came, Answered

LEMMA NextBooks == Books /\ [Next]_vars => Books'
<1> SUFFICES ASSUME Books, [Next]_vars PROVE Books'
  OBVIOUS
<1>1. TypeInv /\ ClientBooks /\ TypeInv'
  BY NextTyped DEF Books
<1>2. CASE \/ Start \/ ConnectWakes \/ ConnectFails \/ GoesOnline \/ Expire \/ UNCHANGED vars
           \/ \E u \in User : SignIn(u)
  <2>1. UNCHANGED Booked
    BY <1>2 DEF Start, ConnectWakes, ConnectFails, GoesOnline, Expire, SignIn, vars, signaling,
                clientVars, Booked
  <2>2. ClientBooks'
    BY <1>1, <2>1, BooksUnchanged
  <2>3. session' = session => (Came => Came')
    BY <2>1 DEF Booked, Came
  <2>4. CASE session' = session /\ task' = task
    BY <1>1, <2>2, <2>3, <2>4 DEF Books
  <2>5. CASE \E c \in Client, u \in User, other \in {left, FALSE} : OpenMainWindow(c, u, other)
    <3>1. task' = "soon" /\ session' # NoSession
      BY <2>5, ClientAssumption DEF OpenMainWindow, NoSession
    <3>2. QED BY <1>1, <2>2, <3>1 DEF Books
  <2>6. CASE ConnectWakes \/ ConnectFails \/ GoesOnline
    <3>1. session' = session /\ task # "none"
      BY <2>6 DEF ConnectWakes, ConnectFails, GoesOnline, TaskMoves
    <3>2. task' \in {"woken", "ready"} => Came
      BY <2>6, WakesAccepted DEF ConnectFails, GoesOnline, TaskMoves, Books
    <3>3. QED BY <1>1, <2>2, <2>3, <3>1, <3>2 DEF Books
  <2>7. CASE Start \/ Expire \/ UNCHANGED vars \/ \E u \in User : SignIn(u)
    BY <2>4, <2>5, <2>7 DEF Start, Expire, SignIn, vars, sessionVars
  <2>8. QED BY <1>2, <2>6, <2>7
<1>3. CASE Logout
  <2>1. UNCHANGED Booked /\ task' = "none"
    BY <1>3 DEF Logout, CloseSession, clientVars, Booked
  <2>2. QED BY <1>1, <2>1, BooksUnchanged DEF Books
<1>4. CASE Exit \/ \E u \in User : ExitDuringSignIn(u)
  BY <1>1, <1>4, DiesBooks DEF Exit, ExitDuringSignIn, Books
<1>5. CASE StartSession
  <2>1. task' = "connect" /\ session' = session /\ task # "none"
    BY <1>5 DEF StartSession, TaskMoves
  <2>2. QED BY <1>1, <1>5, <2>1, ConnectBooks DEF Books
<1>6. CASE /\ Network \/ \E c \in Client : Manager(c)
           /\ UNCHANGED <<token, expired, sessionVars>>
  <2>1. session' = session /\ task' = task
    BY <1>6 DEF sessionVars
  <2>2. ClientBooks'
    BY <1>1, <1>6, ManagerBooks, NetworkBooks
  <2>3. Came => Came'
    BY <1>1, <1>6, <2>1, CameStays
  <2>4. QED BY <1>1, <2>1, <2>2, <2>3 DEF Books
<1>7. QED BY <1>2, <1>3, <1>4, <1>5, <1>6 DEF Next

\* is_authenticated (SignalingClient) is true of a socket that the server accepted:
\* no answer of an earlier socket, read late, is taken for it; and a session comes
\* online (_start_session) only after a socket of its own was accepted.
THEOREM OnlyTheAcceptedAreAuthenticated == Spec => []AuthenticatedIsAccepted
BY InitBooks, NextBooks, BooksAuthenticate, PTL DEF Spec

-----------------------------------------------------------------------------
(* No socket is left behind *)

LeftInv == TypeInv /\ NoSocketIsLeft

LEMMA HeldType ==
  ASSUME LeftInv, NEW s \in DOMAIN sockets
  PROVE  /\ sockets[s] \in Socket /\ sockets[s].client \in Client /\ s # NoSocket
         /\ sockets[s].open => Held(sockets[s].client) = s
<1>1. sockets \in Seq(Socket)
  BY DEF LeftInv, TypeInv, IInv, SocketInv
<1>2. sockets[s] \in Socket /\ s # 0
  BY <1>1
<1>3. sockets[s].client \in Client
  BY <1>2 DEF Socket
<1>4. QED BY <1>2, <1>3 DEF LeftInv, NoSocketIsLeft, NoSocket

\* A step after which whatever is open was open, and is held by its client still.
LEMMA NoneOpened ==
  ASSUME LeftInv,
         \A s \in DOMAIN sockets' :
           sockets'[s].open =>
             /\ s \in DOMAIN sockets /\ sockets[s].open
             /\ sockets'[s].client = sockets[s].client
             /\ \A d \in Client : Held(d) = s => Held(d)' = s
  PROVE  NoSocketIsLeft'
<1>1. ASSUME NEW s \in DOMAIN sockets', sockets'[s].open
      PROVE  \E d \in Client : sockets'[s].client = d /\ Held(d)' = s
  BY <1>1, HeldType
<1>2. QED BY <1>1 DEF NoSocketIsLeft, Held

\* What is open after the socket that a client held was closed.
LEMMA HeldCloses ==
  ASSUME LeftInv, NEW c \in Client, sockets' = ClosedSockets(Held(c)),
         \A d \in Client \ {c} : Held(d)' = Held(d)
  PROVE  NoSocketIsLeft'
<1>1. ASSUME NEW s \in DOMAIN sockets', sockets'[s].open
      PROVE  /\ s \in DOMAIN sockets /\ sockets[s].open /\ s # Held(c)
             /\ sockets'[s].client = sockets[s].client
  <2>1. CASE Held(c) = NoSocket
    <3>1. sockets' = sockets
      BY <2>1 DEF ClosedSockets
    <3>2. QED BY <1>1, <2>1, <3>1, HeldType
  <2>2. CASE Held(c) # NoSocket
    <3>1. sockets' = [sockets EXCEPT ![Held(c)].open = FALSE]
      BY <2>2 DEF ClosedSockets
    <3>2. s \in DOMAIN sockets
      BY <3>1
    <3>3. sockets[s] \in Socket
      BY <3>2, HeldType
    <3>4. s # Held(c)
      <4>1. SUFFICES ASSUME s = Held(c) PROVE FALSE
        OBVIOUS
      <4>2. sockets'[s] = [sockets[s] EXCEPT !.open = FALSE]
        BY <3>1, <3>2, <4>1
      <4>3. QED BY <1>1, <3>3, <4>2 DEF Socket
    <3>5. QED BY <1>1, <3>1, <3>2, <3>4
  <2>3. QED BY <2>1, <2>2
<1>2. ASSUME NEW s \in DOMAIN sockets', sockets'[s].open
      PROVE  \A d \in Client : Held(d) = s => Held(d)' = s
  BY <1>1, <1>2
<1>3. QED BY <1>1, <1>2, NoneOpened

\* The next socket is opened when none is, and held from then on.
LEMMA OpenedLeaves == ASSUME LeftInv, NEW c \in Client, Opened(c) PROVE NoSocketIsLeft'
<1>1. sockets \in Seq(Socket)
  BY DEF LeftInv, TypeInv, IInv, SocketInv
<1>2. PICK x : x.client = c /\ sockets' = Append(sockets, x)
  BY DEF Opened
<1>3. /\ manager[c] = "opening" /\ manager'[c] = "auth" /\ latest'[c] = Len(sockets) + 1
      /\ \A d \in Client \ {c} : manager'[d] = manager[d] /\ latest'[d] = latest[d]
  BY DEF Opened, LeftInv, TypeInv, IInv, ClientInv, ClientsTyped
<1>4. /\ Held(c) = NoSocket /\ Held(c)' = Len(sockets) + 1
      /\ \A d \in Client \ {c} : Held(d)' = Held(d)
  BY <1>3 DEF Held
<1>5. ASSUME NEW s \in DOMAIN sockets', sockets'[s].open
      PROVE  \E d \in Client : sockets'[s].client = d /\ Held(d)' = s
  <2>1. CASE s = Len(sockets) + 1
    <3>1. sockets'[s] = x
      BY <1>1, <1>2, <2>1
    <3>2. sockets'[s].client = c /\ Held(c)' = s
      BY <1>2, <1>4, <2>1, <3>1
    <3>3. QED BY <3>2
  <2>2. CASE s # Len(sockets) + 1
    <3>1. s \in DOMAIN sockets /\ sockets'[s] = sockets[s]
      BY <1>1, <1>2, <2>2
    <3>2. PICK d \in Client : d = sockets[s].client /\ Held(d) = s /\ s # NoSocket
      BY <1>5, <3>1, HeldType
    <3>3. d # c
      BY <1>4, <3>2
    <3>4. Held(d)' = s
      BY <1>4, <3>2, <3>3
    <3>5. QED BY <3>1, <3>2, <3>4
  <2>3. QED BY <2>1, <2>2
<1>6. QED BY <1>5 DEF NoSocketIsLeft, Held

LEMMA ManagerLeaves == ASSUME LeftInv, NEW c \in Client, Manager(c) PROVE NoSocketIsLeft'
<1>1. TypeInv
  BY DEF LeftInv
<1>2. CASE Retry(c) \/ Stop(c)
  <2>1. PICK p \in {"due", "done"} : manager' = [manager EXCEPT ![c] = p]
    BY <1>1, <1>2, Released
  <2>2. sockets' = ClosedSockets(Held(c)) /\ latest' = latest
    BY <1>1, <1>2, Released
  <2>3. \A d \in Client \ {c} : Held(d)' = Held(d)
    BY <2>1, <2>2 DEF Held
  <2>4. QED BY <2>2, <2>3, HeldCloses
<1>3. CASE Opened(c)
  BY <1>3, OpenedLeaves
<1>4. ASSUME NEW p, NEW q, manager[c] = p, manager' = [manager EXCEPT ![c] = q],
             <<p, q>> \in {<<"due", "opening">>, <<"auth", "up">>},
             UNCHANGED <<sockets, latest>>
      PROVE  NoSocketIsLeft'
  <2>1. \A d \in Client : Held(d)' = Held(d)
    BY <1>1, <1>4 DEF Held, TypeInv, IInv, ClientInv
  <2>2. QED BY <1>4, <2>1, HeldType, NoneOpened
<1>5. CASE Wake(c)
  BY <1>2, <1>4, <1>5 DEF Wake
<1>6. CASE AuthAccepted(c)
  BY <1>4, <1>6 DEF AuthAccepted
<1>7. QED BY <1>2, <1>3, <1>5, <1>6
  DEF Manager, OpenFails, OpenedInVain, AuthTimeout, AuthRefused, Lost

\* disconnect() closes the client's socket twice: as _ws, and as the manager's.
LEMMA DisconnectLeaves ==
  ASSUME LeftInv, NEW c \in Client, BeginDisconnect(c) \/ EndDisconnect(c)
  PROVE  NoSocketIsLeft'
<1>1. CASE BeginDisconnect(c)
  <2>1. \A d \in Client : Held(d)' = Held(d)
    BY <1>1 DEF BeginDisconnect, Held
  <2>2. QED BY <1>1, <2>1, HeldCloses DEF BeginDisconnect
<1>2. CASE EndDisconnect(c)
  <2>1. latest' = latest /\ \A d \in Client \ {c} : manager'[d] = manager[d]
    BY <1>2 DEF EndDisconnect, Ends, LeftInv, TypeInv, IInv, ClientInv
  <2>2. \A d \in Client \ {c} : Held(d)' = Held(d)
    BY <2>1 DEF Held
  <2>3. ASSUME NEW s \in DOMAIN sockets', sockets'[s].open
        PROVE  /\ s \in DOMAIN sockets /\ sockets[s].open
               /\ sockets'[s].client = sockets[s].client
               /\ latest[c] = NoSocket \/ s # latest[c]
    <3>1. CASE latest[c] = NoSocket
      BY <1>2, <2>3, <3>1 DEF EndDisconnect
    <3>2. CASE latest[c] # NoSocket
      <4>1. sockets' = [sockets EXCEPT ![latest[c]].open = FALSE, ![latest[c]].inbox = <<>>]
        BY <1>2, <3>2 DEF EndDisconnect
      <4>2. s \in DOMAIN sockets /\ sockets[s] \in Socket
        BY <4>1, HeldType
      <4>3. s # latest[c]
        <5>1. SUFFICES ASSUME s = latest[c] PROVE FALSE
          OBVIOUS
        <5>2. sockets'[s] = [[sockets[s] EXCEPT !.open = FALSE] EXCEPT !.inbox = <<>>]
          BY <4>1, <4>2, <5>1
        <5>3. QED BY <2>3, <4>2, <5>2 DEF Socket
      <4>4. QED BY <2>3, <4>1, <4>2, <4>3
    <3>3. QED BY <3>1, <3>2
  <2>4. ASSUME NEW s \in DOMAIN sockets', sockets'[s].open
        PROVE  \A d \in Client : Held(d) = s => Held(d)' = s
    <3>1. Held(c) # s
      BY <2>3, <2>4, HeldType DEF Held
    <3>2. QED BY <2>2, <3>1
  <2>5. QED BY <2>3, <2>4, NoneOpened
<1>3. QED BY <1>1, <1>2

\* What a receiver, the server and the network do opens no socket.
LEMMA NetworkLeaves ==
  ASSUME LeftInv, NEW r \in DOMAIN sockets, Connection(r) \/ Receive(r)
  PROVE  NoSocketIsLeft'
<1>1. UNCHANGED <<manager, latest>>
  BY DEF Connection, Accept, Refuse, RequestFails, Drop, Receive, clientVars
<1>2. \A d : Held(d)' = Held(d)
  BY <1>1 DEF Held
<1>3. \/ \E q : sockets' = [sockets EXCEPT ![r].inbox = q]
      \/ \E k, q : sockets' = [sockets EXCEPT ![r].stage = k, ![r].inbox = q]
      \/ sockets' = [sockets EXCEPT ![r].open = FALSE]
  BY DEF Connection, Accept, Refuse, RequestFails, Drop, Receive
<1>4. sockets[r] \in Socket
  BY HeldType
<1>5. ASSUME NEW s \in DOMAIN sockets', sockets'[s].open
      PROVE  /\ s \in DOMAIN sockets /\ sockets[s].open
             /\ sockets'[s].client = sockets[s].client
  <2>1. CASE s # r
    BY <1>3, <1>5, <2>1
  <2>2. CASE s = r
    <3>1. CASE \E q : sockets' = [sockets EXCEPT ![r].inbox = q]
      BY <1>4, <1>5, <2>2, <3>1 DEF Socket
    <3>2. CASE sockets' = [sockets EXCEPT ![r].open = FALSE]
      BY <1>4, <1>5, <2>2, <3>2 DEF Socket
    <3>3. CASE \E k, q : sockets' = [sockets EXCEPT ![r].stage = k, ![r].inbox = q]
      <4>1. PICK k, q : sockets' = [sockets EXCEPT ![r].stage = k, ![r].inbox = q]
        BY <3>3
      <4>2. sockets'[r] = [[sockets[r] EXCEPT !.stage = k] EXCEPT !.inbox = q]
        BY <4>1
      <4>3. QED BY <1>4, <1>5, <2>2, <4>2 DEF Socket
    <3>4. QED BY <1>3, <3>1, <3>2, <3>3
  <2>3. QED BY <2>1, <2>2
<1>6. QED BY <1>2, <1>5, NoneOpened

LEMMA NextLeaves == LeftInv /\ [Next]_vars => LeftInv'
<1> SUFFICES ASSUME LeftInv, [Next]_vars PROVE NoSocketIsLeft'
  BY NextTyped DEF LeftInv
<1>1. TypeInv
  BY DEF LeftInv
<1>2. ASSUME UNCHANGED <<sockets, manager, latest>> PROVE NoSocketIsLeft'
  BY <1>2 DEF LeftInv, NoSocketIsLeft, Held
<1>3. CASE \/ Start \/ Logout \/ ConnectWakes \/ ConnectFails \/ GoesOnline \/ Expire
           \/ UNCHANGED vars \/ \E u \in User : SignIn(u)
  BY <1>2, <1>3 DEF Start, Logout, ConnectWakes, ConnectFails, GoesOnline, Expire, SignIn,
                    vars, signaling, clientVars
<1>4. CASE Exit \/ \E u \in User : ExitDuringSignIn(u)
  <2>1. sockets' = <<>>
    BY <1>4 DEF Exit, ExitDuringSignIn, Dies
  <2>2. QED BY <2>1 DEF NoSocketIsLeft
<1>5. CASE StartSession
  <2>1. /\ manager[session] = "none" /\ manager' = [manager EXCEPT ![session] = "due"]
        /\ UNCHANGED <<latest, sockets>>
    BY <1>5 DEF StartSession, Connect
  <2>2. \A d \in Client : Held(d)' = Held(d)
    BY <1>1, <2>1 DEF Held, TypeInv, IInv, ClientInv
  <2>3. QED BY <2>1, <2>2, HeldType, NoneOpened
<1>6. CASE \E c \in Client : Manager(c)
  BY <1>6, ManagerLeaves
<1>7. CASE Network
  BY <1>7, NetworkLeaves, DisconnectLeaves DEF Network
<1>8. QED BY <1>3, <1>4, <1>5, <1>6, <1>7 DEF Next

\* An open socket is the one its manager works with (_connection_manager and
\* disconnect), so however an attempt ended its connection is closed.
THEOREM NoneIsLeft == Spec => []NoSocketIsLeft
<1>1. Init => LeftInv
  BY InitTyped DEF LeftInv, NoSocketIsLeft, Init, SignalingInit
<1>2. LeftInv => NoSocketIsLeft
  BY DEF LeftInv
<1>3. QED BY <1>1, <1>2, NextLeaves, PTL DEF Spec

=============================================================================
