------------------------------ MODULE Session -------------------------------
(***************************************************************************)
(* The session of the user who is signed in on this machine:               *)
(* client/main.py (AppController) over client/core/auth.py (AuthManager)   *)
(* and client/security/keys.py (KeyManager).  A session is opened by a     *)
(* sign-in, or at start by the token of an earlier one; it has a           *)
(* SignalingClient (Signaling) and the unlocked keys of its user.          *)
(*                                                                         *)
(* Closing a session disconnects its client only if it has a socket right  *)
(* then.  A client between two sockets keeps its manager, which goes on to *)
(* connect with whatever token AuthManager has by then: it is stray.       *)
(***************************************************************************)
EXTENDS Signaling

CONSTANTS
  User,                 \* the users who sign in on this machine
  MaxTokens             \* bound: how many access tokens are issued

ASSUME MaxTokensAssumption == MaxTokens \in Nat

NoUser == "none"
ASSUME UserAssumption == NoUser \notin User
ASSUME ClientAssumption == Client \subseteq Nat \ {0}

VARIABLES
  issued,               \* issued[t]: whose token t is
  file,                 \* the token in auth.json
  rows,                 \* the users in the table users_local
  keyed,                \* the users with a key pair in the table key_pairs
  window,               \* "login", "main", or "down": the program does not run
  session,              \* AppController.signaling, 0 for none
  userOf,               \* userOf[c]: the current_user_id of c's session
  unlocked,             \* whose private key is in memory
  task,                 \* _session_task
  left,                 \* whether rows is of users who did not log out
  stray                 \* stray[c]: c is no longer, or never was, its user's alone

sessionVars == <<issued, file, rows, keyed, window, session, userOf, unlocked,
                 task, left, stray>>
vars == <<token, expired, signaling, sessionVars>>

NoSession == 0
Task == {"none", "soon", "connect", "woken", "ready", "failed"}

TypeOK ==
  /\ SignalingTypeOK
  /\ issued \in Seq(User) /\ Len(issued) <= MaxTokens
  /\ token \in 0..Len(issued) /\ file \in 0..Len(issued)
  /\ rows \subseteq User /\ keyed \subseteq User
  /\ window \in {"login", "main", "down"}
  /\ unlocked \in User \cup {NoUser}
  /\ session \in Client \cup {NoSession}
  /\ userOf \in [Client -> User \cup {NoUser}]
  /\ task \in Task
  /\ left \in BOOLEAN /\ stray \in [Client -> BOOLEAN]
  /\ window = "main" <=> session # NoSession

Init ==
  /\ SignalingInit
  /\ issued = <<>> /\ file = NoToken
  /\ rows = {} /\ keyed = {}
  /\ window = "down"
  /\ session = NoSession /\ userOf = [c \in Client |-> NoUser]
  /\ unlocked = NoUser /\ task = "none"
  /\ left = FALSE /\ stray = [c \in Client |-> FALSE]

-----------------------------------------------------------------------------
(* Opening a session *)

\* The next SignalingClient; there is none beyond the bound.
Fresh(c) == userOf[c] = NoUser /\ \A d \in Client : d < c => userOf[d] # NoUser

\* _open_main_window for u, up to the timer that starts the session.
OpenMainWindow(c, u, other) ==
  /\ Fresh(c)
  /\ session' = c /\ userOf' = [userOf EXCEPT ![c] = u]
  /\ stray' = [stray EXCEPT ![c] = other]
  /\ window' = "main" /\ task' = "soon"

\* ensure_keys and unlock: only with a password.
Unlock(u) == keyed' = keyed \cup {u} /\ unlocked' = u

\* The tokens in memory and in auth.json.
LoadTokens == token' = file /\ UNCHANGED file
SaveTokens(t) == token' = t /\ file' = t
ClearTokens == SaveTokens(NoToken)

\* The table of the local users: a row is added, any row is the current user,
\* and all of them are cleared.
SaveUser(u) == rows' = rows \cup {u}
IsCurrent(u) == u \in rows
ClearCurrent == rows' = {} /\ left' = FALSE

\* AuthManager.logout.
ForgetUser == ClearTokens /\ ClearCurrent

\* The server takes a login and answers with a token.
Grant(u) == Len(issued) < MaxTokens /\ issued' = Append(issued, u)

\* The program starts: AuthManager._load_tokens, then AppController.start.
Start ==
  /\ window = "down"
  /\ \/ \* the token is still good: the user is any one of the table
        /\ file # NoToken /\ file \notin expired
        /\ LoadTokens
        /\ \E c \in Client, u \in User : IsCurrent(u) /\ OpenMainWindow(c, u, left)
        /\ UNCHANGED <<rows, left>>
     \/ \* it is good, but there is no user
        /\ file # NoToken /\ file \notin expired /\ rows = {}
        /\ ForgetUser /\ window' = "login"
        /\ UNCHANGED <<session, userOf, stray, task>>
     \/ \* is_authenticated is false
        /\ file = NoToken \/ file \in expired
        /\ LoadTokens /\ window' = "login" /\ left' = (rows # {})
        /\ UNCHANGED <<rows, session, userOf, stray, task>>
  /\ UNCHANGED <<expired, signaling, issued, keyed, unlocked>>

\* do_login or do_register, when the server takes it; nothing happens otherwise,
\* and nobody else uses the AuthManager while they wait.  The tokens are saved,
\* then the user is inserted.  A disconnect scheduled before has begun by now.
SignIn(u) ==
  /\ window = "login"
  /\ \A c \in Client : ending[c] # "scheduled"
  /\ Grant(u) /\ SaveTokens(Len(issued'))
  /\ \/ /\ ~IsCurrent(u)
        /\ SaveUser(u)
        /\ \E c \in Client : OpenMainWindow(c, u, FALSE)
        /\ Unlock(u)
     \/ \* the row is still there: IntegrityError, and the login window stays
        /\ IsCurrent(u)
        /\ UNCHANGED <<rows, keyed, window, session, userOf, unlocked, task, stray>>
  /\ UNCHANGED <<expired, signaling, left>>

-----------------------------------------------------------------------------
(* Closing it *)

CloseWithoutDisconnect ==           \* a bug: the client is forgotten
  /\ session' = NoSession /\ unlocked' = NoUser /\ task' = "none"
  /\ UNCHANGED <<ending, stray>>

\* _close_session: the session task is cancelled, the keys are locked.
CloseSession ==
  /\ session' = NoSession /\ unlocked' = NoUser /\ task' = "none"
  /\ \/ /\ MayBeConnected(session)
        /\ ending' = [ending EXCEPT ![session] = "scheduled"]
        /\ UNCHANGED stray
     \/ /\ ~IsConnected(session)       \* a closed socket may count as none
        /\ stray' = [stray EXCEPT ![session] = TRUE]
        /\ UNCHANGED ending

Logout ==
  /\ window = "main"
  /\ CloseSession
  /\ ForgetUser
  /\ window' = "login"
  /\ UNCHANGED <<expired, clientVars, sockets, errors, issued, keyed, userOf>>

\* Memory, tasks and sockets are gone; the tables and auth.json stay.
Dies ==
  /\ window # "down"
  /\ window' = "down" /\ token' = NoToken
  /\ session' = NoSession /\ unlocked' = NoUser /\ task' = "none"
  /\ manager' = [c \in Client |-> IF manager[c] = "none" THEN "none" ELSE "done"]
  /\ attempt' = [c \in Client |-> 0] /\ carried' = [c \in Client |-> NoToken]
  /\ connected' = [c \in Client |-> FALSE]
  /\ authenticated' = [c \in Client |-> FALSE] /\ authError' = [c \in Client |-> FALSE]
  /\ ending' = [c \in Client |-> "none"]
  /\ sockets' = <<>> /\ latest' = [c \in Client |-> NoSocket]
  /\ UNCHANGED <<expired, errors, rows, keyed, userOf, left, stray>>

\* The window is closed, "Sair" in the tray, or a crash.
Exit == Dies /\ UNCHANGED <<issued, file>>

\* A crash after the tokens of a sign-in were saved and before the user was.
ExitDuringSignIn(u) ==
  /\ window = "login"
  /\ Grant(u) /\ file' = Len(issued')
  /\ Dies

-----------------------------------------------------------------------------
(* _start_session *)

TaskMoves(to) ==
  /\ task' = to
  /\ UNCHANGED <<token, expired, issued, file, rows, keyed, window, session,
                 userOf, unlocked, left, stray>>

StartSession ==
  /\ task = "soon"
  /\ Connect(session)
  /\ UNCHANGED <<ending, sockets, errors>>
  /\ TaskMoves("connect")

\* _wait_for_connection sees _connected, or the end of the manager.
ConnectWakes ==
  /\ task = "connect" /\ connected[session]
  /\ UNCHANGED signaling /\ TaskMoves("woken")

ConnectFails ==
  /\ task = "connect" /\ manager[session] = "done" /\ ~connected[session]
  /\ UNCHANGED signaling /\ TaskMoves("failed")

\* connect() looks again, and set_status("online") must reach the server.
GoesOnline ==
  /\ task = "woken"
  /\ UNCHANGED signaling
  /\ \/ CanSend(session) /\ TaskMoves("ready")
     \/ ~CanSend(session) /\ TaskMoves("failed")

-----------------------------------------------------------------------------

\* How old a token is matters as long as it is kept in the file.
Expire ==
  /\ file # NoToken /\ file \notin expired
  /\ expired' = expired \cup {file}
  /\ UNCHANGED <<token, signaling, sessionVars>>

Network ==
  \/ \E s \in DOMAIN sockets : Connection(s) \/ Receive(s)
  \/ \E c \in Client : BeginDisconnect(c) \/ EndDisconnect(c)

Next ==
  \/ Start \/ Logout \/ Exit
  \/ \E u \in User : SignIn(u) \/ ExitDuringSignIn(u)
  \/ StartSession \/ ConnectWakes \/ ConnectFails \/ GoesOnline
  \/ Expire
  \/ \E c \in Client : Manager(c) /\ UNCHANGED <<token, expired, sessionVars>>
  \/ Network /\ UNCHANGED <<token, expired, sessionVars>>

\* Only the manager is fair: its waits for the network all time out.
Fairness == \A c \in Client : WF_vars(Manager(c) /\ UNCHANGED <<token, expired, sessionVars>>)

Spec == Init /\ [][Next]_vars /\ Fairness

-----------------------------------------------------------------------------
(* Properties *)

\* One identity: every socket of a client carries a token of the user whose
\* session made it, and only the user of the open session has a key in memory.
\* Excused are a client left between two sockets by _close_session, and a
\* session that start() opened on a table where somebody did not log out.
OneIdentity ==
  /\ \A s \in DOMAIN sockets :
       stray[sockets[s].client] \/ issued[sockets[s].token] = userOf[sockets[s].client]
  /\ unlocked # NoUser => session # NoSession /\ userOf[session] = unlocked

\* is_authenticated means that the server accepted this very socket, unless a
\* late error of the socket before it has just spoilt the attempt, and a session
\* that came online had a socket accepted.
AuthenticatedIsAccepted ==
  /\ \A c \in Client :
       MayBeAuthenticated(c) /\ ~authError[c] => sockets[WebSocket(c)].stage = "accepted"
  /\ task = "ready" =>
       \E s \in DOMAIN sockets : sockets[s].client = session /\ sockets[s].stage = "accepted"

\* No connection is left behind: an open socket is the one that its client's
\* manager works with.  However an attempt ended, by a refusal, a timeout, a loss
\* or by disconnect() in any of its waits, the server sees it close.
NoSocketIsLeft ==
  \A s \in DOMAIN sockets : sockets[s].open => Held(sockets[s].client) = s

\* A client that is not up comes up again or gives up: the attempts in between
\* are bounded, and so is each of their waits.
LossIsSettled ==
  \A c \in Client : manager[c] \in {"due", "opening", "auth"} ~> manager[c] \in {"up", "done"}
=============================================================================
