----------------------------- MODULE Signaling ------------------------------
(***************************************************************************)
(* client/network/signaling_client.py: a SignalingClient keeps one         *)
(* authenticated WebSocket to the server.  Its manager task opens a        *)
(* socket, sends the token, waits for the answer, and opens another one    *)
(* when the socket is lost.  Each socket has a receiver task, which the    *)
(* manager does not cancel: it may still be at work when the next socket   *)
(* is open.  The module has the client's variables and steps; Session      *)
(* composes them with the user's session, which makes the clients.         *)
(***************************************************************************)
EXTENDS Integers, Sequences

CONSTANTS
  Client,               \* the SignalingClients, one for each session opened
  MaxAttempts,          \* max_reconnect_attempts, 10 in the code
  MaxSockets,           \* bound: how many sockets are ever opened
  MaxErrors             \* bound: errors of the server other than for an old token

ASSUME MaxAttemptsAssumption == MaxAttempts \in Nat
ASSUME MaxSocketsAssumption == MaxSockets \in Nat
ASSUME MaxErrorsAssumption == MaxErrors \in Nat

VARIABLES
  token,                \* AuthManager._token, read at every attempt
  expired,              \* the tokens past their 15 minutes
  manager,              \* manager[c]: where c's manager task is
  attempt,              \* its reconnect_attempt, gone with the task
  carried,              \* the token it resolved for the socket it opens
  latest,               \* latest[c]: the socket of _receiver_task
  connected,            \* _connected
  authenticated,        \* _authenticated: an answer came, even a refusal
  authError,            \* whether _auth_error is set
  ending,               \* how far disconnect() has come
  sockets,              \* every socket the program opened, in order
  errors                \* see MaxErrors

clientVars == <<manager, attempt, carried, latest, connected, authenticated, authError>>
signaling  == <<clientVars, ending, sockets, errors>>

NoToken  == 0
NoSocket == 0

\* "none": before connect().  "due": at the head of the loop, for the first
\* time or after a delay.  "opening": in _open_connection.  "auth": waits at
\* most 10 s for an answer.  "up": waits for the receiver or the heartbeat.
Phase  == {"none", "due", "opening", "auth", "up", "done"}
Ending == {"none", "scheduled", "begun", "ended"}

Socket == [client : Client, token : Nat, stage : {"asked", "accepted", "refused"},
           open : BOOLEAN, inbox : Seq({"auth_ok", "error"})]

SignalingTypeOK ==
  /\ token \in Nat /\ expired \subseteq Nat
  /\ manager \in [Client -> Phase]
  /\ attempt \in [Client -> 0..MaxAttempts]
  /\ carried \in [Client -> Nat]
  /\ latest \in [Client -> 0..Len(sockets)]
  /\ connected \in [Client -> BOOLEAN]
  /\ authenticated \in [Client -> BOOLEAN]
  /\ authError \in [Client -> BOOLEAN]
  /\ ending \in [Client -> Ending]
  /\ sockets \in Seq(Socket) /\ Len(sockets) <= MaxSockets
  /\ errors \in 0..MaxErrors
  /\ \A c \in Client : manager[c] \in {"auth", "up"} => latest[c] # NoSocket

SignalingInit ==
  /\ token = NoToken /\ expired = {}
  /\ manager = [c \in Client |-> "none"]
  /\ attempt = [c \in Client |-> 0]
  /\ carried = [c \in Client |-> NoToken]
  /\ latest = [c \in Client |-> NoSocket]
  /\ connected = [c \in Client |-> FALSE]
  /\ authenticated = [c \in Client |-> FALSE]
  /\ authError = [c \in Client |-> FALSE]
  /\ ending = [c \in Client |-> "none"]
  /\ sockets = <<>>
  /\ errors = 0

-----------------------------------------------------------------------------
(* What others see of a client *)

\* _stopping, which disconnect() sets.
Stopping(c) == ending[c] \in {"begun", "ended"}

\* The manager's ws, and _ws: disconnect() takes the latter away.
Held(c)      == IF manager[c] \in {"auth", "up"} THEN latest[c] ELSE NoSocket
WebSocket(c) == IF ending[c] \in {"begun", "ended"} THEN NoSocket ELSE Held(c)

\* is_connected: sure of an open socket.  Of a closed one it depends on the
\* release of websockets: without .closed and .open the socket counts as open.
IsConnected(c)    == WebSocket(c) # NoSocket /\ sockets[WebSocket(c)].open
MayBeConnected(c) == WebSocket(c) # NoSocket

\* is_authenticated, and whether send() reaches the socket: it raises otherwise.
MayBeAuthenticated(c) == authenticated[c] /\ MayBeConnected(c)
CanSend(c)            == authenticated[c] /\ IsConnected(c)

-----------------------------------------------------------------------------
(* The manager *)

\* connect(), up to its first await.
Connect(c) ==
  /\ manager[c] = "none"
  /\ manager' = [manager EXCEPT ![c] = "due"]
  /\ UNCHANGED <<attempt, carried, latest, connected, authenticated, authError>>

\* The sockets with one of them closed.
ClosedSockets(s) == IF s = NoSocket THEN sockets ELSE [sockets EXCEPT ![s].open = FALSE]

ReleaseConnectedOnly(c) ==          \* a bug: _authenticated survives its socket
  /\ connected' = [connected EXCEPT ![c] = FALSE]
  /\ sockets' = ClosedSockets(Held(c))
  /\ UNCHANGED authenticated

ReleaseLeavingIt(c) ==              \* a bug: the socket is not closed
  /\ connected' = [connected EXCEPT ![c] = FALSE]
  /\ authenticated' = [authenticated EXCEPT ![c] = FALSE]
  /\ UNCHANGED sockets

\* The finally of an attempt.
Release(c) ==
  /\ connected' = [connected EXCEPT ![c] = FALSE]
  /\ authenticated' = [authenticated EXCEPT ![c] = FALSE]
  /\ sockets' = ClosedSockets(Held(c))

Ends(c) ==
  /\ manager' = [manager EXCEPT ![c] = "done"]
  /\ attempt' = [attempt EXCEPT ![c] = 0]

BackOffOnceMore(c) ==               \* a bug: one attempt too many
  \/ attempt[c] > MaxAttempts /\ Ends(c)
  \/ /\ attempt[c] <= MaxAttempts
     /\ manager' = [manager EXCEPT ![c] = "due"]
     /\ attempt' = [attempt EXCEPT ![c] = @ + 1]

BackOffForever(c) ==                \* a bug: the attempts are not counted
  /\ manager' = [manager EXCEPT ![c] = IF Stopping(c) THEN "done" ELSE "due"]
  /\ UNCHANGED attempt

\* What follows it: the end, or another attempt after a delay.
BackOff(c) ==
  \/ /\ Stopping(c) \/ attempt[c] >= MaxAttempts
     /\ Ends(c)
  \/ /\ ~Stopping(c) /\ attempt[c] < MaxAttempts
     /\ manager' = [manager EXCEPT ![c] = "due"]
     /\ attempt' = [attempt EXCEPT ![c] = @ + 1]

Forgotten(c) == carried' = [carried EXCEPT ![c] = NoToken]

Stop(c) ==
  /\ Release(c) /\ Ends(c) /\ Forgotten(c)
  /\ UNCHANGED <<latest, authError>>

Retry(c) ==
  /\ Release(c) /\ BackOff(c) /\ Forgotten(c)
  /\ UNCHANGED <<latest, authError>>

\* The head of the loop and _resolve_token: whose token it is does not matter.
Wake(c) ==
  /\ manager[c] = "due"
  /\ \/ Stopping(c) /\ Stop(c)
     \/ ~Stopping(c) /\ token = NoToken /\ Retry(c)
     \/ /\ ~Stopping(c) /\ token # NoToken
        /\ manager' = [manager EXCEPT ![c] = "opening"]
        /\ carried' = [carried EXCEPT ![c] = token]
        /\ UNCHANGED <<attempt, latest, connected, authenticated, authError, sockets>>
  /\ UNCHANGED <<ending, errors>>

OpenFails(c) ==
  /\ manager[c] = "opening"
  /\ Retry(c)
  /\ UNCHANGED <<ending, errors>>

\* The socket is open, its tasks run, and the token is sent.
Opened(c) ==
  /\ manager[c] = "opening" /\ ~Stopping(c)
  /\ Len(sockets) < MaxSockets
  /\ sockets' = Append(sockets, [client |-> c, token |-> carried[c], stage |-> "asked",
                                 open |-> TRUE, inbox |-> <<>>])
  /\ latest' = [latest EXCEPT ![c] = Len(sockets) + 1]
  /\ manager' = [manager EXCEPT ![c] = "auth"]
  /\ Forgotten(c)
  /\ UNCHANGED <<attempt, connected, authenticated, authError, ending, errors>>

\* disconnect() came first, or the token cannot be sent: the end in any case.
OpenedInVain(c) ==
  /\ manager[c] = "opening"
  /\ Stop(c)
  /\ UNCHANGED <<ending, errors>>

AuthTimeout(c) ==
  /\ manager[c] = "auth" /\ ~authenticated[c]
  /\ Stop(c)
  /\ UNCHANGED <<ending, errors>>

AuthRefused(c) ==
  /\ manager[c] = "auth" /\ authenticated[c] /\ authError[c]
  /\ Stop(c)
  /\ UNCHANGED <<ending, errors>>

AuthAccepted(c) ==
  /\ manager[c] = "auth" /\ authenticated[c] /\ ~authError[c]
  /\ manager' = [manager EXCEPT ![c] = "up"]
  /\ attempt' = [attempt EXCEPT ![c] = 0]
  /\ connected' = [connected EXCEPT ![c] = TRUE]
  /\ UNCHANGED <<carried, latest, authenticated, authError, ending, sockets, errors>>

\* _heartbeat_loop wakes up on a closed socket.  It ends for nothing else: the
\* ping of websockets is done when it is sent, and its pong is not waited for.
HeartbeatEnds(c) == ~sockets[latest[c]].open

\* The receiver ends later, or at the same time.
Lost(c) ==
  /\ manager[c] = "up"
  /\ HeartbeatEnds(c)
  /\ Retry(c)
  /\ UNCHANGED <<ending, errors>>

Manager(c) ==
  \/ Wake(c) \/ Opened(c) \/ OpenFails(c) \/ OpenedInVain(c)
  \/ AuthTimeout(c) \/ AuthRefused(c) \/ AuthAccepted(c) \/ Lost(c)

-----------------------------------------------------------------------------
(* The receiver of a socket: _receive_loop and _handle_message.  It reads on *)
(* after the socket closed, as long as there is something to read.          *)

Receive(s) ==
  LET c == sockets[s].client IN
  /\ sockets[s].inbox # <<>>
  /\ sockets' = [sockets EXCEPT ![s].inbox = Tail(@)]
  /\ \/ /\ Head(sockets[s].inbox) = "auth_ok"
        /\ authError' = [authError EXCEPT ![c] = FALSE]
        /\ authenticated' = [authenticated EXCEPT ![c] = TRUE]
     \/ /\ Head(sockets[s].inbox) = "error" /\ ~authenticated[c]
        /\ authError' = [authError EXCEPT ![c] = TRUE]
        /\ authenticated' = [authenticated EXCEPT ![c] = TRUE]
     \/ /\ Head(sockets[s].inbox) = "error" /\ authenticated[c]
        /\ UNCHANGED <<authError, authenticated>>
  /\ UNCHANGED <<manager, attempt, carried, latest, connected, ending, errors>>

-----------------------------------------------------------------------------
(* disconnect(): a coroutine that main.py schedules *)

\* Up to the await of the socket's close.
BeginDisconnect(c) ==
  /\ ending[c] = "scheduled"
  /\ ending' = [ending EXCEPT ![c] = "begun"]
  /\ connected' = [connected EXCEPT ![c] = FALSE]
  /\ authenticated' = [authenticated EXCEPT ![c] = FALSE]
  /\ authError' = [authError EXCEPT ![c] = FALSE]
  /\ sockets' = ClosedSockets(Held(c))
  /\ UNCHANGED <<manager, attempt, carried, latest, errors>>

\* The receiver and the manager are cancelled; the latter closes what it holds.
EndDisconnect(c) ==
  /\ ending[c] = "begun"
  /\ ending' = [ending EXCEPT ![c] = "ended"]
  /\ Ends(c) /\ Forgotten(c)
  /\ sockets' = IF latest[c] = NoSocket THEN sockets
                ELSE [sockets EXCEPT ![latest[c]].open = FALSE, ![latest[c]].inbox = <<>>]
  /\ connected' = [connected EXCEPT ![c] = FALSE]
  /\ authenticated' = [authenticated EXCEPT ![c] = FALSE]
  /\ UNCHANGED <<latest, authError, errors>>

-----------------------------------------------------------------------------
(* The server and the network *)

Accept(s) ==
  /\ sockets[s].stage = "asked" /\ sockets[s].open
  /\ sockets[s].token \notin expired
  /\ sockets' = [sockets EXCEPT ![s].stage = "accepted", ![s].inbox = Append(@, "auth_ok")]
  /\ UNCHANGED <<clientVars, ending, errors>>

\* The token is too old, or the database fails.  The socket stays open.
Refuse(s) ==
  /\ sockets[s].stage = "asked" /\ sockets[s].open
  /\ \/ sockets[s].token \in expired /\ UNCHANGED errors
     \/ errors < MaxErrors /\ errors' = errors + 1
  /\ sockets' = [sockets EXCEPT ![s].stage = "refused", ![s].inbox = Append(@, "error")]
  /\ UNCHANGED <<clientVars, ending>>

\* A request that an authenticated client sent could not be served.
RequestFails(s) ==
  /\ sockets[s].stage = "accepted" /\ sockets[s].open
  /\ errors < MaxErrors /\ errors' = errors + 1
  /\ sockets' = [sockets EXCEPT ![s].inbox = Append(@, "error")]
  /\ UNCHANGED <<clientVars, ending>>

Drop(s) ==
  /\ sockets[s].open
  /\ sockets' = [sockets EXCEPT ![s].open = FALSE]
  /\ UNCHANGED <<clientVars, ending, errors>>

Connection(s) == Accept(s) \/ Refuse(s) \/ RequestFails(s) \/ Drop(s)
=============================================================================
