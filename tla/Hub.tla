-------------------------------- MODULE Hub ---------------------------------
(***************************************************************************)
(* The signaling server's sockets: server/src/websocket/handler.js,        *)
(* presence.js and signaling.js.                                           *)
(*                                                                         *)
(* Node runs one callback at a time; a handler is cut where it awaits the  *)
(* database.  The handlers of a socket run one after another, also after   *)
(* it has closed; those of several sockets, and what a closing socket      *)
(* sets off, overlap.  Friendships do not change here: module Friends.     *)
(***************************************************************************)
EXTENDS Integers, Sequences

CONSTANTS
  User, Socket,
  Owner,                \* whose token a socket authenticates with
  Befriended,           \* friendships, both ways round
  Status,               \* VALID_STATUSES
  Identified,           \* the sockets that have an id; src/ gives none of them one
  MaxQueued,            \* MAX_QUEUED_EVENTS
  MaxEvents             \* bound: what clients send, plus what goes wrong

ASSUME OwnerAssumption == Owner \in [Socket -> User]
ASSUME BefriendedAssumption == Befriended \subseteq User \X User
ASSUME StatusAssumption == {"online", "offline"} \subseteq Status
ASSUME IdentifiedAssumption == Identified \subseteq Socket
ASSUME BoundAssumption == MaxQueued \in Nat /\ MaxEvents \in Nat

VARIABLES
  sock,                 \* a connection, see TypeOK
  inbound, step,        \* klyvochatMessageChain, and how far its first message is
  claimed,              \* the sockets with a klyvochatUserId
  registry,             \* socketRegistry
  connections, status,  \* connectionsByUser, statusByUser
  leaving,              \* closed sockets whose friends are being told
  queue,                \* offlineEventQueue
  ready,                \* the sockets that were sent auth_ok
  told, heard,          \* what a client got: relayed or late; statuses since auth_ok
  unsure,               \* whose broadcasts overlapped, or failed
  events                \* see MaxEvents

tracking == <<registry, connections>>
clients  == <<ready, told, heard>>
vars     == <<sock, inbound, step, claimed, tracking, status, leaving, queue, clients,
              unsure, events>>

Message == [type : {"auth"}] \cup [type : {"status"}, status : Status]
           \cup [type : {"relay"}, to : User, n : 1..MaxEvents]
Event   == [type : {"presence"}, from : User, status : Status]
           \cup [type : {"relay"}, from : Socket, n : 1..MaxEvents]
Told    == [event : Event, late : BOOLEAN]

\* "silent": the client has not sent its token.  "broken": the client is gone
\* and the server does not know.  "closing": readyState is no longer OPEN, but
\* the close event has not come.
State == {"new", "silent", "open", "broken", "closing", "closed"}

\* What a handler awaits: the user, the friends to announce to, the friends and
\* requests of auth_ok, the friends of a new status, the friendship of a relay.
Stage == {"idle", "user", "announce", "friends", "broadcast", "check"}

TypeOK ==
  /\ sock \in [Socket -> State]
  /\ inbound \in [Socket -> Seq(Message)]
  /\ step \in [Socket -> Stage]
  /\ claimed \in SUBSET Socket /\ registry \in SUBSET Socket
  /\ connections \in [User -> SUBSET Socket]
  /\ status \in [User -> Status]
  /\ leaving \in SUBSET Socket
  /\ queue \in [User -> Seq(Event)] /\ \A v \in User : Len(queue[v]) <= MaxQueued
  /\ ready \in SUBSET Socket
  /\ told \in [Socket -> Seq(Told)]
  /\ heard \in [Socket -> [User -> Status \cup {"nothing"}]]
  /\ unsure \in [User -> BOOLEAN]
  /\ events \in 0..MaxEvents

NothingHeard == [v \in User |-> "nothing"]

Init ==
  /\ sock = [s \in Socket |-> "new"]
  /\ inbound = [s \in Socket |-> <<>>] /\ step = [s \in Socket |-> "idle"]
  /\ claimed = {} /\ registry = {}
  /\ connections = [u \in User |-> {}]
  /\ status = [u \in User |-> "offline"]
  /\ leaving = {}
  /\ queue = [u \in User |-> <<>>]
  /\ ready = {}
  /\ told = [s \in Socket |-> <<>>] /\ heard = [s \in Socket |-> NothingHeard]
  /\ unsure = [u \in User |-> FALSE]
  /\ events = 0

-----------------------------------------------------------------------------
(* Clients *)

Goes(s, next) == step' = [step EXCEPT ![s] = next]

\* What a client was told ends with its connection.
Becomes(s, state) ==
  /\ sock' = [sock EXCEPT ![s] = state]
  /\ ready' = ready \ {s}
  /\ told' = [told EXCEPT ![s] = <<>>] /\ heard' = [heard EXCEPT ![s] = NothingHeard]
  /\ UNCHANGED <<claimed, tracking, status, leaving, queue, unsure>>

Open(s) == sock[s] = "new" /\ Becomes(s, "silent") /\ UNCHANGED <<inbound, step, events>>

\* The token is the first thing a client sends: authenticateSocket looks the
\* user up.
Authenticate(s) ==
  /\ sock[s] = "silent" /\ Becomes(s, "open")
  /\ inbound' = [inbound EXCEPT ![s] = <<[type |-> "auth"]>>] /\ Goes(s, "user")
  /\ UNCHANGED events

\* SignalingClient.send wants auth_ok first.
Send(s, m) ==
  /\ sock[s] = "open" /\ s \in ready
  /\ events < MaxEvents /\ events' = events + 1
  /\ inbound' = [inbound EXCEPT ![s] = Append(@, m)]
  /\ UNCHANGED <<sock, step, claimed, tracking, status, leaving, queue, clients, unsure>>

SendStatus(s) == \E st \in Status : Send(s, [type |-> "status", status |-> st])

SendRelay(s) ==
  \E v \in User \ {Owner[s]} : Send(s, [type |-> "relay", to |-> v, n |-> events + 1])

Hangup(s) ==
  /\ sock[s] \in {"silent", "open"} /\ Becomes(s, "closing")
  /\ UNCHANGED <<inbound, step, events>>

\* Nothing more is exchanged, and what was sent last may not have arrived.
Break(s) ==
  /\ sock[s] = "open" /\ Becomes(s, "broken")
  /\ events < MaxEvents /\ events' = events + 1
  /\ \E n \in 0..Len(inbound[s]) :
       /\ step[s] # "idle" => n > 0
       /\ inbound' = [inbound EXCEPT ![s] = SubSeq(@, 1, n)]
  /\ UNCHANGED step

-----------------------------------------------------------------------------
(* Telling users: sendToUser, queueEventForUser, broadcastToFriends *)

FriendsOf(u) == {v \in User : <<u, v>> \in Befriended}

\* A socket the server writes to, with a client that reads.
Reached(s) == s \in connections[Owner[s]] \cap registry /\ sock[s] = "open"

EnqueueFront(q, e) ==               \* a bug: unshift for push
  IF Len(q) < MaxQueued THEN <<e>> \o q ELSE q

\* Only the newest MaxQueued are kept.
Enqueue(q, e) ==
  LET all == Append(q, e) IN
  IF Len(all) > MaxQueued THEN SubSeq(all, Len(all) - MaxQueued + 1, Len(all)) ELSE all

Queue(users, e) ==
  queue' = [v \in User |-> IF v \in users /\ connections[v] = {} THEN Enqueue(queue[v], e)
                                                                 ELSE queue[v]]

Broadcast(u, st) ==
  /\ Queue(FriendsOf(u), [type |-> "presence", from |-> u, status |-> st])
  /\ heard' = [s \in Socket |->
       IF Owner[s] \in FriendsOf(u) /\ Reached(s) /\ s \in ready
       THEN [heard[s] EXCEPT ![u] = st] ELSE heard[s]]
  /\ UNCHANGED <<ready, told>>

Relay(s, m) ==
  LET e == [type |-> "relay", from |-> s, n |-> m.n] IN
  /\ Queue({m.to}, e)
  /\ told' = [r \in Socket |->
       IF Owner[r] = m.to /\ Reached(r) THEN Append(told[r], [event |-> e, late |-> FALSE])
                                        ELSE told[r]]
  /\ UNCHANGED <<ready, heard>>

\* A broadcast about u waits for the list of u's friends.
Underway(u) ==
  \E s \in Socket : Owner[s] = u /\ (s \in leaving \/ step[s] \in {"announce", "broadcast"})

\* A broadcast begins, perhaps while another one waits.
Announces(u) == unsure' = [unsure EXCEPT ![u] = @ \/ Underway(u)]

-----------------------------------------------------------------------------
(* handleMessage *)

Is(s, type) == inbound[s] # <<>> /\ Head(inbound[s]).type = type

\* A handler is done, or has failed.
Done(s) == Goes(s, "idle") /\ inbound' = [inbound EXCEPT ![s] = Tail(@)]

\* The user is found: addConnection, which refuses a socket without an id.
AddConnection(s) ==
  LET u == Owner[s] IN
  /\ step[s] = "user"
  /\ claimed' = claimed \cup {s} /\ registry' = registry \cup ({s} \cap Identified)
  /\ connections' = [connections EXCEPT ![u] = @ \cup ({s} \cap Identified)]
  /\ IF s \notin Identified THEN Done(s) /\ UNCHANGED <<status, unsure>>
     ELSE /\ UNCHANGED inbound
          /\ \/ /\ connections[u] # {} /\ Goes(s, "friends")
                /\ UNCHANGED <<status, unsure>>
             \/ /\ connections[u] = {} /\ Goes(s, "announce")
                /\ status' = [status EXCEPT ![u] = "online"] /\ Announces(u)
  /\ UNCHANGED <<sock, leaving, queue, clients, events>>

\* The friends are known: they are told.
Announce(s) ==
  /\ step[s] = "announce" /\ Goes(s, "friends")
  /\ Broadcast(Owner[s], "online")
  /\ UNCHANGED <<sock, inbound, claimed, tracking, status, leaving, unsure, events>>

Late(q) == [k \in DOMAIN q |-> [event |-> q[k], late |-> TRUE]]

DrainedAway(u) == [v \in User \ {u} |-> queue[v]]   \* a bug: nothing to push to
Drained(u) == [queue EXCEPT ![u] = <<>>]

\* Friends and requests are read.  drainQueuedEvents drops what is too old and
\* sends the rest to every socket of the user, then comes auth_ok.
AuthOk(s) ==
  LET u == Owner[s] IN
  /\ step[s] = "friends" /\ Done(s)
  /\ \E old \in 0..Len(queue[u]) :
       told' = [r \in Socket |->
         IF Owner[r] = u /\ Reached(r)
         THEN told[r] \o Late(SubSeq(queue[u], old + 1, Len(queue[u]))) ELSE told[r]]
  /\ queue' = Drained(u)
  /\ ready' = IF sock[s] = "open" THEN ready \cup {s} ELSE ready
  /\ UNCHANGED <<sock, claimed, tracking, status, leaving, heard, unsure, events>>

UpdateStatusUnstored(s) ==          \* a bug: friends are told, the server forgets
  /\ step[s] = "idle" /\ Is(s, "status") /\ Goes(s, "broadcast")
  /\ Announces(Owner[s])
  /\ UNCHANGED <<sock, inbound, claimed, tracking, status, leaving, queue, clients, events>>

\* updateStatus, whether the user is still connected or not.
UpdateStatus(s) ==
  /\ step[s] = "idle" /\ Is(s, "status") /\ Goes(s, "broadcast")
  /\ status' = [status EXCEPT ![Owner[s]] = Head(inbound[s]).status]
  /\ Announces(Owner[s])
  /\ UNCHANGED <<sock, inbound, claimed, tracking, leaving, queue, clients, events>>

StatusUpdated(s) ==
  /\ step[s] = "broadcast" /\ Done(s)
  /\ Broadcast(Owner[s], Head(inbound[s]).status)
  /\ UNCHANGED <<sock, claimed, tracking, status, leaving, unsure, events>>

\* handleSignaling asks whether the two are friends, then relays.
BeginRelay(s) ==
  /\ step[s] = "idle" /\ Is(s, "relay") /\ Goes(s, "check")
  /\ UNCHANGED <<sock, inbound, claimed, tracking, status, leaving, queue, clients, unsure,
                 events>>

Checked(s) ==
  /\ step[s] = "check" /\ Done(s)
  /\ LET m == Head(inbound[s]) IN
       \/ m.to \in FriendsOf(Owner[s]) /\ Relay(s, m)
       \/ m.to \notin FriendsOf(Owner[s]) /\ UNCHANGED <<queue, clients>>
  /\ UNCHANGED <<sock, claimed, tracking, status, leaving, unsure, events>>

\* A query fails; a broadcast that waits for it is not sent.
Fails(s) ==
  /\ events < MaxEvents /\ events' = events + 1
  /\ \/ /\ step[s] \in {"user", "announce", "friends", "broadcast", "check"} /\ Done(s)
        /\ unsure' = [unsure EXCEPT ![Owner[s]] = @ \/ step[s] \in {"announce", "broadcast"}]
        /\ UNCHANGED leaving
     \/ /\ s \in leaving /\ leaving' = leaving \ {s}
        /\ unsure' = [unsure EXCEPT ![Owner[s]] = TRUE]
        /\ UNCHANGED <<inbound, step>>
  /\ UNCHANGED <<sock, claimed, tracking, status, queue, clients>>

-----------------------------------------------------------------------------
(* The end of a connection *)

\* klyvochatAuthTimer, and the heartbeat, which asks every client for a pong.
AuthTimeout(s) ==
  /\ s \notin claimed /\ sock[s] \in {"silent", "open", "broken"} /\ Becomes(s, "closing")
  /\ UNCHANGED <<inbound, step, events>>

Heartbeat(s) ==
  sock[s] = "broken" /\ Becomes(s, "closing") /\ UNCHANGED <<inbound, step, events>>

DropsAll(s) == {}                   \* a bug: the user's other sockets are forgotten
Remaining(s) == connections[Owner[s]] \ {s}

\* The close event: unregisterSocket, removeConnection.
Close(s) ==
  LET u == Owner[s] IN
  /\ sock[s] = "closing" /\ sock' = [sock EXCEPT ![s] = "closed"]
  /\ registry' = registry \ {s}
  /\ \/ /\ s \in claimed /\ connections[u] # {} /\ Remaining(s) = {}
        /\ connections' = [connections EXCEPT ![u] = {}]
        /\ status' = [status EXCEPT ![u] = "offline"]
        /\ leaving' = leaving \cup {s} /\ Announces(u)
     \/ /\ s \in claimed /\ Remaining(s) # {}
        /\ connections' = [connections EXCEPT ![u] = Remaining(s)]
        /\ UNCHANGED <<status, leaving, unsure>>
     \/ /\ s \notin claimed \/ connections[u] = {}
        /\ UNCHANGED <<connections, status, leaving, unsure>>
  /\ UNCHANGED <<inbound, step, claimed, queue, clients, events>>

Left(s) ==
  /\ s \in leaving /\ leaving' = leaving \ {s}
  /\ Broadcast(Owner[s], "offline")
  /\ UNCHANGED <<sock, inbound, step, claimed, tracking, status, unsure, events>>

-----------------------------------------------------------------------------

Client(s) ==
  Open(s) \/ Authenticate(s) \/ SendStatus(s) \/ SendRelay(s) \/ Hangup(s) \/ Break(s)

Handles(s) ==
  \/ AddConnection(s) \/ Announce(s) \/ AuthOk(s)
  \/ UpdateStatus(s) \/ StatusUpdated(s) \/ BeginRelay(s) \/ Checked(s)

Ends(s) == AuthTimeout(s) \/ Heartbeat(s) \/ Close(s) \/ Left(s)

Next == \E s \in Socket : Client(s) \/ Handles(s) \/ Ends(s) \/ Fails(s)

Spec == Init /\ [][Next]_vars

-----------------------------------------------------------------------------
(* Properties *)

\* docs/architecture.md: the server "authenticates the WebSocket with the JWT,
\* routes {type, payload} envelopes between users, and tracks presence".  An open
\* socket that counts as authenticated can be reached, whatever other sockets of
\* its user come and go.
Tracked ==
  \A s \in claimed : sock[s] \in {"open", "broken"} /\ step[s] = "idle" =>
    s \in connections[Owner[s]] /\ s \in registry

\* No relayed event comes twice over one socket, though several sockets of a user
\* authenticate at once and each drains the queue; and what one socket relays
\* arrives in order, also from the queue, where only a queued event may be
\* overtaken by one sent while its receiver authenticates.
RelayedOnceInOrder ==
  \A s \in Socket : \A i, k \in DOMAIN told[s] :
    LET before == told[s][i].event  after == told[s][k].event IN
    i < k /\ before.type = "relay" /\ after.type = "relay" =>
      /\ before # after
      /\ told[s][i].late = told[s][k].late /\ before.from = after.from =>
           before.n < after.n

\* README.md: "live online/away/offline status".  The last a connected client was
\* told of a friend is how the server sees that friend, unless two broadcasts
\* about the friend overlapped or one failed.
PresenceSettles ==
  \A s \in ready : \A v \in FriendsOf(Owner[s]) :
    sock[s] = "open" /\ heard[s][v] # "nothing" /\ ~Underway(v) /\ ~unsure[v] =>
      heard[s][v] = status[v]

=============================================================================
