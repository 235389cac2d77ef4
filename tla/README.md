# Verification of Klyvochat

TLA+ modules, TLC runs and TLAPS proofs for Klyvochat: a PySide6 desktop client
(`client/`, one asyncio loop per process) that talks to its friends directly over
WebRTC data channels, and a Node server (`server/`) that authenticates clients,
keeps friendships and presence and relays the WebRTC negotiation.

Parse a module with SANY, run TLC on `M` with `X.cfg`, check proofs with `tlapm M.tla`;
`PROJECT.json` lists which configuration belongs to which module, what each
definition translates and which mutation of the code each property rejects.

## 1. The system

### Parts, state, operations

| part | source | state | operations |
| --- | --- | --- | --- |
| text messaging | `client/core/messaging.py` | per peer: the peer's key, whether the own one was sent, typing timers; rows of the local history | `send_message`, `mark_conversation_read`, handlers of `message`, `message_delivered`, `messages_read`, `key_exchange`, `typing`; `_resend_pending` and `_send_key_exchange` on every channel opening; `close` |
| voice calls | `client/core/voice.py`, `client/main.py:715-827` | call state, id, peer, mute, microphone, two timers, the reader of the remote track, the pop-up | `start_call`, `accept_call`, `reject_call`, `end_call`, `toggle_mute`, handlers of `call_invite/answer/reject/end`, ringing and media timeouts |
| peer-to-peer sessions | `client/network/p2p_manager.py`, `webrtc_session.py` | session, operation and attempts per peer; per session its descriptions, timer and channel | `connect_to_peer`, `accept_offer`, `handle_answer`, `_handle_session_error`, `_retry`, `_cleanup`, `close` |
| signaling client | `client/network/signaling_client.py` | manager, receiver and heartbeat tasks, socket, authenticated, attempts | `connect`, `disconnect`, `send`, `_connection_manager`, `_receive_loop`, `_heartbeat_loop` |
| signaling server | `server/src/websocket/handler.js`, `presence.js`, `signaling.js` | sockets per user, status per user, queue of events per offline user | authentication, close, status, relay, queue and drain, heartbeat |
| friendships | `server/src/websocket/friend-service.js`, `client/core/friends.py` | rows `friend_requests` and `friendships`; the client's copy and its request lists | request, accept, reject, remove; snapshot on `auth_ok` |
| presence | `client/core/presence.py`, `client/core/friends.py` | own status, idle timer, last status heard of each friend | `set_status`, idle check, `mark_activity`, `presence_update`, `load_friends` |
| authentication | `client/core/auth.py`, `server/src/routes/auth.js` | tokens in memory and in `auth.json`, the table `users_local` | `register`, `login`, `refresh_token`, `logout` |
| keys and encryption | `client/security/*.py` | X25519 key pairs, the private key in memory | `ensure_keys`, `unlock`, `lock`, seal and open |
| sound | `client/core/voice.py` (`AudioStream`, `AudioTrack`) | two devices with their queues, the track of a session | device callbacks, `recv`, `start_capture`, `stop_capture`, the microphone test |
| client database | `client/storage/*.py` | SQLite rows | repositories |
| session, windows, notifications | `client/main.py`, `client/ui/`, `client/core/notification_manager.py` | the managers of the session, chat windows, friend list, badges, tray icon, grouped notices | `start`, sign-in, `logout`, `_close_session`, quit; selecting a friend, arrivals, closing a window |

### How they interact

`AppController` (`main.py`) owns one of each manager per session. Windows call the
managers through `asyncio.ensure_future`. `MessageManager` and `CallManager` listen to
`P2PManager` (`data_channel_open`, `data_channel_message`, `peer_disconnected`) and send
on its channels; `P2PManager` sends offers and answers through `SignalingClient`, whose
receive loop awaits the handlers; the server checks the friendship and forwards to every
socket of the addressee, or queues. `FriendManager` and `PresenceManager` listen to the
signaling client.

### What is hard

- **Suspended coroutines.** `send_message` waits for a channel, then for a key;
  `start_call`, `accept_call` and `_on_call_answer` wait for aiortc; none of them looks at
  the state again. Two of them may be suspended at once.
- **Two ends of a connection.** Channels open and close at each end on their own; what is
  in flight is lost; keys, resending and acknowledgements belong to one connection and
  the history to all of them.
- **Symmetric peers.** Both may connect, or call, at the same time.
- **Timers.** Ringing, media, connection and retry timers race the events they wait for.
- **Restarts.** Only the database survives.
- On the server, **awaits on the database** between reading and using shared maps.

`PROJECT.json` lists every hazard at its line, with the properties that guard it or the
reason why none does yet.

### What makes each part correct

- messaging: a history has a message once; "delivered" and "read" marks are never ahead
  of what the receiver has, or had until its own user deleted it; what is resent arrives; sealing uses a key of the current connection.
- calls: nothing of a call outlives it; every wait is on a timer; setting up ends.
- sessions: the manager's books agree with its sessions; attempts, retries and blocked
  receive loops end.
- signaling client: a lost connection is retried a bounded number of times; an attempt
  that ended leaves no socket open; "authenticated" means that the server took this socket.
- session: sockets, tokens, identity and the unlocked key are one user's.
- presence: what the user picked stays and gets to the friends; a friend's last change is
  shown, and of friends only.
- chat: an open window shows the newest rows, each once; the counters agree with the rows;
  what is reported as read was shown.
- sound: the peer hears the unmuted user of the active call and nothing else.
- server: a user is online exactly while it has a live socket; friends learn the latest
  status; queued events are bounded, ordered and delivered once.
- friendships: nobody is a friend without having asked or accepted; the tables agree; a
  pending request is offered to its addressee until it is decided; a removal reaches both.

## 2. What is modelled

### `Delivery` and `Messaging`

`Delivery` is the abstract promise of text messaging: `Save`, `Arrive` (once at a time),
`Confirm` (only what arrived), `Read`, `LearnRead` (only what was read), and `Delete`: each
user may delete its own history of the other at any time. Marks may outlive the rows they
speak of, and what the receiver deleted may arrive again.

`Messaging` is `messaging.py` with the rows of `MessageRepository` it uses, for any set of
users. A message is a constant with a sender and a receiver (a `msg_id` is a fresh uuid).
`stage[m]` is where its `send_message` stands; `rows[m]`, `readByReceiver` are the receiver's
rows; `delivered`, `seen`, `sealed` the flags of the sender's row; `peerKeys` and `sentKeys`
the two per-connection dictionaries; `resendDue` and `keyDue` the coroutines that
`_on_channel_open` schedules. A connection is `link` (what is sent arrives) plus `open` at
each end; `wire` is the ordered stream. Actions: `Compose`, `ComposeOffline`, `Connected`,
`KeyWaitEnds`, `SendFails` cut `send_message` at its awaits; `ResendPending`,
`SendKeyExchange`; one handler per payload; `MarkConversationRead`; `DeleteConversation`;
`Connect`, `ChannelOpens`, `LinkBreaks`, `ChannelCloses`, `Restart`.

`DeleteConversation` is what removing a friend does to the messages (`main.py:869-882`,
`friends.py:217`, `repositories.py:181`): all rows of the conversation go at one end, in both
directions, while connection, keys and payloads in flight stay. A message whose sender
deleted it has the stage "deleted" and is neither resent nor marked; one whose receiver did
is stored again if it is resent, since the look-up (`messaging.py:299`) finds nothing.
`erased` and `erasedRead` record what a receiver deleted, and of that what it had read; no
action reads them.

Abstracted: the hop between a channel event and its handlers; the order in which one
`_resend_pending` sends; the two 3 s and 15 s waits, which may end at any time when what
they wait for has not come (and, for the channel, only while there is none); the size and
content of payloads. A client's keys never change. There is one channel per pair at a time
(`P2P` shows where the code fails to keep that). Not modelled: typing notices.
`clear_conversation` and `cleanup_old_history` have no caller.

### `Calls`

`Calls` is `voice.py`'s `CallManager` with the incoming-call pop-up. `state`, `callId`,
`peer`, `muted`, `ringTimer`, `mediaTimer` are its attributes; `capturing` says the
microphone is open; `reader` what `_read_remote_audio` has done. `jobs[u]` holds the
suspended coroutines: `connect` and `offer` (`start_call`), `answer` (`accept_call`), `apply`
(`_on_call_answer`). A job goes on with whatever the manager's attributes are then, as the
code does; a job whose negotiation raises disappears. Timers with the `end_call` they
schedule are one step. Several identical `connect` jobs of a user are one.

Abstracted: the negotiation itself (it ends, or raises), audio data, device failures (the
microphone may fail to open whenever it is asked to), volume and device selection. Both
ends of the channel open together. What becomes of the sound, `close` at logout and the
microphone test are in `Audio`.

### `P2P`

`P2P` is `p2p_manager.py` and `webrtc_session.py`. `sessions[p]` lists every session a client
`p[1]` ever made for its peer `p[2]`, with the peer's session whose offer or answer it holds
and its phase; `current`, `operations`, `attempts` are the dictionaries of `P2PManager`;
`retries` counts scheduled `_retry` coroutines; `busy` is the session whose channel
`accept_offer` waits for inside the signaling client's receive loop; `old` separates the
sessions of a manager that was closed. Making a description suspends (`making`), and the
session may be closed meanwhile (`aborted`). Two sessions connect when each holds the
description of the other. An answer goes to whatever session is current. `FailsLate` is a
connection reported failed or closed after the session's channel closed
(`webrtc_session.py:297`, `304` ask only that it is not open): it runs the whole of
`_handle_session_error`, so it counts an attempt, and it cleans up and retries the session
that has replaced it. `late` counts these.

Abstracted: an SDP is the number of its session; candidates are in the description; server
and friendship check are a FIFO wire that may lose a signal; the connection timer expires
at once when nothing can come any more, and otherwise only as a fault (the network is
slower than 10 s). `disconnect_peer` has no caller. Trickled candidates are never sent by a
client. A call's renegotiation is in `Calls`.

### `Friends`

`Friends` is `friend-service.js`, `handleFriendAction` and the snapshot of `auth_ok`, with the
client's copy in `friends.py`. `rows` and `friendships` are the two tables, by requester and
addressee as their UNIQUE keys are. `jobs` holds every handler the server runs or has yet to
run, by the connection it came on: handlers of one socket run one after another, also after
it closed; those of several sockets overlap. `ReadRequest` and `ReadDecision` are the SELECTs
a transaction begins with; they lock nothing, and what they found may be stale when
`Insert`, `Repair`, `Accept` or `Reject` writes. `Finish` tells both users, or leaves the
event in `queue` for the one without a socket. `Fails` is any statement that raises, before
or after the commit. `Join`, `ReadFriends`, `ReadPending` and `AuthOk` cut
`authenticateSocket` at its awaits; `Drop` is a broken connection or a restart, with a loss of
what was sent last. At the client `friends`, `incoming` and `outgoing` are its lists, with
one handler per event. `wanted` and `agreed` record what users really did, and `missed` what
a failed statement kept from a client; no action reads them.

Abstracted: the statements of a transaction that write are one step, because its row locks
last until the commit (that is assumed of InnoDB, as is a SELECT that sees committed rows
only); sending over an open socket does not suspend; the queue may drop any oldest part
(30 s of life; its limit of 100 is beyond the bound). The server is taken to give its sockets
the `id` that `addConnection` asks for, although no code sets one (see `Hub`).
Not modelled: an address without a user and a request to oneself, which are refused before
anything is read; automatic acceptance, which is an `AcceptRequest` at once; names and
notifications. A client has one connection at a time. `load_friends` and the friends'
statuses are in `Presence`.

### `Hub`

`Hub` is the server's side of every socket: `handler.js`, `presence.js` and `signaling.js`.
`claimed` are the sockets with a `klyvochatUserId`; `registry`, `connections`, `status` and
`queue` are `socketRegistry`, `connectionsByUser`, `statusByUser` and `offlineEventQueue`.
`inbound[s]` is the message chain of a socket and `step[s]` the database query its first
message awaits, so handlers of one socket run one after another, also after it closed, and
those of several sockets overlap: `AddConnection`, `Announce` and `AuthOk` are the parts of
`authenticateSocket`, `UpdateStatus` and `StatusUpdated` those of `handleStatus`, `BeginRelay`
and `Checked` those of `handleSignaling`. `Close` is the close event; the broadcast it sets off
waits in `leaving` for the friends and ends in `Left`. A socket is `broken` when its client
vanished and only `AuthTimeout` or `Heartbeat` can tell, and `closing` between the end and the
close event, when what is sent to it is lost. `Fails` is a query that raises. `told` and `heard`
record what a client received, `unsure` of whom two broadcasts overlapped or one failed; no
action reads them.

That a socket may close while its authentication waits, and is then added after it was
removed, is a behaviour of the model: `PresenceSettles` is about what connected clients are
told, which agrees with the server even then, and `Tracked` about sockets that are open.

Abstracted: friendships do not change (they do in `Friends`); the module import between
`registerSocket` and `addConnection` is no separate step; of a queue any oldest part may have
outlived its 30 s when it is drained; a heartbeat ends vanished clients only. `heard` begins
with `auth_ok` and does not count the statuses in it: `handler.js:70` asks for the status of
`friend.friend_id`, which the rows of `getFriends` do not have, so they are always
"offline". `Identified` are the sockets with an `id`. The code gives none to any
(`hub_untracked`), and then nothing else of this module happens; the other run takes all of
them to have one, as `addConnection` and `registerSocket` do. The theorems take any.
Not modelled: malformed and unknown messages, `ping`, and friend actions (`Friends`).

### `Signaling` and `Session`

`Signaling` has the variables and steps of `SignalingClient`, without a specification of its
own; `Session` extends it with the controller that makes the clients. `manager[c]` is where the
manager task of client `c` waits, `attempt[c]` its counter, `carried[c]` the token it has taken
for the socket it is opening; `connected`, `authenticated` and `authError` are the attributes
and the event; `ending[c]` is how far `disconnect()` has come, which `main.py` schedules and
does not await. `sockets` lists every socket with its client, its token, the server's answer
and what waits to be read: the receiver of a socket goes on after the manager has moved to the
next one, so a late `error` may be taken for the answer to another attempt.

`Session` is `AppController` over `AuthManager`, the table of local users and `KeyManager`.
`issued[t]` is whose token `t` is; `token` and `file` are the copies in memory and in
`auth.json`; `rows` the users in `users_local`, any of which is "the current user"; `unlocked`
whose private key is in memory; `task` the start of a session up to its first status.
`SignIn`, `Start`, `Logout`, `Exit` and `ExitDuringSignIn` (a crash between saving the tokens and
inserting the user) are the controller's operations. Two situations are recorded and excused
where a property says so: `stray`, a client that `_close_session` did not disconnect because it
was between two sockets, or that was made while a row of somebody else was `left`.

Abstracted: registration, which writes what a login does; a request and its answer are one step;
delays and timeouts may end at any time; whether a closed socket counts as connected depends on
the release of `websockets` and is a choice. Nobody awaits the answer to a heartbeat, so its
timeout cannot fire (`docs/architecture.md:39` and `ROADMAP.md:13` count on it), and the
heartbeat only notices a socket that is closed. `refresh_token` is never called, although
`README.md:14-15` and `docs/architecture.md:54` speak of it: a token is good for 15 minutes.
The server is taken to answer; as `hub_untracked` shows, the one in the repository does not.

### `Presence`

`Presence` follows statuses both ways through one session. `mine`, `autoIdle`, `active` and
`timer` are `PresenceManager`'s own status, `jobs` the coroutines that `set_status` calls and
`_queue_status_update` leave for a later turn of the loop; `cache` is `_status_cache`; `known`,
`loaded`, `pending` and `snapshot` are `FriendManager`'s table, its flag, the updates it keeps
for friends it does not know yet, and `auth_payload`; `list` and `chat` are what the main window and the
chat windows say, `profile` whose profile pop-up is open. An entry of the list need not be a
friend: `OnFriendReject` puts the id of a refused request there (`friends.py:279`,
`main.py:996`), which can be selected, chatted with and removed like one (`Refusable`, `Entry`);
and a pop-up that stayed open over its friend's removal still offers a chat (`main.py:865`).
`strays` are the windows opened in these ways. The server is the part of `Hub` this client can tell: `told`, `theirs`,
`friends`, `queue` and a lost socket that is `unnoticed`; `Register` and `Answer` are
authentication cut where direct messages overtake the queue. `slipped`, `overtaken` and `owed`
record what a lost socket took, what activity overtook, and whose last change this client got
or will get; `pick` is what was picked last.

Abstracted: one device per user; the server relays changes in the order they happen (`Hub` has
the jobs in which it does not); what an old socket still carries is read or lost before the
next one is up; reading the friend list of `auth_ok` is one step with the draining.

### `Chat`

`Chat` is one conversation as its user sees it. `rows` and `read` are the database; `window`
and `bubbles` the chat window, which may be fading out; `badge`, `tray` and `group` the three
places that count unread messages; `marks` the coroutines of `mark_conversation_read` that
wait for a turn; `sending[m]` is `_send_chat_message`, which captures the window before it
waits. Actions: selecting and closing, the end of the fade, arrivals with and without a window, own
messages and their saving, the marks, deletion of the conversation, a redrawn list, incoming
calls, restarts. Rows are ordered by a timestamp of the sender, so a new one may go anywhere.
`shown`, `buried`, `late`, `strayed`, `wiped`, `stale`, `lost` and `padded` record what the properties
excuse, each with the code that makes it so.

Abstracted: labels, typing, scrolling and the look of bubbles; the friend is listed; how
messages travel is `Messaging`'s.

### `Audio`

`Audio` is the sound of one client with one `CallManager` and one peer. `capture` and `playback`
are the two devices, whose callbacks run in threads of the sound library; `mic` and `speaker` the
queues with a maximum length, each frame tagged with what it is and the call it belongs to;
`track` is `AudioTrack._active`, `sender` the WebRTC sender, which sleeps inside `recv` between two
looks at the queue. `testing` is the microphone test of the settings window, which uses the same
`AudioStream`.

The calls themselves are cut at the same awaits as in `Calls`: `jobs` holds the suspended
coroutines `connect` and `offer` (`start_call`), `answer` (`accept_call`) and `apply`
(`_on_call_answer`), each with the call it began in. None of them looks at the state again: when
`apply_remote_answer` returns, `ApplyDone` makes whatever is there active, also nothing or another
call, and opens the microphone. `current` is the call of `_call_id`, `popup` the pop-up of an
invitation, and `closed` ends the manager for all but what is suspended. `reader` is the task
that plays the peer, `waiting` for its turn or `reading` in `recv`. Cancelling it while it has a
frame in hand may do nothing (`asyncio.wait_for` of Python 3.11, which `pyproject.toml`
admits, swallows the cancel when what it waits for is done): it is an `orphan` then, which plays
one more frame into the cleared queue and may go on in the next call.

`leaked` collects what the peer heard besides the talk of an active call; `stray` says that a job
of another call went on into this one, or into none; `early` that mute was toggled before the
call was active, `broken` that a device failed or the test took the microphone.

Of the other side's messages only their effect is here: calls are numbers, a message with the id
of another call changes nothing and is no step, and a `call_end` or `call_reject` without
an id cleans up at rest too (`EndCall`).

Abstracted: samples, volume, devices and clocks; a device may fail whenever it is opened.

## 3. What the runs check

| run | instance | result |
| --- | --- | --- |
| `messaging` | two encrypting clients, one message each way, two connections, any restarts, one user who deletes | `TypeOK`, `OneRowPerMessage`, `MarksAreHonest`, `KeysAreFresh`, `ResendDelivers`, `DeliverySpec` (refinement) hold; about 815,000 states |
| `calls` | two users, two call ids, one connection | `TypeOK`, `QuietAtRest`, `WaitsAreTimed`, `SetupSettles` hold; about 940,000 states |
| `p2p` | two clients, two retries, two events from outside, one late failure | `TypeOK`, `CurrentIsLive`, `FailureIsFinal`, `AttemptsEnd`, `ReceiveLoopResumes`, `ComesToRest` hold; about 530,000 states |
| `friends` | two clients, four events | `TypeOK`, `ConsentFirst`, `AcceptedIsFriend`, `PendingIsShown` hold; about 450,000 states |
| `friends_removed` | same, three events | `RemovalIsSeen` fails: the notice of a removal names its receiver |
| `hub` | two friends, one of them on two sockets, and a stranger; two events | `TypeOK`, `Tracked`, `RelayedOnceInOrder`, `PresenceSettles` hold; about 3.5 million states |
| `hub_untracked` | same, no socket has an id | `Tracked` fails: an authenticated socket is in neither map |
| `session` | two users, two clients, two tokens, two sockets, one further attempt, one error | `TypeOK`, `OneIdentity`, `AuthenticatedIsAccepted`, `NoSocketIsLeft`, `LossIsSettled` hold; about 1.1 million states |
| `presence` | one other user and one request that may be refused; any five of two changes, two friendships begun, ended or refused, one pick, one rest, one lost socket | `TypeOK`, `PickStays`, `OwnStatusArrives`, `ChangesAreShown`, `ListedAreKnown` hold; about 8.4 million states |
| `presence_live` | one friend, one change, nothing lost | `StatusIsLive` fails: who was online before is listed as offline |
| `chat` | three messages of the friend and one own one, a window of two rows | `ChatTypeOK`, `BubblesAreRows`, `CountsAgree`, `ReadIsShown` hold; about 5 million states |
| `audio` | two calls, two coroutines suspended at once, queues of two frames and of one | `TypeOK`, `SoundFollowsTheCall` hold; about 10.5 million states |

**Bounds.** `MaxLinks = 2` lets a connection be followed by another one, which is what stale
keys, lost acknowledgements and resending need; a third one meets no state the second did
not, because nothing counts connections. Two messages in opposite directions let every
payload cross every other; messages of one direction share no state but the order on the
wire. `Deleting` is one user, the sender of one message and the receiver of the other; the
proofs take any. `MaxCalls = 2` gives one call overlapping another, or both users calling at once;
with it `MaxLinks = 1` already covers calls before, during and after a connection.
`MaxEvents = 2` in `P2P` counts requests of users, faults, logouts and exits together: two
requests (of one user, or of both at once), or one request and one thing going wrong. With
`MaxRetries = 2` every error is first retried, then final; the default is 3. `MaxLate = 1` lets one
session fail after its channel closed, at any moment and whatever has replaced it; the run was
also made with two. Any number of them is more than `ComesToRest` can bear: the late failures
of two clients may go on closing each other's new sessions.
`MaxEvents = 4` in `Friends` counts what users ask for with lost connections and failed
statements: a request, its acceptance, a removal or a second request, and one more thing,
for instance a crossed request or an acceptance sent again after a restart; the run was also
made once with five events (6.7 million states).
In `Hub` every socket opens, authenticates and closes once, so that two sockets of one user
come and go in every order around the one of a friend. `MaxEvents = 2` counts messages,
vanished clients and failed queries: two relayed events, which is what order and repetition
need, two statuses, or one message and one fault. With `MaxQueued = 2` two broadcasts and a
relayed event already overflow the queue; the limit in the code is 100.
In `Session` the second client is the one that can meet the first: one that was disconnected,
or that logout left behind. `MaxSockets = 2` gives either a reconnection of one client or one
socket each, `MaxAttempts = 1` a delay before giving up, `MaxTokens = 2` a second user or the
same one again.
In `Presence` the properties are about one friend at a time and no step treats two together, so
one other user is enough; two changes let a later one overtake an earlier one, two edits a
friendship end and begin again. `MaxEvents` leaves two of the seven out of any one behaviour;
the run was also made once with all seven (25.5 million states).
In `Chat` four rows against a `Limit` of 2 (50 in the code) hide rows from the window;
`MaxArrivals = 4` has one message arrive twice, `MaxSelects = 3` a window close and open again
while another coroutine waits. The friend's messages are interchangeable.
In `Audio` the second call meets the frames, the reader and the jobs of the first, on its session
or a new one; both queues overflow. `MaxJobs = 2` has two coroutines of one call, or one of each
call, go on in any order; the run was also made with three.

**Fairness.** `Friends`, `Hub`, `Presence`, `Chat` and `Audio` check safety only and assume none.
In `Session` the manager task is fair and nothing else: each of its waits has a timeout, so it
goes on whatever server, network and user do. The code runs on asyncio loops: a coroutine that can go on does, a timer
expires, a handler that was scheduled runs. That is weak fairness of the handlers, the
scheduled coroutines, the waits and the timers, and nothing else. In `Messaging` a
negotiated connection also opens at both ends. Users, the network, the audio of the other
side and `aiortc`'s success owe nothing: `ResendDelivers` excuses a connection that ends,
`SetupSettles` and `AttemptsEnd` hold because of timers alone.

Deadlock is not checked: users may stop and the bounds may be used up.

## 4. What is proved

For every value of the constants (`tlapm` checks each leaf):

- `MessagingProofs`: `TypeCorrect`; `AtMostOnce`, `MarksSafe`; `Implements`
  (`Spec => DeliverySpec`); `KeysFresh`; `NothingStranded`.
- `CallsProofs`: `TypeCorrect`, `Quiet`, `Timed`.
- `P2PProofs`: `TypeCorrect`, `HoldsLiveSessions`, `FailsForGood`.
- `FriendsProofs`: `TypeCorrect`, `BefriendedByConsent`, `TablesAgree`, `RequestsAreShown`.
- `HubProofs`: `TypeCorrect`, `RelaysInOrder`, `StatusesSettle`, `IdentifiedAreTracked`.
- `SessionProofs`: `TypeCorrect`, `OneIdentityHolds`, `NoneIsLeft`,
  `OnlyTheAcceptedAreAuthenticated`.
- `PresenceProofs`: `TypeCorrect`, `PickedStatusStays`, `ListFollowsTables`, `StatusArrives`,
  `ChangesArrive`.
- `ClientProofs`: of `Audio`, `TypeCorrect` and `FollowsTheCall`; of `Chat`, `ChatTypeCorrect`,
  `WindowIsTheRows`, `NumbersAgree` and `ReadWasShown`.

They assume what the modules name in an `ASSUME` and no more: bounds and limits are natural
numbers, every socket and message has its users, the two sides' messages are different ones.
`Messaging` alone takes its messages to be finitely many.

**Messaging.** `delivered` is set from the wire alone, so `MarksAreHonest` is not
inductive: the invariant `IInv` says that every payload in flight is honest: a text is of
its sender and composed, an acknowledgement names a row that is stored or that its receiver
deleted, a receipt names rows that are read or were when they were deleted. The steps that lose
or cut wires keep it because they only remove payloads; a deletion because what it takes from
the rows it adds to `erased`, and because marks go with the sender's rows. The
refinement follows from the same facts: handling an honest acknowledgement is `Confirm`,
handling an honest receipt `LearnRead`, storing is `Arrive`, a deletion `Delete`. `KeysFresh` has an invariant
of its own: a known key implies an open channel, a key in flight implies that its sender
counts it as sent, and payloads in flight imply that the connection or the reader's end is
up. So forgetting keys when a channel closes is enough, whichever end closes first and
whatever an old `_send_key_exchange` still does.
`NothingStranded` is the safety part of `ResendDelivers`: on a connection that works, once the
sender's `_resend_pending` has run, every message of its history is stored at the receiver, or was
until the receiver deleted it, is on its way there, or was sealed. A new connection counts only after the resending because opening
the channel schedules it; what is not resent was confirmed, so by `MarksAreHonest` it is
stored or was. The exception is the code's: a receiver without the
key drops a sealed message (`messaging.py:306`), and only the next connection resends it.
The formula was first tried with TLC on the instance of `messaging`, where it fails without the
exception.

**Calls.** The invariant is local to a user and needs no fact about suspended jobs: every
step that leaves the rest states arms a timer or is excused, and every step back goes
through `_cleanup`. That no assumption on the jobs is needed is the point: a coroutine that
goes on after its call ended cannot leave timers or the microphone behind at rest.

**P2P.** The three invariants are inductive together with one more fact, `OldExist`: the
sessions of closed managers are some of those that were made, so a new one is never among
them. The argument is by pair (`BooksOf`, `Elsewhere`): an operation of a pair disturbs the
books of no other. The case that carries it is an error of a session that is not the current
one. It closes the current session, and the books stay straight only because `_cleanup`
forgets what it closes, which holds for late failures (`FailsLate`) as for any other; if the session is a closed manager's, the error finds nothing and
the session cannot be the current one.

**Friends.** `wanted` and `agreed` only grow, so whatever was honest stays honest (`Frame` and
the lemmas before it). The invariant `IInv` says of everything that can lead to a friendship
that consent stands behind it: a row that it was asked for, a handler that accepts or
repairs that its pair was accepted, an event in a queue or an inbox and a half-read snapshot
that they name friends and requests of their receiver. Reading without locks is harmless
for consent exactly because a stale read is still honest. `SocketInv` bounds the number of a
client's connections by the events, for the types.

`PendingIsShown` counts the requests of a pair: a row has the number of the request that made
it, and `Used` says that no handler will insert that number again, so what is told of an `Over`
request, late as it may come, takes no later one off a list. `ComingBook` follows a pending
row on its way: a handler carries it (`UnderWay`), or its addressee will read it at the end of
the connection's start or at the next one (`AtStart`), or an event in the inbox says so, or
it is listed. The delicate step is `ReadPending`: what it reads may be decided before `AuthOk`
sends it, and what is inserted after it is told directly, behind `auth_ok`.

**Hub.** `TypeCorrect` needs `StepInv`: a handler at work finds its own message at the head of its
chain, whatever is lost behind it; the queue's limit is among the types. `Tracked` is not
inductive, because a socket may close while its handler is at work; `TrackInv` says of every
socket with a user and an id that it is in both maps until its close event. Its delicate step
is `Close`, which may only empty the connections of a user when no other socket of theirs is
left. `IdentifiedAreTracked` is `TrackInv` without an assumption on `Identified`: of the code as it is,
where no socket has an id, it says nothing, and that `Tracked` fails there is a finding.

`RelayedOnceInOrder` is carried by `OrderInv`: the relays in a socket's chain ascend, what was
relayed is behind (`Behind`) all that its sender's chain still holds, a queue ascends, and what
a client was told late comes before what is still queued for it (`Precedes`). Cutting a queue
at its limit or its age keeps all of it since both drop the oldest (`Ages`). For
`PresenceSettles`, `Pending(u)` are the broadcasts about `u` that wait for a list of friends.
`SettleInv`: unless two of them overlapped there is at most one, it brings the status the map
has, and if there is none every client that was told knows that status. A broadcast misses no
client that is `ready`, because such a client's socket is in the map until its close event
(`ReadyInv` with `TrackInv`).

**Session.** That a socket carries its user's token depends on when the token is read: the
manager takes whatever `AuthManager` has at the head of its loop. The invariant therefore says
who may still be at work (`ClientOf`): the client of the open session, one that is stray, or one
whose disconnection was scheduled, and until that one begins there is no token to take. Of the
tables it says that the one row belongs to the user of the token in `auth.json` unless somebody
is `left`, which is what a start from that token needs, also after a crash in the middle of a
sign-in. The server, the receivers and the network only change fields of sockets that the
property does not read (`Same`). 
`NoSocketIsLeft` is inductive with the types (`LeftInv`). A manager opens a socket only from a
wait in which it holds none, and whatever ends one of its waits, also `disconnect()`, which
looks at the socket of the moment, closes the socket or leaves the manager holding it.

`AuthenticatedIsAccepted` relates attributes that several tasks write to what the server did.
`SocketBook`: only the newest socket of a client may still be asking or hold an unread
`auth_ok`, which comes before anything else it says; so no old receiver can report a success
late. `ClientBook`: a manager that is `up`, or that is about to open the next socket, was
answered on the last one, and between two sockets `authenticated` goes with an error that was
read late, which is exactly what the property excuses.

**Presence.** `PickStays` holds because `_auto_idle` is false whenever anything but "online" was
picked (`PickInv`). For the list, `ShownInv` also covers the time before the snapshot, when
windows may already be open: what friends are listed the tables know, who has a window is known
or among the `strays`, and from the snapshot on the known are listed. Entries of refused
requests are in the list without being friends, and their ids are no friend's
(`EntryAssumption`). An update names its friend from the wire, so the
handlers are safe because they look the friend up, not because of what is sent (`WireInv`
only says that it is well formed). `OwnStatusArrives` rests on an order (`WillTell`): unless
activity overtook a pick, statuses scheduled to be sent come before picks yet to be applied, the
last of them is what the user sees, and the server has it or gets it last (`InSync`).

`ChangesAreShown` follows a friend's last change (`Reaches`): it is the last update in the
server's queue and none is on the wire, or the last on the wire and none is queued, or it is
in `_status_cache`. Whether it also gets from the cache to the windows depends on what else is
on the wire about that friend, in which order (`FriendBook`): before a removal takes effect an
acceptance must follow, and behind an acceptance an update or the friends of `auth_ok`, as the
acceptance lists a friend without a status. A window from the pop-up of a removed friend is
outside these books and excused. `SocketOrder` has the direct messages that overtake
the queue while a connection starts.

**Audio.** Frames are judged when the microphone hears them and sent much later. `Sendable` says
of every frame in the queue that it may go out in the call that is on, `Playable` of every frame
for the loudspeaker that it is of this call or a late reader's, and `DeviceInv` that a device
opened for a call is open only in one. The steps that end a call keep them since they clear
the queues after the device has stopped. Before a job has strayed into the call, `Settled` says
what the state goes with: who talks has a call, and a microphone has been opened for it when it
became active and not before, unless mute was toggled. A job that
goes on after its call ended may break all of it but one thing, which therefore needs no
exception: that there is a state from which the user can hang up.

**Chat.** `BubblesAreRows` is inductive once `SentBook` says that a message still being sent
has no row: then what `add_message` appends is new to the window. That a window misses none of
the newest rows rests on a fact about sequences (`TipGrows`): wherever a row is inserted, the
newest `Limit` rows gain at most that row. `ReadBook` adds to the property that with marks still
to be made everything received is excused already, since a mark is scheduled only by a window
that shows, and what arrives while one waits is `late` or shown. `CountBook` says when a badge
may be ahead of the rows: it was cleared, and a mark is to follow. The counting uses the
library's theorems on finite sets; the rows are finite because they grow one at a time.

**Only model-checked.** Liveness (`ResendDelivers`, `SetupSettles`, `AttemptsEnd`,
`ReceiveLoopResumes`, `ComesToRest`, `LossIsSettled`) is out of the prover's reach. Every other
property of a run that holds is also a theorem, but for `Tracked`: it holds only under an
assumption that the code breaks (`hub_untracked`), so the theorem is `IdentifiedAreTracked`.

## 5. What the checks found

1. `friend_remove` carries the receiver's own id as `friend_id` (`handler.js:187`), so the
   removed friend keeps the other in its list; a snapshot only adds (`friends.py:349`), so
   not even the next connection corrects it (`friends_removed`).
2. `addConnection` throws unless the socket has an `id` (`presence.js:20`), which nothing in the
   repository sets, after the socket was given its user (`hub_untracked`).
3. A friend who was online before this client connected is listed under "Offline" until the
   next change (`friends.py:492`): the statuses of `auth_ok` never reach the list
   (`presence_live`).

Behaviours that the models have, that a reader of the code may not expect, and that no run
states as a violation, because a property excuses them by name or none is about them:

- messaging: resent messages are unsealed and lose their `encrypted` flag (`messaging.py:380`); a
  duplicate is dropped without an acknowledgement (`messaging.py:299`), so that its sender
  resends it on every connection; after a friend was removed marks outlive the rows they
  speak of, and what is resent is stored again (`friends.py:217`).
- calls: the caller's media timer is never stopped (`voice.py:531`); `start_call` does not look
  again after its wait (`voice.py:403`).
- sound: a call that ends during `apply_remote_answer` becomes active all the same, with its track
  inactive and the microphone open (`voice.py:531`), and what is said then is sent if another
  call was begun meanwhile; `accept_call` and `start_call` go on in the same way (`voice.py:410`,
  `445`); a reader that survives its cancel plays a frame of the old call in the next one
  (`voice.py:582`, `630`), and may even open the microphone; a mute before the call is active is ignored (`voice.py:659`); the microphone test closes
  the microphone of a call when it stops, and its last frames are sent in the next call
  (`main.py:441-456`).
- sessions between peers: a replaced session is not closed and may open (`p2p_manager.py:257`); a
  connection that fails after its channel closed counts an attempt and closes the session that
  has replaced it (`webrtc_session.py:297`, `304`).
- signaling: logging out between two sockets leaves a manager that connects with the next user's
  token (`main.py:1059`); a late `error` of the last socket refuses the next one
  (`signaling_client.py:373`); a user whose token expired cannot sign in again while the row is
  there (`auth.py:170`), and a token may run with another row's identity (`repositories.py:61`).
- server: the statuses in `auth_ok` are always "offline" (`handler.js:70`).
- presence: a reconnection puts the user "online" at the server only; a pick without a socket is
  shown and not sent; a change that was queued may replace a later one that was not; a refused request
  becomes an "online" entry of the list that one can chat with (`friends.py:279`, `main.py:996`);
  the profile pop-up of a friend who was removed still opens a chat window (`main.py:865`),
  which misses the next change if the friend comes back.
- chat: an own message goes missing from a window that was closed during its wait
  (`main.py:641`); badges vanish when the list is drawn again (`main_window.py:395`); rows beyond
  the newest 50 are marked read unseen (`main.py:586`); grouped notices count calls too
  (`notification_manager.py:123`); a window selected while it fades out still closes
  (`window_manager.py:168`).

## 6. Plan

In this order; each module gets its own MC module and configuration.

1. `Typing`: the typing timers of both sides and the indicator in the chat window.
2. Composition: `Messaging` over `P2P`'s open channels, as a refinement of the connection that
   `Messaging` assumes, where the code keeps one session per peer; `Audio` over `Calls`.
3. Proofs: safety parts of the other liveness properties, as `NothingStranded` is one of
   `ResendDelivers`: whatever still waits is waited for by something that goes on.

## 7. What is not modelled

Widgets and layout, animations, the call window, avatars, themes and settings; typing notices;
the samples of the sound; cryptography (sealing succeeds exactly when both sides know the keys);
SQL beyond the rows named above; the choice of the server's address; HTTP routes and the start of
the server. `PROJECT.json` gives the state of each component.
