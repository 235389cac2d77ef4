------------------------------ MODULE Presence ------------------------------
(***************************************************************************)
(* The presence of one session of a client, both ways: the status of its   *)
(* own user (client/core/presence.py), and the statuses of the friends, in *)
(* the cache, in the list of the main window and in the chat windows       *)
(* (client/core/friends.py, client/main.py, ui/windows/main_window.py).    *)
(*                                                                         *)
(* The server is the part of Hub that this client can tell: it relays what *)
(* friends do in order, queues it while the user is away, and keeps a lost *)
(* socket registered until it notices.  Session has how a socket is made.  *)
(***************************************************************************)
EXTENDS Integers, Sequences

CONSTANTS
  Friend,               \* the other users
  Refusable,            \* the ids of the user's friend requests that get refused
  FriendStatus,         \* the statuses that they take
  Choices,              \* the statuses that the user picks in the tray
  MaxChanges,           \* bound: status changes of the other users
  MaxEdits,             \* bound: friendships begun, ended or refused
  MaxPicks,             \* bound: picks in the tray
  MaxRests,             \* bound: times without activity
  MaxDrops,             \* bound: lost sockets
  MaxEvents             \* bound: all of these together

Status == {"online", "idle", "dnd", "offline"}
Bounds == {"changes", "edits", "picks", "rests", "drops"}
Limit  == [changes |-> MaxChanges, edits |-> MaxEdits, picks |-> MaxPicks, rests |-> MaxRests,
           drops |-> MaxDrops]

ASSUME StatusAssumption == FriendStatus \subseteq Status /\ Choices \subseteq Status
ASSUME EntryAssumption == Friend \cap Refusable = {}
ASSUME BoundsAssumption == MaxEvents \in Nat /\ \A b \in Bounds : Limit[b] \in Nat

VARIABLES
  mine,                 \* PresenceManager._status
  autoIdle,             \* _auto_idle
  active,               \* whether _last_activity is less than 60 s ago
  timer,                \* whether the _idle_timer runs
  jobs,                 \* the coroutines of set_status and send yet to run
  task,                 \* _start_session
  authenticated,        \* whether the SignalingClient can send
  cache,                \* _status_cache, "offline" where it has nothing
  known,                \* the friends of FriendManager: rows and _friend_metadata
  loaded,               \* _snapshot_loaded
  pending,              \* whose updates _pending_presence keeps
  snapshot,             \* the friends of auth_payload
  list,                 \* the main window's list
  chat,                 \* the open chat windows, and what their headers say
  profile,              \* whose profile pop-up is open
  strays,               \* the chat windows that were opened for an id of no friend
  link,                 \* the socket: "down", "asked" for auth_ok, or "up"
  unnoticed,            \* the server holds on to a lost socket
  told,                 \* the server's status of the user
  friends,              \* the user's friends
  theirs,               \* the server's statuses of the others
  queue,                \* offlineEventQueue
  inbox, outbox,        \* on their way from and to the server
  pick,                 \* the status that set_status got last
  slipped,              \* the server missed, or forgot, a status of the user
  overtaken,            \* activity changed the status while a pick waited
  owed,                 \* whose last change is, or will be, on this client
  used                  \* how much of each bound is used

own      == <<mine, autoIdle, active, timer, jobs, task>>
windows  == <<list, chat, profile, strays>>
roster   == <<known, loaded, pending, snapshot>>
server   == <<told, friends, theirs, queue, unnoticed>>
wires    == <<link, inbox, outbox>>
history  == <<pick, slipped, overtaken, owed>>
vars     == <<own, authenticated, cache, roster, windows, server, wires, history, used>>

Absent   == "absent"
Entry    == Friend \cup Refusable    \* what the list and the windows go by
Shown    == Status \cup {Absent, "rejected"}
Message  ==
  [type : {"auth_ok"}, friends : SUBSET Friend]
  \cup [type : {"presence_update"}, friend : Friend, status : Status]
  \cup [type : {"friend_accept", "removed"}, friend : Friend]
  \cup [type : {"friend_reject"}, request : Refusable]
Request  == [type : {"status_update"}, status : Status] \cup [type : {"friend_remove"}, friend : Entry]
Job      == [type : {"set_status", "send"}, status : Status]

TypeOK ==
  /\ mine \in Status /\ autoIdle \in BOOLEAN
  /\ active \in BOOLEAN /\ timer \in BOOLEAN
  /\ jobs \in Seq(Job)
  /\ task \in {"connecting", "done", "failed"}
  /\ authenticated \in BOOLEAN
  /\ cache \in [Entry -> Status]
  /\ known \subseteq Friend /\ loaded \in BOOLEAN
  /\ pending \subseteq Friend /\ snapshot \subseteq Friend
  /\ list \in [Entry -> Shown] /\ chat \in [Entry -> Shown]
  /\ profile \subseteq Friend /\ strays \subseteq Entry
  /\ link \in {"down", "asked", "up"} /\ unnoticed \in BOOLEAN
  /\ told \in Status
  /\ friends \subseteq Friend /\ theirs \in [Friend -> Status]
  /\ queue \in Seq(Message) /\ inbox \in Seq(Message) /\ outbox \in Seq(Request)
  /\ pick \in Status
  /\ slipped \in BOOLEAN /\ overtaken \in BOOLEAN
  /\ owed \in [Friend -> BOOLEAN]
  /\ \A b \in Bounds : used[b] \in 0..Limit[b]
  /\ autoIdle => mine \in {"online", "idle"}
  /\ authenticated => link = "up"

\* The program has just started: its rows are from earlier sessions.
Init ==
  /\ mine = "online" /\ pick = "online"
  /\ autoIdle = FALSE /\ active = TRUE /\ timer = FALSE
  /\ jobs = <<>> /\ task = "connecting" /\ authenticated = FALSE
  /\ cache = [e \in Entry |-> "offline"]
  /\ known \in SUBSET Friend /\ friends \in SUBSET Friend
  /\ loaded = FALSE /\ pending = {} /\ snapshot = {}
  /\ list = [e \in Entry |-> Absent] /\ chat = [e \in Entry |-> Absent]
  /\ profile = {} /\ strays = {}
  /\ link = "down" /\ unnoticed = FALSE /\ told = "offline"
  /\ theirs \in [Friend -> FriendStatus]
  /\ queue = <<>> /\ inbox = <<>> /\ outbox = <<>>
  /\ slipped = FALSE /\ overtaken = FALSE
  /\ owed = [f \in Friend |-> FALSE]
  /\ used = [b \in Bounds |-> 0]

Events == used["changes"] + used["edits"] + used["picks"] + used["rests"] + used["drops"]
Use(b) == Events < MaxEvents /\ used[b] < Limit[b] /\ used' = [used EXCEPT ![b] = @ + 1]

-----------------------------------------------------------------------------
(* The user's own status *)

\* SignalingClient.send, which raises unless it is authenticated.
Send(status) ==
  /\ outbox' = IF authenticated
               THEN Append(outbox, [type |-> "status_update", status |-> status]) ELSE outbox
  /\ slipped' = ~authenticated

SetStatusKeepingAuto(status) ==     \* a bug: _auto_idle is only ever set
  /\ mine' = status /\ pick' = status
  /\ autoIdle' = (autoIdle \/ status = "online")
  /\ Send(status)

\* set_status: the local status changes even when the update is not sent.
SetStatus(status) ==
  /\ mine' = status /\ pick' = status
  /\ autoIdle' = (status = "online")
  /\ Send(status)

\* _on_tray_status starts a coroutine for it.
PickStatus(status) ==
  /\ Use("picks")
  /\ jobs' = Append(jobs, [type |-> "set_status", status |-> status])
  /\ overtaken' = (overtaken /\ jobs # <<>>)
  /\ UNCHANGED <<mine, autoIdle, active, timer, task, authenticated, cache, roster, windows,
                 server, wires, pick, slipped, owed>>

\* The event loop runs the next coroutine.
RunJob ==
  /\ jobs # <<>>
  /\ jobs' = Tail(jobs)
  /\ \/ Head(jobs).type = "set_status" /\ SetStatus(Head(jobs).status)
     \/ /\ Head(jobs).type = "send" /\ Send(Head(jobs).status)
        /\ UNCHANGED <<mine, autoIdle, pick>>
  /\ UNCHANGED <<active, timer, task, authenticated, cache, roster, windows, server,
                 link, inbox, overtaken, owed, used>>

TurnsSilently(status, auto) ==      \* a bug: the server is not told
  /\ mine' = status /\ autoIdle' = auto
  /\ UNCHANGED <<jobs, overtaken>>

\* _set_local_status now, _queue_status_update for later.
Turns(status, auto) ==
  /\ mine' = status /\ autoIdle' = auto
  /\ jobs' = Append(jobs, [type |-> "send", status |-> status])
  /\ overtaken' = (overtaken \/ \E i \in DOMAIN jobs : jobs[i].type = "set_status")

\* Any input event on any widget.
MarkActive ==
  /\ active' = TRUE
  /\ \/ autoIdle /\ Turns("online", FALSE)
     \/ ~autoIdle /\ ~active /\ UNCHANGED <<mine, autoIdle, jobs, overtaken>>
  /\ UNCHANGED <<timer, task, authenticated, cache, roster, windows, server, wires,
                 pick, slipped, owed, used>>

\* 60 s without one.
Rest ==
  /\ active /\ active' = FALSE
  /\ Use("rests")
  /\ UNCHANGED <<mine, autoIdle, timer, jobs, task, authenticated, cache, roster, windows,
                 server, wires, history>>

MayIdleAnyway == ~active /\ ~autoIdle      \* a bug: any status turns idle
MayIdle == ~active /\ mine = "online"

CheckIdle ==
  /\ timer
  /\ \/ MayIdle /\ Turns("idle", TRUE)
     \/ autoIdle /\ active /\ Turns("online", FALSE)
  /\ UNCHANGED <<active, timer, task, authenticated, cache, roster, windows, server, wires,
                 pick, slipped, owed, used>>

-----------------------------------------------------------------------------
(* The friends, as the windows show them *)

\* What the list would say of f: _get_friend_data takes the status from
\* PresenceManager, which has "offline" for a friend it was not told about; the
\* statuses of the snapshot and of the rows never show.
StatusOf(e) == cache[e]
List(set)   == [e \in Entry |-> IF e \in set THEN StatusOf(e) ELSE Absent]

\* The rows of the friends: one is added or changed, one is deleted.
Upserted(set)  == known \cup set
Deleted(f)     == known \ {f}

\* _upsert_friend_data: the row, and _friend_metadata with it.
UpsertData(set) == known' = Upserted(set)

\* _replay_pending_presence: its statuses are the cache's too.
Replay(set) ==
  /\ pending' = pending \ set
  /\ chat' = [e \in Entry |-> IF e \in pending \cap set /\ chat[e] # Absent
                              THEN StatusOf(e) ELSE chat[e]]

\* MainWindow: the friends under "Online".
OnlineSection == {e \in Entry : list[e] \notin {Absent, "offline"}}

UpsertFriend(e, s) == list' = [list EXCEPT ![e] = s]
SetWindowStatus(f, s) == chat' = [chat EXCEPT ![f] = IF @ = Absent THEN Absent ELSE s]

\* _on_friend_update of a presence_update.
OnFriendUpdate(f, s) == UpsertFriend(f, s) /\ SetWindowStatus(f, s)

\* set_friends, with all of them: an entry that is no friend goes.
SetFriends(set) == list' = List(set) /\ UNCHANGED <<profile, strays>>

\* load_friends applies the friends of auth_payload once more.
LoadFriends == UpsertData(snapshot) /\ Replay(known') /\ SetFriends(known')

Takes(type) == inbox # <<>> /\ Head(inbox).type = type /\ inbox' = Tail(inbox)

OnAuthOk ==
  /\ Takes("auth_ok")
  /\ authenticated' = TRUE
  /\ snapshot' = Head(inbox).friends
  /\ UpsertData(snapshot')
  /\ loaded' = TRUE
  /\ Replay(known') /\ SetFriends(known')
  /\ UNCHANGED <<own, cache, server, link, outbox, history, used>>

\* A bug: only friends that are known by now are remembered.
CachesFriends(f, s) == cache' = IF f \in known THEN [cache EXCEPT ![f] = s] ELSE cache
\* handle_presence_update.
Caches(f, s) == cache' = [cache EXCEPT ![f] = s]

IsAnyone(f) == TRUE                 \* a bug: an update makes a friend
IsKnown(f)  == f \in known

\* And _on_presence_change, which goes on to the list and the chat window.
OnPresenceUpdate ==
  /\ Takes("presence_update")
  /\ LET f == Head(inbox).friend
         s == Head(inbox).status IN
     /\ Caches(f, s)
     /\ \/ /\ ~loaded
           /\ pending' = pending \cup {f}
           /\ UNCHANGED <<list, chat>>
        \/ /\ loaded /\ ~IsKnown(f)
           /\ UNCHANGED <<pending, list, chat>>
        \/ /\ loaded /\ IsKnown(f)
           /\ OnFriendUpdate(f, s)
           /\ UNCHANGED pending
  /\ UNCHANGED <<own, authenticated, known, loaded, snapshot, profile, strays, server, link,
                 outbox, history, used>>

\* The friend's data come without a status: "offline".
OnFriendAccept ==
  /\ Takes("friend_accept")
  /\ UpsertData({Head(inbox).friend})
  /\ UpsertFriend(Head(inbox).friend, "offline")
  /\ UNCHANGED <<own, authenticated, cache, loaded, pending, snapshot, chat, profile, strays,
                 server, link, outbox, history, used>>

\* The controller takes the dict of any event for a friend, and _normalize_friend
\* the request's id for the friend's: it becomes an entry of the list, under
\* "Online" because it is not "offline".
OnFriendReject ==
  /\ Takes("friend_reject")
  /\ UpsertFriend(Head(inbox).request, "rejected")
  /\ UNCHANGED <<own, authenticated, cache, roster, chat, profile, strays, server, link, outbox,
                 history, used>>

CloseChatWindow(e) == chat' = [chat EXCEPT ![e] = Absent] /\ strays' = strays \ {e}

\* _remove_local_friend and the friend_remove that it notifies.
RemoveLocalFriend(e) ==
  /\ known' = Deleted(e) /\ pending' = pending \ {e}
  /\ cache' = [cache EXCEPT ![e] = "offline"]
  /\ list' = [list EXCEPT ![e] = Absent]
  /\ CloseChatWindow(e)
  /\ UNCHANGED <<loaded, snapshot, profile>>

\* The answer to a removal removes once more.
OnRemoved ==
  /\ Takes("removed")
  /\ RemoveLocalFriend(Head(inbox).friend)
  /\ UNCHANGED <<own, authenticated, server, link, outbox, history, used>>

\* Both the list and a pop-up, which stays when its friend goes, offer a chat and
\* a removal.
Offered(e) == list[e] # Absent \/ e \in profile

RemoveFriend(e) ==
  /\ Offered(e) /\ authenticated
  /\ Use("edits")
  /\ outbox' = Append(outbox, [type |-> "friend_remove", friend |-> e])
  /\ RemoveLocalFriend(e)
  /\ owed' = [f \in Friend |-> owed[f] /\ f # e]
  /\ UNCHANGED <<own, authenticated, server, link, inbox, pick, slipped, overtaken>>

\* _on_friend_selected: the window gets the status of an id that nobody may have.
SelectFriend(e) ==
  /\ Offered(e) /\ chat[e] = Absent
  /\ chat' = [chat EXCEPT ![e] = StatusOf(e)]
  /\ strays' = strays \cup ({e} \ known)
  /\ UNCHANGED <<own, authenticated, cache, roster, list, profile, server, wires, history, used>>

CloseChat(e) ==
  /\ chat[e] # Absent
  /\ CloseChatWindow(e)
  /\ UNCHANGED <<own, authenticated, cache, roster, list, profile, server, wires, history, used>>

\* The entry's menu; a second pop-up takes the place of the first.
ShowProfile(f) ==
  /\ list[f] # Absent /\ f \in known
  /\ profile # {f} /\ profile' = {f}
  /\ UNCHANGED <<own, authenticated, cache, roster, list, chat, strays, server, wires, history, used>>

CloseProfile ==
  /\ profile # {} /\ profile' = {}
  /\ UNCHANGED <<own, authenticated, cache, roster, list, chat, strays, server, wires, history, used>>

\* _start_session, once connect() has returned: set_status, start, load_friends.
\* Without a socket set_status raises, and nothing else is done.
StartSession ==
  /\ task = "connecting" /\ loaded
  /\ SetStatus("online")
  /\ \/ /\ authenticated
        /\ task' = "done" /\ timer' = TRUE
        /\ LoadFriends
     \/ /\ ~authenticated
        /\ task' = "failed"
        /\ UNCHANGED <<timer, known, pending, windows>>
  /\ UNCHANGED <<active, jobs, authenticated, cache, loaded, snapshot, server, link, inbox,
                 overtaken, owed, used>>

Client ==
  \/ \E s \in Choices : PickStatus(s)
  \/ RunJob \/ MarkActive \/ Rest \/ CheckIdle
  \/ OnAuthOk \/ OnPresenceUpdate \/ OnFriendAccept \/ OnFriendReject \/ OnRemoved
  \/ \E e \in Entry : RemoveFriend(e) \/ SelectFriend(e) \/ CloseChat(e)
  \/ \E f \in Friend : ShowProfile(f)
  \/ CloseProfile
  \/ StartSession

-----------------------------------------------------------------------------
(* The server, the friends and the network *)

client == <<own, authenticated, cache, roster, windows>>

\* sendToUser: queued without a socket, lost on one that the server only
\* believes in.
Relay(m) ==
  /\ inbox' = IF link = "down" THEN inbox ELSE Append(inbox, m)
  /\ queue' = IF link = "down" /\ ~unnoticed THEN Append(queue, m) ELSE queue

About(s, f) == \E i \in DOMAIN s : s[i].type = "presence_update" /\ s[i].friend = f

\* Whether a change of f that is relayed now is the last one to arrive: it is
\* not when an older one waits in the queue, which authenticateSocket empties
\* after its socket has been registered.
Arrives(f) == IF link = "down" THEN ~unnoticed ELSE ~About(queue, f)

FriendChanges(f, s) ==
  /\ theirs[f] # s /\ Use("changes")
  /\ theirs' = [theirs EXCEPT ![f] = s]
  /\ \/ /\ f \in friends
        /\ Relay([type |-> "presence_update", friend |-> f, status |-> s])
        /\ owed' = [owed EXCEPT ![f] = Arrives(f)]
     \/ /\ f \notin friends
        /\ UNCHANGED <<inbox, queue, owed>>
  /\ UNCHANGED <<client, told, friends, unnoticed, link, outbox, pick, slipped, overtaken>>

FriendAccepts(f) ==
  /\ f \notin friends /\ Use("edits")
  /\ friends' = friends \cup {f}
  /\ Relay([type |-> "friend_accept", friend |-> f])
  /\ owed' = [owed EXCEPT ![f] = FALSE]
  /\ UNCHANGED <<client, told, theirs, unnoticed, link, outbox, pick, slipped, overtaken>>

FriendRejects(r) ==
  /\ Use("edits")
  /\ Relay([type |-> "friend_reject", request |-> r])
  /\ UNCHANGED <<client, told, friends, theirs, unnoticed, link, outbox, history>>

\* What the server says of it names the user: FriendManager removes nothing.
FriendLeaves(f) ==
  /\ f \in friends /\ Use("edits")
  /\ friends' = friends \ {f}
  /\ owed' = [owed EXCEPT ![f] = FALSE]
  /\ UNCHANGED <<client, told, theirs, queue, unnoticed, wires, pick, slipped, overtaken>>

\* authenticateSocket, up to addConnection: a first socket starts "online".
Register ==
  /\ link = "down"
  /\ link' = "asked"
  /\ told' = IF unnoticed THEN told ELSE "online"
  /\ slipped' = (slipped \/ ~unnoticed)
  /\ UNCHANGED <<client, friends, theirs, queue, unnoticed, inbox, outbox, pick, overtaken,
                 owed, used>>

\* The rest of it: the queue without the events that are too old, then auth_ok.
Answer ==
  /\ link = "asked"
  /\ link' = "up" /\ queue' = <<>>
  /\ \E old \in 0..Len(queue) :
       LET kept == SubSeq(queue, old + 1, Len(queue)) IN
       /\ inbox' = inbox \o Append(kept, [type |-> "auth_ok", friends |-> friends])
       /\ owed' = [f \in Friend |-> owed[f] /\ (About(queue, f) => About(kept, f))]
  /\ UNCHANGED <<client, told, friends, theirs, unnoticed, outbox, pick, slipped, overtaken, used>>

Unfriend(e) ==
  /\ friends' = friends \ {e}
  /\ inbox' = IF e \in friends THEN Append(inbox, [type |-> "removed", friend |-> e]) ELSE inbox
  /\ owed' = [f \in Friend |-> owed[f] /\ f # e]

\* updateStatus, and removeFriend, whose answer is not "ok" without a friend.
Serve ==
  /\ link = "up" /\ outbox # <<>>
  /\ outbox' = Tail(outbox)
  /\ \/ /\ Head(outbox).type = "status_update"
        /\ told' = Head(outbox).status
        /\ UNCHANGED <<friends, inbox, owed>>
     \/ /\ Head(outbox).type = "friend_remove"
        /\ Unfriend(Head(outbox).friend)
        /\ UNCHANGED told
  /\ UNCHANGED <<client, theirs, queue, unnoticed, link, pick, slipped, overtaken, used>>

\* The socket is lost, with what was on its way; the manager starts over.
Drop ==
  /\ link # "down" /\ Use("drops")
  /\ link' = "down" /\ unnoticed' = TRUE
  /\ authenticated' = FALSE
  /\ inbox' = <<>> /\ outbox' = <<>>
  /\ slipped' = (slipped \/ outbox # <<>>)
  /\ owed' = [f \in Friend |-> owed[f] /\ ~About(inbox, f)]
  /\ UNCHANGED <<own, cache, roster, windows, told, friends, theirs, queue, pick, overtaken>>

\* removeConnection of a lost socket.
Notice ==
  /\ unnoticed /\ unnoticed' = FALSE
  /\ told' = IF link = "down" THEN "offline" ELSE told
  /\ UNCHANGED <<client, friends, theirs, queue, wires, history, used>>

Server ==
  \/ \E f \in Friend : \/ \E s \in FriendStatus : FriendChanges(f, s)
                       \/ FriendAccepts(f) \/ FriendLeaves(f)
  \/ \E r \in Refusable : FriendRejects(r)
  \/ Register \/ Answer \/ Serve \/ Drop \/ Notice

Next == Client \/ Server

Spec == Init /\ [][Next]_vars

-----------------------------------------------------------------------------
(* Properties *)

\* A status that the user picked stays until the next pick: neither the idle
\* timer nor any activity replaces it.  "online" is left to them.
PickStays == pick # "online" => mine = pick

\* Once nothing is on its way, the friends see the status that the user sees.
\* Excused are a status that a lost socket or a new one took away, which the
\* client does not send again, and activity that overtook a pick.
OwnStatusArrives ==
  jobs = <<>> /\ outbox = <<>> /\ authenticated /\ ~slipped /\ ~overtaken => told = mine

\* A friend's change that was not lost on the way ends up in the list and in
\* the chat window, also when it came before the friend list did.  Excused is a
\* window that was opened from the pop-up of a friend who was gone: a change that
\* comes before the friend is back does not reach it.
ChangesAreShown ==
  inbox = <<>> /\ outbox = <<>> /\ link = "up" =>
    \A f \in friends : owed[f] =>
      list[f] = theirs[f] /\ (f \in strays \/ chat[f] \in {Absent, theirs[f]})

\* Of the users, the list has those that the tables know as friends, all of them:
\* no update that is late, or kept for later, brings a removed friend back, and no
\* snapshot, acceptance or removal leaves the two apart.  A chat window goes with
\* its friend; the others were opened for no friend of the tables, which the code
\* allows for a refused request and, from a pop-up, for a friend who is gone.
ListedAreKnown ==
  /\ loaded => {f \in Friend : list[f] # Absent} = known
  /\ {e \in Entry : chat[e] # Absent} \subseteq known \cup strays

\* README.md:16, "live online/away/offline status": the friends under "Online"
\* are those that the server knows to be.
StatusIsLive ==
  inbox = <<>> /\ link = "up" =>
    friends \cap OnlineSection = {f \in friends : theirs[f] # "offline"}
=============================================================================
