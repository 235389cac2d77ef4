------------------------------ MODULE Friends -------------------------------
(***************************************************************************)
(* Friendships: server/src/websocket/friend-service.js and the handlers    *)
(* that call it, with the copy each client keeps, client/core/friends.py.  *)
(*                                                                         *)
(* A handler suspends at every statement it sends to the database.  Those  *)
(* of a transaction that write hold their row locks until the commit, so   *)
(* they are one step; what it has read before is a snapshot.  A socket     *)
(* runs its handlers one after another, also after it has closed.          *)
(***************************************************************************)
EXTENDS Integers, Sequences

CONSTANTS
  User,                 \* one client each
  MaxEvents             \* bound: what users ask for, plus what goes wrong

ASSUME MaxEventsAssumption == MaxEvents \in Nat

Pair == {p \in User \X User : p[1] # p[2]}      \* requester and addressee
Reverse(p)  == <<p[2], p[1]>>
Both(p)     == {p, Reverse(p)}
Other(p, u) == IF p[1] = u THEN p[2] ELSE p[1]

VARIABLES
  rows,                 \* friend_requests: unique by requester and addressee
  friendships,          \* friendships: unique by requester and addressee
  jobs,                 \* what the clients sent and the server has not finished
  link,                 \* a client's connection
  socket,               \* how many connections a client has had before
  read, snapshot,       \* what authenticateSocket has read so far
  queue,                \* offlineEventQueue
  inbox,                \* what a client has yet to read from its connection
  friends,              \* FriendRepository and _friend_metadata, survive a restart
  incoming, outgoing,   \* _pending_requests, _outgoing_requests
  missed,               \* something was not told to a client since it connected
  wanted, agreed,       \* who ever asked whom, who ever accepted whom
  events                \* see MaxEvents

database == <<rows, friendships>>
lists    == <<friends, incoming, outgoing>>
session  == <<link, socket, read, snapshot>>
consent  == <<wanted, agreed>>
vars     == <<database, jobs, session, queue, inbox, lists, missed, consent, events>>

\* A row's id is the number of the event that asked for it.
Row == [n : 0..MaxEvents, status : {"none", "pending", "accepted", "rejected"}]
NoRow == [n |-> 0, status |-> "none"]

Request == [pair : Pair, n : 0..MaxEvents]

\* A handler, by the event it answers.  "read": the row it is about to change
\* was pending.  "insert", "repair": sendFriendRequest found no row, or an
\* accepted one.  "written": committed, the clients not told.  n is the id of
\* the row; for a removal, whether there was anything to remove.
Job == [k : 1..MaxEvents, user : User, socket : 0..MaxEvents,
        op : {"request", "accept", "reject", "remove"}, pair : Pair, n : 0..MaxEvents,
        step : {"sent", "read", "insert", "repair", "written"}]

\* "done" is friend_action_result.
Event ==
  [type : {"friend_request", "friend_accept", "friend_reject", "friend_remove",
           "done_request", "done_accept", "done_reject", "done_remove"},
   pair : Pair, n : 0..MaxEvents]
  \cup [type : {"auth_ok"}, friends : SUBSET User, pending : SUBSET Request]

TypeOK ==
  /\ rows \in [Pair -> Row] /\ friendships \in SUBSET Pair
  /\ jobs \in SUBSET Job
  /\ link \in [User -> {"off", "joining", "on"}]
  /\ socket \in [User -> 0..MaxEvents]
  /\ read \in [User -> SUBSET {"friends", "pending"}]
  /\ snapshot \in [User -> [friends : SUBSET User, pending : SUBSET Request]]
  /\ queue \in [User -> Seq(Event)] /\ inbox \in [User -> Seq(Event)]
  /\ friends \in [User -> SUBSET User]
  /\ incoming \in [User -> SUBSET Request] /\ outgoing \in [User -> SUBSET Request]
  /\ missed \in [User -> BOOLEAN]
  /\ wanted \in SUBSET Pair /\ agreed \in SUBSET Pair
  /\ events \in 0..MaxEvents

NothingRead == [friends |-> {}, pending |-> {}]

Init ==
  /\ rows = [p \in Pair |-> NoRow] /\ friendships = {}
  /\ jobs = {}
  /\ link = [u \in User |-> "off"] /\ socket = [u \in User |-> 0]
  /\ read = [u \in User |-> {}] /\ snapshot = [u \in User |-> NothingRead]
  /\ queue = [u \in User |-> <<>>] /\ inbox = [u \in User |-> <<>>]
  /\ friends = [u \in User |-> {}]
  /\ incoming = [u \in User |-> {}] /\ outgoing = [u \in User |-> {}]
  /\ missed = [u \in User |-> FALSE]
  /\ wanted = {} /\ agreed = {}
  /\ events = 0

-----------------------------------------------------------------------------
(* What a user asks for *)

\* _send, on an authenticated connection.
Send(u, op, pair, n) ==
  /\ link[u] = "on" /\ events < MaxEvents
  /\ events' = events + 1
  /\ jobs' = jobs \cup {[k |-> events + 1, user |-> u, socket |-> socket[u],
                         op |-> op, pair |-> pair, n |-> n, step |-> "sent"]}
  /\ UNCHANGED <<database, session, queue, inbox, missed>>

SendRequest(p) ==
  /\ Send(p[1], "request", p, 0)
  /\ wanted' = wanted \cup {p}
  /\ UNCHANGED <<lists, agreed>>

\* What the user decides leaves the list before the server answers.
AcceptRequest(u, r) ==
  /\ Send(u, "accept", r.pair, r.n)
  /\ incoming' = [incoming EXCEPT ![u] = @ \ {r}]
  /\ agreed' = agreed \cup {r.pair}
  /\ UNCHANGED <<friends, outgoing, wanted>>

RejectRequest(u, r) ==
  /\ Send(u, "reject", r.pair, r.n)
  /\ incoming' = [incoming EXCEPT ![u] = @ \ {r}]
  /\ UNCHANGED <<friends, outgoing, consent>>

RemoveFriend(u, v) ==
  /\ Send(u, "remove", <<u, v>>, 0)
  /\ friends' = [friends EXCEPT ![u] = @ \ {v}]
  /\ UNCHANGED <<incoming, outgoing, consent>>

-----------------------------------------------------------------------------
(* The server: handleFriendAction *)

\* klyvochatMessageChain: handlers of a socket run one after another.
First(j) == \A i \in jobs : i.user = j.user /\ i.socket = j.socket => j.k <= i.k

Becomes(j, i) == jobs' = (jobs \ {j}) \cup {i}

Unread == UNCHANGED <<session, queue, inbox, lists, missed, consent, events>>

\* j goes on about the row of p.
About(j, p, step) == [j EXCEPT !.pair = p, !.n = rows[p].n, !.step = step]

\* A request or acceptance of the pair, either way round.
Existing(p) == {q \in Both(p) : rows[q].status \in {"pending", "accepted"}}

FindAny(j) ==                       \* a bug: asking each other is enough
  \E p \in Existing(j.pair) : Becomes(j, About(j, p, "repair"))

Find(j) ==
  \E p \in Existing(j.pair) :
    Becomes(j, About(j, p, IF rows[p].status = "accepted" THEN "repair" ELSE "written"))

\* sendFriendRequest, up to its first write; a pending row is the answer.
ReadRequest(j) ==
  /\ j.op = "request" /\ j.step = "sent" /\ First(j)
  /\ \/ Find(j)
     \/ Existing(j.pair) = {} /\ Becomes(j, [j EXCEPT !.step = "insert"])
  /\ Unread /\ UNCHANGED database

IsPending(j) == rows[j.pair].status = "pending" /\ rows[j.pair].n = j.n

\* acceptFriendRequest and rejectFriendRequest: the SELECT, or "request_not_found".
ReadDecision(j) ==
  /\ j.op \in {"accept", "reject"} /\ j.step = "sent" /\ First(j)
  /\ \/ IsPending(j) /\ Becomes(j, [j EXCEPT !.step = "read"])
     \/ ~IsPending(j) /\ jobs' = jobs \ {j}
  /\ Unread /\ UNCHANGED database

\* The INSERT, which a row of the same pair refuses, even a rejected one.
Insert(j) ==
  /\ j.op = "request" /\ j.step = "insert"
  /\ \/ /\ rows[j.pair] = NoRow
        /\ rows' = [rows EXCEPT ![j.pair] = [n |-> j.k, status |-> "pending"]]
        /\ Becomes(j, [j EXCEPT !.n = j.k, !.step = "written"])
     \/ /\ rows[j.pair] # NoRow
        /\ jobs' = jobs \ {j}
        /\ UNCHANGED rows
  /\ Unread /\ UNCHANGED friendships

\* A request of an accepted pair writes the friendship again.
Repair(j) ==
  /\ j.op = "request" /\ j.step = "repair"
  /\ friendships' = friendships \cup {j.pair}
  /\ Becomes(j, [j EXCEPT !.step = "written"])
  /\ Unread /\ UNCHANGED rows

\* The UPDATE by id, whatever the row's status is now, and the friendship.
Accept(j) ==
  /\ j.op = "accept" /\ j.step = "read"
  /\ rows' = [rows EXCEPT ![j.pair] =
                IF @.n = j.n THEN [n |-> j.n, status |-> "accepted"] ELSE @]
  /\ friendships' = friendships \cup {j.pair}
  /\ Becomes(j, [j EXCEPT !.step = "written"])
  /\ Unread

\* The UPDATE of a row that is still pending; how many there were is not asked.
Reject(j) ==
  /\ j.op = "reject" /\ j.step = "read"
  /\ rows' = [rows EXCEPT ![j.pair] =
                IF IsPending(j) THEN [n |-> j.n, status |-> "rejected"] ELSE @]
  /\ Becomes(j, [j EXCEPT !.step = "written"])
  /\ Unread /\ UNCHANGED friendships

DeletedMark == [n |-> 0, status |-> "deleted"]      \* a bug: a status there is not
Deleted == NoRow

RemoveFriendshipOnly(j) ==          \* a bug: the accepted request stays
  /\ j.op = "remove" /\ j.step = "sent" /\ First(j)
  /\ friendships' = friendships \ Both(j.pair)
  /\ Becomes(j, [j EXCEPT !.step = "written"])
  /\ Unread /\ UNCHANGED rows

\* removeFriend: both DELETEs.
Remove(j) ==
  /\ j.op = "remove" /\ j.step = "sent" /\ First(j)
  /\ LET gone == {p \in Both(j.pair) : rows[p].status = "accepted"} IN
       /\ rows' = [p \in Pair |-> IF p \in gone THEN Deleted ELSE rows[p]]
       /\ Becomes(j, [j EXCEPT !.step = "written",
                        !.n = IF gone \cup (friendships \cap Both(j.pair)) = {} THEN 0 ELSE 1])
  /\ friendships' = friendships \ Both(j.pair)
  /\ Unread

-----------------------------------------------------------------------------
(* The server tells the clients *)

Message(j, type) == [type |-> type, pair |-> j.pair, n |-> j.n]

\* For the other user.  "friend_remove" names, as friend_id, its receiver.
Notice(j) ==
  CASE j.op = "request" -> IF j.n = j.k THEN <<Message(j, "friend_request")>> ELSE <<>>
    [] j.op = "accept"  -> <<Message(j, "friend_accept")>>
    [] j.op = "reject"  -> <<Message(j, "friend_reject")>>
    [] j.op = "remove"  -> <<Message(j, "friend_remove")>>

\* For the user who asked, on the connection it asked on.
Reply(j) ==
  CASE j.op = "request" -> <<Message(j, "done_request")>>
    [] j.op = "accept"  -> <<Message(j, "friend_accept"), Message(j, "done_accept")>>
    [] j.op = "reject"  -> <<Message(j, "done_reject")>>
    [] j.op = "remove"  -> IF j.n = 0 THEN <<>> ELSE <<Message(j, "done_remove")>>

Answerable(j) == link[j.user] = "on" /\ socket[j.user] = j.socket

\* sendToUser and sendJson; whoever has no socket finds the event in the queue.
Finish(j) ==
  LET u == j.user  v == Other(j.pair, j.user) IN
  /\ j.step = "written"
  /\ jobs' = jobs \ {j}
  /\ inbox' = [w \in User |->
       inbox[w] \o (IF w = u /\ Answerable(j) THEN Reply(j) ELSE <<>>)
                \o (IF w = v /\ link[v] # "off" THEN Notice(j) ELSE <<>>)]
  /\ queue' = [queue EXCEPT ![v] = IF link[v] = "off" THEN @ \o Notice(j) ELSE @]
  /\ UNCHANGED <<database, session, lists, missed, consent, events>>

\* A statement fails: the transaction is rolled back, or what is committed
\* is not told.
Fails(j) ==
  /\ events < MaxEvents /\ events' = events + 1
  /\ jobs' = jobs \ {j}
  /\ missed' = [u \in User |-> missed[u] \/ u \in {j.pair[1], j.pair[2]}]
  /\ UNCHANGED <<database, session, queue, inbox, lists, consent>>

-----------------------------------------------------------------------------
(* Connections: authenticateSocket *)

\* addConnection: from here on the client is sent what happens.
Join(u) ==
  /\ link[u] = "off"
  /\ link' = [link EXCEPT ![u] = "joining"]
  /\ missed' = [missed EXCEPT ![u] = FALSE]
  /\ UNCHANGED <<database, jobs, socket, read, snapshot, queue, inbox, lists, consent, events>>

Reads(u, what) ==
  /\ link[u] = "joining" /\ what \notin read[u]
  /\ read' = [read EXCEPT ![u] = @ \cup {what}]
  /\ UNCHANGED <<database, jobs, link, socket, queue, inbox, lists, missed, consent, events>>

FriendsOf(u) == {v \in User \ {u} : Both(<<u, v>>) \cap friendships # {}}

OutgoingOf(u) ==                    \* a bug: half of the UNION
  {[pair |-> p, n |-> rows[p].n] : p \in {p \in Pair : p[1] = u /\ rows[p].status = "pending"}}
PendingOf(u) ==
  {[pair |-> p, n |-> rows[p].n] : p \in {p \in Pair : u \in {p[1], p[2]}
                                                     /\ rows[p].status = "pending"}}

\* getFriends.
ReadFriends(u) ==
  /\ Reads(u, "friends")
  /\ snapshot' = [snapshot EXCEPT ![u].friends = FriendsOf(u)]

\* getPendingFriendRequests.
ReadPending(u) ==
  /\ Reads(u, "pending")
  /\ snapshot' = [snapshot EXCEPT ![u].pending = PendingOf(u)]

\* drainQueuedEvents drops what is too old, then auth_ok says what was read.
AuthOk(u) ==
  /\ read[u] = {"friends", "pending"}
  /\ link' = [link EXCEPT ![u] = "on"]
  /\ \E old \in 0..Len(queue[u]) :
       inbox' = [inbox EXCEPT ![u] =
         @ \o SubSeq(queue[u], old + 1, Len(queue[u]))
           \o <<[type |-> "auth_ok", friends |-> snapshot[u].friends,
                 pending |-> snapshot[u].pending]>>]
  /\ queue' = [queue EXCEPT ![u] = <<>>]
  /\ read' = [read EXCEPT ![u] = {}]
  /\ snapshot' = [snapshot EXCEPT ![u] = NothingRead]
  /\ UNCHANGED <<database, jobs, socket, lists, missed, consent, events>>

\* The connection breaks, or the client restarts.  The last things it sent may
\* not have reached the server; what did is still handled.
Drop(u) ==
  /\ link[u] # "off" /\ events < MaxEvents
  /\ events' = events + 1
  /\ link' = [link EXCEPT ![u] = "off"]
  /\ socket' = [socket EXCEPT ![u] = @ + 1]
  /\ read' = [read EXCEPT ![u] = {}]
  /\ snapshot' = [snapshot EXCEPT ![u] = NothingRead]
  /\ inbox' = [inbox EXCEPT ![u] = <<>>]
  /\ \E last \in 0..events :
       jobs' = {j \in jobs : j.user = u /\ j.socket = socket[u] /\ j.step = "sent" => j.k <= last}
  /\ \/ UNCHANGED <<incoming, outgoing>>
     \/ /\ incoming' = [incoming EXCEPT ![u] = {}]
        /\ outgoing' = [outgoing EXCEPT ![u] = {}]
  /\ UNCHANGED <<database, queue, friends, missed, consent>>

-----------------------------------------------------------------------------
(* The client: FriendManager *)

Takes(u, types) ==
  /\ inbox[u] # <<>> /\ Head(inbox[u]).type \in types
  /\ inbox' = [inbox EXCEPT ![u] = Tail(@)]
  /\ UNCHANGED <<database, jobs, session, queue, missed, consent, events>>

Named(e) == [pair |-> e.pair, n |-> e.n]

\* _on_friend_request, and the answer to the client's own request: it may turn
\* out to be the other one's, or an old one.
OnRequest(u) ==
  /\ Takes(u, {"friend_request", "done_request"})
  /\ LET r == Named(Head(inbox[u])) IN
       \/ r.pair[2] = u /\ incoming' = [incoming EXCEPT ![u] = @ \cup {r}] /\ UNCHANGED outgoing
       \/ r.pair[1] = u /\ outgoing' = [outgoing EXCEPT ![u] = @ \cup {r}] /\ UNCHANGED incoming
  /\ UNCHANGED friends

\* _on_friend_accept.
OnFriendAccept(u) ==
  /\ Takes(u, {"friend_accept"})
  /\ LET v == Other(Head(inbox[u]).pair, u) IN
       /\ friends' = [friends EXCEPT ![u] = @ \cup {v}]
       /\ outgoing' = [outgoing EXCEPT ![u] = {r \in @ : r.pair[2] # v}]
  /\ UNCHANGED incoming

\* _on_friend_reject, and the answers to a decision: the request is forgotten.
OnDecision(u) ==
  /\ Takes(u, {"friend_reject", "done_accept", "done_reject"})
  /\ incoming' = [incoming EXCEPT ![u] = @ \ {Named(Head(inbox[u]))}]
  /\ outgoing' = [outgoing EXCEPT ![u] = @ \ {Named(Head(inbox[u]))}]
  /\ UNCHANGED friends

\* _on_friend_remove, and the answer to a removal: friend_id leaves the list.
OnRemove(u) ==
  /\ Takes(u, {"friend_remove", "done_remove"})
  /\ friends' = [friends EXCEPT ![u] = @ \ {Head(inbox[u]).pair[2]}]
  /\ UNCHANGED <<incoming, outgoing>>

\* _on_auth_ok adds; it takes nothing away.
OnAuthOk(u) ==
  /\ Takes(u, {"auth_ok"})
  /\ LET e == Head(inbox[u]) IN
       /\ friends' = [friends EXCEPT ![u] = @ \cup e.friends]
       /\ incoming' = [incoming EXCEPT ![u] = @ \cup {r \in e.pending : r.pair[2] = u}]
       /\ outgoing' = [outgoing EXCEPT ![u] = @ \cup {r \in e.pending : r.pair[1] = u}]

-----------------------------------------------------------------------------

Asks(u) ==
  \/ \E p \in Pair : p[1] = u /\ SendRequest(p)
  \/ \E r \in incoming[u] : AcceptRequest(u, r) \/ RejectRequest(u, r)
  \/ \E v \in friends[u] \ {u} : RemoveFriend(u, v)

Handles(j) ==
  \/ ReadRequest(j) \/ ReadDecision(j)
  \/ Insert(j) \/ Repair(j) \/ Accept(j) \/ Reject(j) \/ Remove(j)
  \/ Finish(j) \/ Fails(j)

Authenticates(u) == Join(u) \/ ReadFriends(u) \/ ReadPending(u) \/ AuthOk(u) \/ Drop(u)

Hears(u) ==
  \/ OnRequest(u) \/ OnFriendAccept(u) \/ OnDecision(u) \/ OnRemove(u) \/ OnAuthOk(u)

Next ==
  \/ \E u \in User : Asks(u) \/ Authenticates(u) \/ Hears(u)
  \/ \E j \in jobs : Handles(j)

Spec == Init /\ [][Next]_vars

-----------------------------------------------------------------------------
(* Properties *)

\* Nobody is anybody's friend, at the server or in a client's list, unless one
\* of them once asked and the other accepted that: not by asking each other,
\* asking twice, or by anything that was overtaken.
ConsentFirst ==
  /\ friendships \subseteq wanted \cap agreed
  /\ \A u \in User : \A v \in friends[u] : Both(<<u, v>>) \cap wanted \cap agreed # {}

\* The two tables agree: an accepted request is a friendship, however
\* acceptances, removals and repairs of both users overlap.
AcceptedIsFriend == \A p \in Pair : rows[p].status = "accepted" => p \in friendships

\* Nothing under way, and u was told everything since it connected.
UpToDate(u) == jobs = {} /\ link[u] = "on" /\ inbox[u] = <<>> /\ ~missed[u]

\* A pending request is there for its addressee to decide, after any offline
\* time, restart, lost decision or crossed request.
PendingIsShown ==
  \A p \in Pair : rows[p].status = "pending" /\ UpToDate(p[2]) =>
    [pair |-> p, n |-> rows[p].n] \in incoming[p[2]]

-----------------------------------------------------------------------------
(* A claim the program does not live up to *)

\* README.md: clients "send/accept/remove" friends.  Whoever was told everything
\* lists friends only.
RemovalIsSeen ==
  \A u \in User : UpToDate(u) => \A v \in friends[u] : v \in FriendsOf(u)

=============================================================================
