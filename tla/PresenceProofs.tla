--------------------------- MODULE PresenceProofs ---------------------------
(***************************************************************************)
(* In Presence a status that the user picked stays and reaches the server, *)
(* the list and the chat windows have known friends, and the changes of    *)
(* the friends that are not lost show in them, for any users, statuses and *)
(* bounds.                                                                 *)
(***************************************************************************)
EXTENDS Presence, TLAPS

-----------------------------------------------------------------------------
(* The user's own status *)

\* The idle timer and activity only act on a status that is theirs.
PickInv == pick = "online" \/ (mine = pick /\ ~autoIdle)

LEMMA PickInit == Init => PickInv
BY DEF Init, PickInv

LEMMA PickSet == ASSUME NEW s, SetStatus(s) PROVE PickInv'
BY DEF SetStatus, PickInv

LEMMA PickTurns ==
  ASSUME PickInv, mine = "online" \/ autoIdle, pick' = pick PROVE PickInv'
BY DEF PickInv

LEMMA PickKept == ASSUME PickInv, UNCHANGED <<mine, autoIdle, pick>> PROVE PickInv'
BY DEF PickInv

LEMMA PickClient == ASSUME PickInv, Client PROVE PickInv'
<1>1. ASSUME NEW s \in Choices, PickStatus(s) PROVE PickInv'
  BY <1>1, PickKept DEF PickStatus
<1>2. CASE RunJob
  <2>1. CASE UNCHANGED <<mine, autoIdle, pick>>
    BY <2>1, PickKept
  <2>2. CASE SetStatus(Head(jobs).status)
    BY <2>2, PickSet
  <2>3. QED BY <1>2, <2>1, <2>2 DEF RunJob
<1>3. CASE MarkActive
  <2>1. CASE autoIdle
    BY <1>3, <2>1, PickTurns DEF MarkActive
  <2>2. CASE UNCHANGED <<mine, autoIdle, pick>>
    BY <2>2, PickKept
  <2>3. QED BY <1>3, <2>1, <2>2 DEF MarkActive
<1>4. CASE CheckIdle
  BY <1>4, PickTurns DEF CheckIdle, MayIdle
<1>5. CASE StartSession
  BY <1>5, PickSet DEF StartSession
<1>6. CASE Rest \/ OnAuthOk \/ OnPresenceUpdate \/ OnFriendAccept \/ OnFriendReject \/ OnRemoved
  BY <1>6, PickKept
     DEF Rest, OnAuthOk, OnPresenceUpdate, OnFriendAccept, OnFriendReject, OnRemoved, own, history
<1>7. ASSUME NEW e \in Entry, RemoveFriend(e) \/ SelectFriend(e) \/ CloseChat(e) PROVE PickInv'
  BY <1>7, PickKept DEF RemoveFriend, SelectFriend, CloseChat, own, history
<1>8. CASE CloseProfile \/ \E f \in Friend : ShowProfile(f)
  BY <1>8, PickKept DEF CloseProfile, ShowProfile, own, history
<1>9. QED BY <1>1, <1>2, <1>3, <1>4, <1>5, <1>6, <1>7, <1>8 DEF Client

LEMMA PickServer == ASSUME PickInv, Server PROVE PickInv'
<1>1. UNCHANGED <<mine, autoIdle, pick>>
  BY DEF Server, FriendChanges, FriendAccepts, FriendLeaves, FriendRejects, Register, Answer,
         Serve, Drop, Notice, client, own, history
<1>2. QED BY <1>1, PickKept

\* A status that the user picked stays until the next pick: neither the idle
\* timer nor any activity replaces it.
THEOREM PickedStatusStays == Spec => []PickStays
<1>1. ASSUME PickInv, [Next]_vars PROVE PickInv'
  <2>1. CASE UNCHANGED vars
    BY <1>1, <2>1, PickKept DEF vars, own, history
  <2>2. QED BY <1>1, <2>1, PickClient, PickServer DEF Next
<1>2. PickInv => PickStays
  BY DEF PickInv, PickStays
<1>3. QED BY <1>1, <1>2, PickInit, PTL DEF Spec

-----------------------------------------------------------------------------
(* The list and the chat windows *)

LEMMA Lists == "absent" \notin Status
BY DEF Status

LEMMA Entries ==
  /\ Friend \subseteq Entry /\ Refusable \subseteq Entry
  /\ \A r \in Refusable : r \notin Friend
BY EntryAssumption DEF Entry

\* What is on its way is well formed.
WireInv ==
  /\ inbox \in Seq(Message) /\ queue \in Seq(Message)
  /\ friends \subseteq Friend /\ snapshot \subseteq Friend

\* Of the users, the list has no one else but known friends, also before those of
\* this session came, and a chat window is a known friend's or a stray.
ShownInv ==
  /\ known \subseteq Friend
  /\ cache \in [Entry -> Status]
  /\ list \in [Entry -> Shown] /\ chat \in [Entry -> Shown]
  /\ profile \subseteq Friend /\ strays \subseteq Entry
  /\ \A f \in Friend : list[f] # Absent => f \in known
  /\ \A e \in Entry : chat[e] # Absent => e \in known \cup strays
  /\ loaded => \A f \in known : list[f] # Absent

IInv == WireInv /\ ShownInv

\* What the client sends, now or later.
SentInv == jobs \in Seq(Job) /\ outbox \in Seq(Request)

LEMMA ListInit == Init => IInv
<1> SUFFICES ASSUME Init PROVE IInv
  OBVIOUS
<1>1. WireInv
  BY DEF Init, WireInv
<1>2. ShownInv
  <2>1. /\ cache \in [Entry -> Status] /\ list \in [Entry -> Shown] /\ chat \in [Entry -> Shown]
        /\ \A e \in Entry : list[e] = Absent /\ chat[e] = Absent
    BY DEF Init, Status, Shown
  <2>2. known \subseteq Friend /\ profile = {} /\ strays = {} /\ ~loaded
    BY DEF Init
  <2>3. QED BY <2>1, <2>2, Entries DEF ShownInv
<1>3. QED BY <1>1, <1>2 DEF IInv

LEMMA Read ==
  ASSUME NEW S, NEW q \in Seq(S), q # <<>>
  PROVE  Head(q) \in S /\ Tail(q) \in Seq(S)
OBVIOUS

LEMMA Empty == ASSUME NEW S PROVE <<>> \in Seq(S)
OBVIOUS

LEMMA Written == ASSUME NEW S, NEW q \in Seq(S), NEW x \in S PROVE Append(q, x) \in Seq(S)
OBVIOUS

LEMMA Kept ==
  ASSUME NEW S, NEW q \in Seq(S), NEW n \in 0 .. Len(q)
  PROVE  SubSeq(q, n + 1, Len(q)) \in Seq(S)
OBVIOUS

LEMMA Joined == ASSUME NEW S, NEW q \in Seq(S), NEW r \in Seq(S) PROVE q \o r \in Seq(S)
OBVIOUS

LEMMA Parts ==
  ASSUME NEW m \in Message
  PROVE  /\ m.type = "auth_ok" => m.friends \subseteq Friend
         /\ m.type = "presence_update" => m.friend \in Friend /\ m.status \in Status
         /\ m.type \in {"friend_accept", "removed"} => m.friend \in Friend
         /\ m.type = "friend_reject" => m.request \in Refusable
BY DEF Message

LEMMA Updates ==
  ASSUME NEW f \in Friend, NEW s \in Status
  PROVE  [type |-> "presence_update", friend |-> f, status |-> s] \in Message
BY DEF Message

LEMMA Accepts == ASSUME NEW f \in Friend PROVE [type |-> "friend_accept", friend |-> f] \in Message
BY DEF Message

LEMMA Removals == ASSUME NEW f \in Friend PROVE [type |-> "removed", friend |-> f] \in Message
BY DEF Message

LEMMA Rejects ==
  ASSUME NEW r \in Refusable PROVE [type |-> "friend_reject", request |-> r] \in Message
BY DEF Message

LEMMA Answers ==
  ASSUME NEW set, set \subseteq Friend PROVE [type |-> "auth_ok", friends |-> set] \in Message
BY DEF Message

\* A step that reads no message and touches no window.
LEMMA ListKept ==
  ASSUME IInv, UNCHANGED <<cache, known, loaded, snapshot, windows, inbox, queue, friends>>
  PROVE  IInv'
BY DEF IInv, WireInv, ShownInv, windows

\* What the snapshot and load_friends do: everyone known is listed.
LEMMA ListSet ==
  ASSUME ShownInv, NEW set, set \subseteq Friend,
         known' = known \cup set, SetFriends(known'), Replay(known'), UNCHANGED cache
  PROVE  ShownInv'
<1>1. known' \subseteq Friend
  BY DEF ShownInv
<1>2. /\ list' \in [Entry -> Shown]
      /\ \A f \in Entry : list'[f] # Absent <=> f \in known'
  BY <1>1, Lists DEF ShownInv, SetFriends, List, StatusOf, Shown, Absent
<1>3. /\ chat' \in [Entry -> Shown]
      /\ \A e \in Entry : chat'[e] # Absent => chat[e] # Absent
  BY DEF ShownInv, Replay, StatusOf, Shown
<1>4. UNCHANGED <<profile, strays>>
  BY DEF SetFriends
<1>5. QED BY <1>1, <1>2, <1>3, <1>4, Entries DEF ShownInv

LEMMA StepAuthOk == ASSUME IInv, OnAuthOk PROVE IInv'
<1>1. /\ inbox # <<>> /\ Head(inbox).type = "auth_ok" /\ inbox' = Tail(inbox)
      /\ snapshot' = Head(inbox).friends /\ UNCHANGED <<cache, queue, friends>>
      /\ known' = known \cup snapshot' /\ SetFriends(known') /\ Replay(known')
  BY DEF OnAuthOk, Takes, UpsertData, Upserted, server
<1>2. Head(inbox) \in Message /\ Tail(inbox) \in Seq(Message)
  BY <1>1, Read DEF IInv, WireInv
<1>3. snapshot' \subseteq Friend
  BY <1>1, <1>2, Parts
<1>4. WireInv'
  BY <1>1, <1>2, <1>3 DEF IInv, WireInv
<1>5. ShownInv'
  BY <1>1, <1>3, ListSet DEF IInv
<1>6. QED BY <1>4, <1>5 DEF IInv

LEMMA StepSession == ASSUME IInv, StartSession PROVE IInv'
<1>1. UNCHANGED <<cache, loaded, snapshot, inbox, queue, friends>>
  BY DEF StartSession, server
<1>2. WireInv'
  BY <1>1 DEF IInv, WireInv
<1>3. CASE LoadFriends
  <2>1. known' = known \cup snapshot /\ SetFriends(known') /\ Replay(known')
    BY <1>3 DEF LoadFriends, UpsertData, Upserted
  <2>2. snapshot \subseteq Friend
    BY DEF IInv, WireInv
  <2>3. ShownInv'
    BY <1>1, <2>1, <2>2, ListSet DEF IInv
  <2>4. QED BY <1>2, <2>3 DEF IInv
<1>4. CASE UNCHANGED <<known, windows>>
  BY <1>1, <1>4, ListKept
<1>5. QED BY <1>3, <1>4 DEF StartSession

LEMMA StepUpdate == ASSUME IInv, OnPresenceUpdate PROVE IInv'
<1> DEFINE f == Head(inbox).friend
           s == Head(inbox).status
<1>1. /\ inbox # <<>> /\ Head(inbox).type = "presence_update" /\ inbox' = Tail(inbox)
      /\ cache' = [cache EXCEPT ![f] = s]
      /\ UNCHANGED <<known, loaded, snapshot, profile, strays, queue, friends>>
      /\ \/ UNCHANGED <<list, chat>>
         \/ loaded /\ f \in known /\ OnFriendUpdate(f, s)
  BY DEF OnPresenceUpdate, Takes, Caches, IsKnown, server
<1>2. Head(inbox) \in Message /\ Tail(inbox) \in Seq(Message)
  BY <1>1, Read DEF IInv, WireInv
<1>3. f \in Friend /\ s \in Status
  BY <1>1, <1>2, Parts
<1> HIDE DEF f, s
<1>4. WireInv'
  BY <1>1, <1>2 DEF IInv, WireInv
<1>5. cache' \in [Entry -> Status]
  BY <1>1, <1>3, Entries DEF IInv, ShownInv
<1>6. CASE UNCHANGED <<list, chat>>
  BY <1>1, <1>4, <1>5, <1>6 DEF IInv, ShownInv
<1>7. CASE f \in known /\ OnFriendUpdate(f, s)
  <2>1. /\ list' = [list EXCEPT ![f] = s]
        /\ chat' = [chat EXCEPT ![f] = IF @ = Absent THEN Absent ELSE s]
    BY <1>7 DEF OnFriendUpdate, UpsertFriend, SetWindowStatus
  <2>2. /\ list' \in [Entry -> Shown] /\ chat' \in [Entry -> Shown]
        /\ \A g \in Entry : list'[g] = IF g = f THEN s ELSE list[g]
        /\ \A g \in Entry : chat'[g] # Absent => chat[g] # Absent
    BY <1>3, <2>1, Entries DEF IInv, ShownInv, Shown
  <2>3. s # Absent
    BY <1>3, Lists DEF Absent
  <2>4. ShownInv'
    BY <1>1, <1>5, <1>7, <2>2, <2>3, Entries DEF IInv, ShownInv
  <2>5. QED BY <1>4, <2>4 DEF IInv
<1>8. QED BY <1>1, <1>6, <1>7

LEMMA StepAccept == ASSUME IInv, OnFriendAccept PROVE IInv'
<1> DEFINE f == Head(inbox).friend
<1>1. /\ inbox # <<>> /\ Head(inbox).type = "friend_accept" /\ inbox' = Tail(inbox)
      /\ known' = known \cup {f} /\ list' = [list EXCEPT ![f] = "offline"]
      /\ UNCHANGED <<cache, loaded, snapshot, chat, profile, strays, queue, friends>>
  BY DEF OnFriendAccept, Takes, UpsertData, Upserted, UpsertFriend, server
<1>2. Head(inbox) \in Message /\ Tail(inbox) \in Seq(Message)
  BY <1>1, Read DEF IInv, WireInv
<1>3. f \in Friend
  BY <1>1, <1>2, Parts
<1> HIDE DEF f
<1>4. WireInv'
  BY <1>1, <1>2 DEF IInv, WireInv
<1>5. /\ list' \in [Entry -> Shown]
      /\ \A g \in Entry : list'[g] = IF g = f THEN "offline" ELSE list[g]
  BY <1>1, <1>3, Entries DEF IInv, ShownInv, Shown, Status
<1>6. "offline" # Absent
  BY DEF Absent
<1>7. ShownInv'
  BY <1>1, <1>3, <1>5, <1>6, Entries DEF IInv, ShownInv
<1>8. QED BY <1>4, <1>7 DEF IInv

LEMMA Removed ==
  ASSUME ShownInv, NEW e \in Entry, RemoveLocalFriend(e) PROVE ShownInv'
<1>1. /\ known' = known \ {e} /\ loaded' = loaded /\ profile' = profile
      /\ cache' = [cache EXCEPT ![e] = "offline"]
      /\ list' = [list EXCEPT ![e] = Absent] /\ chat' = [chat EXCEPT ![e] = Absent]
      /\ strays' = strays \ {e}
  BY DEF RemoveLocalFriend, CloseChatWindow, Deleted
<1>2. /\ cache' \in [Entry -> Status]
      /\ list' \in [Entry -> Shown] /\ chat' \in [Entry -> Shown]
  BY <1>1 DEF ShownInv, Shown, Status
<1>3. /\ \A g \in Entry : list'[g] = IF g = e THEN Absent ELSE list[g]
      /\ \A g \in Entry : chat'[g] = IF g = e THEN Absent ELSE chat[g]
  BY <1>1 DEF ShownInv
<1>4. QED BY <1>1, <1>2, <1>3, Entries DEF ShownInv

LEMMA StepRemoved == ASSUME IInv, OnRemoved PROVE IInv'
<1>1. /\ inbox # <<>> /\ Head(inbox).type = "removed" /\ inbox' = Tail(inbox)
      /\ RemoveLocalFriend(Head(inbox).friend) /\ UNCHANGED <<queue, friends>>
  BY DEF OnRemoved, Takes, server
<1>2. Head(inbox) \in Message /\ Tail(inbox) \in Seq(Message)
  BY <1>1, Read DEF IInv, WireInv
<1>3. Head(inbox).friend \in Friend
  BY <1>1, <1>2, Parts
<1>4. ShownInv'
  BY <1>1, <1>3, Removed, Entries DEF IInv
<1>5. WireInv'
  BY <1>1, <1>2 DEF IInv, WireInv, RemoveLocalFriend
<1>6. QED BY <1>4, <1>5 DEF IInv

LEMMA StepReject == ASSUME IInv, OnFriendReject PROVE IInv'
<1> DEFINE r == Head(inbox).request
<1>1. inbox # <<>> /\ Head(inbox).type = "friend_reject" /\ inbox' = Tail(inbox)
      /\ list' = [list EXCEPT ![r] = "rejected"]
      /\ UNCHANGED <<cache, known, loaded, snapshot, chat, profile, strays, queue, friends>>
  BY DEF OnFriendReject, Takes, UpsertFriend, roster, server
<1>2. Head(inbox) \in Message /\ Tail(inbox) \in Seq(Message)
  BY <1>1, Read DEF IInv, WireInv
<1>3. r \in Refusable
  BY <1>1, <1>2, Parts
<1> HIDE DEF r
<1>4. /\ list' \in [Entry -> Shown]
      /\ \A f \in Friend : list'[f] = list[f]
  BY <1>1, <1>3, Entries DEF IInv, ShownInv, Shown
<1>5. WireInv'
  BY <1>1, <1>2 DEF IInv, WireInv
<1>6. ShownInv'
  BY <1>1, <1>4 DEF IInv, ShownInv
<1>7. QED BY <1>5, <1>6 DEF IInv

LEMMA StepWindows ==
  ASSUME IInv, NEW e \in Entry, RemoveFriend(e) \/ SelectFriend(e) \/ CloseChat(e)
  PROVE  IInv'
<1>1. CASE RemoveFriend(e)
  <2>1. RemoveLocalFriend(e) /\ UNCHANGED <<inbox, queue, friends>>
    BY <1>1, Zenon DEF RemoveFriend, server
  <2>2. QED BY <2>1, Removed DEF IInv, WireInv, RemoveLocalFriend
<1>2. CASE SelectFriend(e)
  <2>1. /\ chat' = [chat EXCEPT ![e] = cache[e]] /\ strays' = strays \cup ({e} \ known)
        /\ UNCHANGED <<cache, known, loaded, snapshot, list, profile, inbox, queue, friends>>
    BY <1>2 DEF SelectFriend, StatusOf, roster, server, wires
  <2>2. /\ chat' \in [Entry -> Shown]
        /\ \A g \in Entry : g # e => chat'[g] = chat[g]
    BY <2>1 DEF IInv, ShownInv, Shown
  <2>3. \A g \in Entry : chat'[g] # Absent => g \in known' \cup strays'
    BY <2>1, <2>2 DEF IInv, ShownInv
  <2>4. QED BY <2>1, <2>2, <2>3 DEF IInv, WireInv, ShownInv
<1>3. CASE CloseChat(e)
  <2>1. /\ chat' = [chat EXCEPT ![e] = Absent] /\ strays' = strays \ {e}
        /\ UNCHANGED <<cache, known, loaded, snapshot, list, profile, inbox, queue, friends>>
    BY <1>3 DEF CloseChat, CloseChatWindow, roster, server, wires
  <2>2. /\ chat' \in [Entry -> Shown]
        /\ \A g \in Entry : chat'[g] = IF g = e THEN Absent ELSE chat[g]
    BY <2>1 DEF IInv, ShownInv, Shown
  <2>3. QED BY <2>1, <2>2 DEF IInv, WireInv, ShownInv
<1>4. QED BY <1>1, <1>2, <1>3

LEMMA StepProfile ==
  ASSUME IInv, CloseProfile \/ \E f \in Friend : ShowProfile(f) PROVE IInv'
<1>1. UNCHANGED <<cache, known, loaded, snapshot, list, chat, strays, inbox, queue, friends>>
  BY DEF CloseProfile, ShowProfile, roster, server, wires
<1>2. profile' \subseteq Friend
  BY DEF CloseProfile, ShowProfile
<1>3. QED BY <1>1, <1>2 DEF IInv, WireInv, ShownInv

LEMMA StepOwn ==
  ASSUME IInv, (\E s \in Choices : PickStatus(s)) \/ RunJob \/ MarkActive \/ Rest \/ CheckIdle
  PROVE  IInv'
<1>1. UNCHANGED <<cache, roster, windows, server, inbox>>
  BY DEF PickStatus, RunJob, MarkActive, Rest, CheckIdle, wires
<1>2. QED BY <1>1, ListKept DEF roster, server

LEMMA ListClient == ASSUME IInv, Client PROVE IInv'
BY StepOwn, StepAuthOk, StepUpdate, StepAccept, StepReject, StepRemoved, StepWindows, StepProfile,
   StepSession DEF Client

-----------------------------------------------------------------------------
(* What the client sends is well formed *)

LEMMA SentJob ==
  ASSUME SentInv, NEW job \in Job, jobs' = Append(jobs, job), outbox' = outbox PROVE SentInv'
BY Written DEF SentInv

LEMMA SentStatus ==
  ASSUME SentInv, NEW s \in Status, Send(s) PROVE outbox' \in Seq(Request)
<1>1. [type |-> "status_update", status |-> s] \in Request
  BY DEF Request
<1>2. QED BY <1>1, Written DEF Send, SentInv

LEMMA SentKept == ASSUME SentInv, UNCHANGED <<jobs, outbox>> PROVE SentInv'
BY DEF SentInv

LEMMA SentTurns ==
  ASSUME SentInv, NEW s \in Status, NEW auto, Turns(s, auto), outbox' = outbox PROVE SentInv'
<1>1. [type |-> "send", status |-> s] \in Job
  BY DEF Job
<1>2. QED BY <1>1, SentJob DEF Turns

LEMMA SentClient == ASSUME SentInv, Client PROVE SentInv'
<1> "online" \in Status /\ "idle" \in Status
  BY DEF Status
<1>1. ASSUME NEW s \in Choices, PickStatus(s) PROVE SentInv'
  <2>1. [type |-> "set_status", status |-> s] \in Job
    BY StatusAssumption DEF Job
  <2>2. QED BY <1>1, <2>1, SentJob DEF PickStatus, wires
<1>2. CASE RunJob
  <2>1. Head(jobs) \in Job /\ jobs' \in Seq(Job)
    BY <1>2, Read DEF RunJob, SentInv
  <2>2. Head(jobs).status \in Status
    BY <2>1 DEF Job
  <2>3. Send(Head(jobs).status)
    BY <1>2 DEF RunJob, SetStatus
  <2>4. QED BY <2>1, <2>2, <2>3, SentStatus DEF SentInv
<1>3. CASE MarkActive
  <2>1. CASE Turns("online", FALSE)
    BY <1>3, <2>1, SentTurns DEF MarkActive, wires
  <2>2. CASE UNCHANGED jobs
    BY <1>3, <2>2, SentKept DEF MarkActive, wires
  <2>3. QED BY <1>3, <2>1, <2>2 DEF MarkActive
<1>4. CASE CheckIdle
  BY <1>4, SentTurns DEF CheckIdle, wires
<1>5. CASE StartSession
  BY <1>5, SentStatus DEF StartSession, SetStatus, SentInv
<1>6. CASE Rest \/ OnAuthOk \/ OnPresenceUpdate \/ OnFriendAccept \/ OnFriendReject \/ OnRemoved
  BY <1>6, SentKept
     DEF Rest, OnAuthOk, OnPresenceUpdate, OnFriendAccept, OnFriendReject, OnRemoved, own, wires
<1>7. ASSUME NEW e \in Entry, RemoveFriend(e) PROVE SentInv'
  <2>1. [type |-> "friend_remove", friend |-> e] \in Request
    BY DEF Request
  <2>2. jobs' = jobs /\ outbox' = Append(outbox, [type |-> "friend_remove", friend |-> e])
    BY <1>7 DEF RemoveFriend, own
  <2>3. QED BY <2>1, <2>2, Written DEF SentInv
<1>8. CASE \/ \E e \in Entry : SelectFriend(e) \/ CloseChat(e)
           \/ CloseProfile \/ \E f \in Friend : ShowProfile(f)
  BY <1>8, SentKept DEF SelectFriend, CloseChat, CloseProfile, ShowProfile, own, wires
<1>9. QED BY <1>1, <1>2, <1>3, <1>4, <1>5, <1>6, <1>7, <1>8 DEF Client

LEMMA SentServer == ASSUME SentInv, Server PROVE SentInv'
<1>1. UNCHANGED jobs
  BY DEF Server, FriendChanges, FriendAccepts, FriendLeaves, FriendRejects, Register, Answer,
         Serve, Drop, Notice, client, own
<1>2. outbox' = outbox \/ outbox' = <<>> \/ (outbox # <<>> /\ outbox' = Tail(outbox))
  BY DEF Server, FriendChanges, FriendAccepts, FriendLeaves, FriendRejects, Register, Answer,
         Serve, Drop, Notice, wires
<1>3. outbox' \in Seq(Request)
  <2>1. CASE outbox' = outbox \/ outbox' = <<>>
    BY <2>1, Empty DEF SentInv
  <2>2. CASE outbox # <<>> /\ outbox' = Tail(outbox)
    BY <2>2, Read DEF SentInv
  <2>3. QED BY <1>2, <2>1, <2>2
<1>4. QED BY <1>1, <1>3 DEF SentInv

-----------------------------------------------------------------------------
(* The server sends what is well formed *)

LEMMA ListRelay ==
  ASSUME IInv, NEW m \in Message, Relay(m), UNCHANGED client, NEW f \in Friend,
         friends' \in {friends, friends \cup {f}}
  PROVE  IInv'
<1>1. inbox' \in Seq(Message) /\ queue' \in Seq(Message)
  BY Written DEF IInv, WireInv, Relay
<1>2. UNCHANGED <<cache, known, loaded, snapshot, list, chat, profile, strays>>
  BY DEF client, roster, windows
<1>3. QED BY <1>1, <1>2 DEF IInv, WireInv, ShownInv

LEMMA ListServes ==
  ASSUME IInv, inbox' \in Seq(Message), queue' \in Seq(Message), friends' \subseteq Friend,
         UNCHANGED <<cache, roster, windows>>
  PROVE  IInv'
BY DEF IInv, WireInv, ShownInv, roster, windows

LEMMA StepChanges ==
  ASSUME IInv, NEW f \in Friend, NEW s \in FriendStatus, FriendChanges(f, s) PROVE IInv'
<1>1. [type |-> "presence_update", friend |-> f, status |-> s] \in Message
  BY Updates, StatusAssumption
<1>2. UNCHANGED client /\ UNCHANGED friends
  BY DEF FriendChanges
<1>3. CASE Relay([type |-> "presence_update", friend |-> f, status |-> s])
  BY <1>1, <1>2, <1>3, ListRelay
<1>4. CASE UNCHANGED <<inbox, queue>>
  BY <1>2, <1>4, ListKept DEF client, roster
<1>5. QED BY <1>3, <1>4 DEF FriendChanges

LEMMA StepEdits ==
  ASSUME IInv, NEW f \in Friend, FriendAccepts(f) \/ FriendLeaves(f) PROVE IInv'
<1>1. CASE FriendAccepts(f)
  BY <1>1, Accepts, ListRelay DEF FriendAccepts
<1>2. CASE FriendLeaves(f)
  <2>1. UNCHANGED <<cache, roster, windows, inbox, queue>> /\ friends' = friends \ {f}
    BY <1>2 DEF FriendLeaves, client, wires
  <2>2. QED BY <2>1, ListServes DEF IInv, WireInv
<1>3. QED BY <1>1, <1>2

LEMMA StepRejects == ASSUME IInv, NEW r \in Refusable, FriendRejects(r) PROVE IInv'
<1>1. /\ Relay([type |-> "friend_reject", request |-> r])
      /\ UNCHANGED <<cache, roster, windows, friends>>
  BY DEF FriendRejects, client
<1>2. inbox' \in Seq(Message) /\ queue' \in Seq(Message)
  BY <1>1, Rejects, Written DEF IInv, WireInv, Relay
<1>3. QED BY <1>1, <1>2, ListServes DEF IInv, WireInv

LEMMA StepAnswer == ASSUME IInv, Answer PROVE IInv'
<1>1. PICK old \in 0 .. Len(queue) :
        inbox' = inbox \o Append(SubSeq(queue, old + 1, Len(queue)),
                                 [type |-> "auth_ok", friends |-> friends])
  BY DEF Answer
<1>2. [type |-> "auth_ok", friends |-> friends] \in Message
  BY Answers DEF IInv, WireInv
<1>3. SubSeq(queue, old + 1, Len(queue)) \in Seq(Message)
  BY Kept DEF IInv, WireInv
<1>4. inbox' \in Seq(Message)
  BY <1>1, <1>2, <1>3, Written, Joined DEF IInv, WireInv
<1>5. queue' = <<>> /\ friends' = friends /\ UNCHANGED <<cache, roster, windows>>
  BY DEF Answer, client
<1>6. queue' \in Seq(Message) /\ friends' \subseteq Friend
  BY <1>5 DEF IInv, WireInv
<1>7. QED BY <1>4, <1>5, <1>6, ListServes

LEMMA StepServe == ASSUME IInv, SentInv, Serve PROVE IInv'
<1>1. UNCHANGED <<cache, roster, windows, queue>>
  BY DEF Serve, client
<1>2. inbox' \in Seq(Message) /\ friends' \subseteq Friend
  <2>1. CASE UNCHANGED <<friends, inbox>>
    BY <2>1 DEF IInv, WireInv
  <2>2. CASE Unfriend(Head(outbox).friend)
    <3>1. CASE Head(outbox).friend \in friends
      <4>1. [type |-> "removed", friend |-> Head(outbox).friend] \in Message
        BY <3>1, Removals DEF IInv, WireInv
      <4>2. QED BY <2>2, <3>1, <4>1, Written DEF Unfriend, IInv, WireInv
    <3>2. CASE Head(outbox).friend \notin friends
      BY <2>2, <3>2 DEF Unfriend, IInv, WireInv
    <3>3. QED BY <3>1, <3>2
  <2>3. QED BY <2>1, <2>2 DEF Serve
<1>3. QED BY <1>1, <1>2, ListServes DEF IInv, WireInv

LEMMA StepLink == ASSUME IInv, Register \/ Drop \/ Notice PROVE IInv'
<1>1. UNCHANGED <<cache, roster, windows, queue, friends>> /\ inbox' \in {inbox, <<>>}
  BY DEF Register, Drop, Notice, client, wires
<1>2. inbox' \in Seq(Message) /\ queue' \in Seq(Message) /\ friends' \subseteq Friend
  <2>1. queue' = queue /\ friends' = friends
    BY <1>1
  <2>2. inbox' = inbox \/ inbox' = <<>>
    BY <1>1
  <2>3. inbox' \in Seq(Message)
    BY <2>2, Empty DEF IInv, WireInv
  <2>4. QED BY <2>1, <2>3 DEF IInv, WireInv
<1>3. QED BY <1>1, <1>2, ListServes

LEMMA ListServer == ASSUME IInv, SentInv, Server PROVE IInv'
BY StepChanges, StepEdits, StepRejects, StepAnswer, StepServe, StepLink DEF Server

-----------------------------------------------------------------------------
(* The theorem *)

LEMMA Safe == Spec => [](IInv /\ SentInv)
<1>1. Init => IInv /\ SentInv
  <2>1. Init => SentInv
    BY DEF Init, SentInv
  <2>2. QED BY <2>1, ListInit
<1>2. ASSUME IInv, SentInv, [Next]_vars PROVE IInv' /\ SentInv'
  <2>1. CASE UNCHANGED vars
    <3>1. UNCHANGED <<cache, roster, windows, server, wires, jobs>>
      BY <2>1 DEF vars, own
    <3>2. QED BY <1>2, <3>1, ListKept, SentKept DEF roster, server, wires
  <2>2. CASE Client
    BY <1>2, <2>2, ListClient, SentClient
  <2>3. CASE Server
    BY <1>2, <2>3, ListServer, SentServer
  <2>4. QED BY <1>2, <2>1, <2>2, <2>3 DEF Next
<1>3. QED BY <1>1, <1>2, PTL DEF Spec

\* Once the friends of the session came, the users in the list are the friends of
\* the tables, whatever comes late, and a chat window goes with its friend unless
\* it was opened for no friend.
THEOREM ListFollowsTables == Spec => []ListedAreKnown
<1>1. IInv => ListedAreKnown
  BY DEF IInv, ShownInv, ListedAreKnown
<1>2. QED BY <1>1, Safe, PTL

-----------------------------------------------------------------------------
(* The user's status on its way to the server *)

Linked == (authenticated \/ inbox # <<>>) => link # "down"

\* Unless activity overtook a pick, picks wait behind changes that were made
\* already, and the last of these is what the user sees.
SendsFirst ==
  ~overtaken => \A i, j \in DOMAIN jobs :
    i < j /\ jobs[i].type = "set_status" => jobs[j].type = "set_status"

LastSend ==
  ~overtaken => \A i \in DOMAIN jobs :
    jobs[i].type = "send" /\ (\A j \in DOMAIN jobs : j > i => jobs[j].type # "send")
    => jobs[i].status = mine

\* Before the session began, nothing but "online" can be on its way.
Connecting ==
  task = "connecting" =>
    ~timer /\ \A i \in DOMAIN jobs : jobs[i].type = "send" => jobs[i].status = "online"

\* The server has the status, or gets it as the last one.
Told(o, t) ==
  \/ t = mine /\ \A i \in DOMAIN o : o[i].type # "status_update"
  \/ \E i \in DOMAIN o :
       /\ o[i].type = "status_update" /\ o[i].status = mine
       /\ \A j \in DOMAIN o : j > i => o[j].type # "status_update"

InSync ==
  ~overtaken /\ ~slipped /\ jobs = <<>> /\ (link # "down" \/ unnoticed) => Told(outbox, told)

JobsInv  == SendsFirst /\ LastSend /\ Connecting
WillTell == Linked /\ JobsInv /\ InSync

LEMMA TellInit == Init => WillTell
BY DEF Init, WillTell, JobsInv, Linked, SendsFirst, LastSend, Connecting, InSync, Told

LEMMA AppendAt ==
  ASSUME NEW S, NEW q \in Seq(S), NEW x, NEW r, r = Append(q, x)
  PROVE  /\ DOMAIN r = 1 .. Len(q) + 1 /\ DOMAIN q = 1 .. Len(q) /\ Len(q) \in Nat
         /\ r[Len(q) + 1] = x /\ \A i \in DOMAIN q : r[i] = q[i]
OBVIOUS

LEMMA TailAt ==
  ASSUME NEW S, NEW q \in Seq(S), q # <<>>, NEW r, r = Tail(q)
  PROVE  /\ DOMAIN r = 1 .. Len(q) - 1 /\ DOMAIN q = 1 .. Len(q) /\ Len(q) \in Nat \ {0}
         /\ Head(q) = q[1] /\ \A i \in DOMAIN r : r[i] = q[i + 1]
         /\ r = <<>> => Len(q) = 1
<1>1. Len(q) \in Nat \ {0} /\ Len(r) = Len(q) - 1
  OBVIOUS
<1>2. r = <<>> => Len(r) = 0
  OBVIOUS
<1>3. /\ DOMAIN r = 1 .. Len(q) - 1 /\ DOMAIN q = 1 .. Len(q)
      /\ Head(q) = q[1] /\ \A i \in DOMAIN r : r[i] = q[i + 1]
  BY <1>1
<1>4. QED BY <1>1, <1>2, <1>3

\* A status that is sent is the last one.
LEMMA ToldBySend ==
  ASSUME SentInv, NEW s, s = mine', Send(s), authenticated
  PROVE  Told(outbox, told)'
<1>1. PICK x : x.type = "status_update" /\ x.status = s /\ outbox' = Append(outbox, x)
  BY DEF Send
<1>2. /\ DOMAIN outbox' = 1 .. Len(outbox) + 1 /\ Len(outbox) \in Nat
      /\ outbox'[Len(outbox) + 1] = x
  BY <1>1, AppendAt DEF SentInv
<1>3. QED BY <1>1, <1>2 DEF Told

LEMMA ToldKept ==
  ASSUME Told(outbox, told), UNCHANGED <<outbox, told, mine>> PROVE Told(outbox, told)'
BY DEF Told

LEMMA ToldAfterRequest ==
  ASSUME SentInv, Told(outbox, told), NEW x, x.type # "status_update",
         outbox' = Append(outbox, x), UNCHANGED <<told, mine>>
  PROVE  Told(outbox, told)'
<1>1. /\ DOMAIN outbox' = 1 .. Len(outbox) + 1 /\ DOMAIN outbox = 1 .. Len(outbox)
      /\ Len(outbox) \in Nat
      /\ outbox'[Len(outbox) + 1] = x /\ \A i \in DOMAIN outbox : outbox'[i] = outbox[i]
  BY AppendAt DEF SentInv
<1>2. QED BY <1>1 DEF Told

LEMMA ToldByServing ==
  ASSUME SentInv, Told(outbox, told), outbox # <<>>, outbox' = Tail(outbox), mine' = mine,
         told' = IF Head(outbox).type = "status_update" THEN Head(outbox).status ELSE told
  PROVE  Told(outbox, told)'
<1>1. /\ DOMAIN outbox' = 1 .. Len(outbox) - 1 /\ DOMAIN outbox = 1 .. Len(outbox)
      /\ Len(outbox) \in Nat \ {0} /\ Head(outbox) = outbox[1]
      /\ \A i \in DOMAIN outbox' : outbox'[i] = outbox[i + 1]
  BY TailAt DEF SentInv
<1>2. CASE told = mine /\ \A i \in DOMAIN outbox : outbox[i].type # "status_update"
  BY <1>1, <1>2 DEF Told
<1>3. ASSUME NEW i \in DOMAIN outbox,
             outbox[i].type = "status_update" /\ outbox[i].status = mine,
             \A j \in DOMAIN outbox : j > i => outbox[j].type # "status_update"
      PROVE  Told(outbox, told)'
  <2>1. CASE i = 1
    BY <1>1, <1>3, <2>1 DEF Told
  <2>2. CASE i # 1
    <3>1. i - 1 \in DOMAIN outbox' /\ (i - 1) + 1 = i
      BY <1>1, <2>2
    <3>2. outbox'[i - 1] = outbox[i]
      BY <1>1, <3>1
    <3>3. ASSUME NEW j \in DOMAIN outbox', j > i - 1 PROVE outbox'[j].type # "status_update"
      <4>1. j + 1 \in DOMAIN outbox /\ j + 1 > i /\ outbox'[j] = outbox[j + 1]
        BY <1>1, <3>3
      <4>2. QED BY <1>3, <4>1
    <3>4. QED BY <1>3, <3>1, <3>2, <3>3 DEF Told
  <2>3. QED BY <2>1, <2>2
<1>4. QED BY <1>2, <1>3 DEF Told

-----------------------------------------------------------------------------
(* Jobs *)

LEMMA JobsKept ==
  ASSUME JobsInv, UNCHANGED <<jobs, mine, overtaken, task, timer>> PROVE JobsInv'
BY DEF JobsInv, SendsFirst, LastSend, Connecting

LEMMA JobsPicked == ASSUME SentInv, JobsInv, NEW s, PickStatus(s) PROVE JobsInv'
<1>1. PICK x : x.type = "set_status" /\ jobs' = Append(jobs, x)
  BY DEF PickStatus
<1>2. /\ DOMAIN jobs' = 1 .. Len(jobs) + 1 /\ DOMAIN jobs = 1 .. Len(jobs)
      /\ Len(jobs) \in Nat
      /\ jobs'[Len(jobs) + 1] = x /\ \A i \in DOMAIN jobs : jobs'[i] = jobs[i]
  BY <1>1, AppendAt DEF SentInv
<1>3. /\ UNCHANGED <<mine, task, timer>>
      /\ ~overtaken' => ~overtaken \/ DOMAIN jobs = {}
  <2>1. overtaken' = (overtaken /\ jobs # <<>>) /\ UNCHANGED <<mine, task, timer>>
    BY DEF PickStatus
  <2>2. jobs = <<>> => DOMAIN jobs = {}
    OBVIOUS
  <2>3. QED BY <2>1, <2>2
<1>4. SendsFirst'
  BY <1>1, <1>2, <1>3 DEF JobsInv, SendsFirst
<1>5. LastSend'
  BY <1>1, <1>2, <1>3 DEF JobsInv, LastSend
<1>6. Connecting'
  BY <1>1, <1>2, <1>3 DEF JobsInv, Connecting
<1>7. QED BY <1>4, <1>5, <1>6 DEF JobsInv

LEMMA JobsTurned ==
  ASSUME SentInv, JobsInv, NEW s, NEW auto, Turns(s, auto), UNCHANGED <<task, timer>>,
         task = "connecting" => s = "online"
  PROVE  JobsInv'
<1>1. PICK x : x.type = "send" /\ x.status = s /\ jobs' = Append(jobs, x)
  BY DEF Turns
<1>2. /\ DOMAIN jobs' = 1 .. Len(jobs) + 1 /\ DOMAIN jobs = 1 .. Len(jobs)
      /\ Len(jobs) \in Nat
      /\ jobs'[Len(jobs) + 1] = x /\ \A i \in DOMAIN jobs : jobs'[i] = jobs[i]
  BY <1>1, AppendAt DEF SentInv
<1>3. mine' = s /\ (~overtaken' => ~overtaken /\ \A i \in DOMAIN jobs : jobs[i].type # "set_status")
  BY DEF Turns
<1>4. SendsFirst'
  BY <1>1, <1>2, <1>3 DEF JobsInv, SendsFirst
<1>5. LastSend'
  BY <1>1, <1>2, <1>3 DEF JobsInv, LastSend
<1>6. Connecting'
  BY <1>1, <1>2, <1>3 DEF JobsInv, Connecting
<1>7. QED BY <1>4, <1>5, <1>6 DEF JobsInv

\* The job that runs, and what it leaves.
LEMMA JobsRun ==
  ASSUME SentInv, JobsInv, RunJob
  PROVE  /\ JobsInv' /\ Send(Head(jobs).status)
         /\ ~overtaken /\ jobs' = <<>> => Head(jobs).status = mine'
<1>1. /\ jobs # <<>> /\ jobs' = Tail(jobs) /\ UNCHANGED <<overtaken, task, timer>>
      /\ \/ Head(jobs).type = "set_status" /\ mine' = Head(jobs).status
         \/ Head(jobs).type = "send" /\ mine' = mine
      /\ Send(Head(jobs).status)
  BY DEF RunJob, SetStatus
<1>2. /\ DOMAIN jobs' = 1 .. Len(jobs) - 1 /\ DOMAIN jobs = 1 .. Len(jobs)
      /\ Len(jobs) \in Nat \ {0} /\ Head(jobs) = jobs[1]
      /\ \A i \in DOMAIN jobs' : jobs'[i] = jobs[i + 1]
      /\ jobs' = <<>> => Len(jobs) = 1
  BY <1>1, TailAt DEF SentInv
<1>3. SendsFirst'
  <2>1. ASSUME ~overtaken, NEW i \in DOMAIN jobs', NEW j \in DOMAIN jobs', i < j,
               jobs'[i].type = "set_status"
        PROVE  jobs'[j].type = "set_status"
    <3>1. i + 1 \in DOMAIN jobs /\ j + 1 \in DOMAIN jobs /\ i + 1 < j + 1
      BY <1>2, <2>1
    <3>2. QED BY <1>2, <2>1, <3>1 DEF JobsInv, SendsFirst
  <2>2. QED BY <1>1, <2>1 DEF SendsFirst
<1>4. LastSend'
  <2>1. ASSUME ~overtaken, NEW i \in DOMAIN jobs', jobs'[i].type = "send",
               \A j \in DOMAIN jobs' : j > i => jobs'[j].type # "send"
        PROVE  jobs'[i].status = mine'
    <3>1. i + 1 \in DOMAIN jobs /\ 1 \in DOMAIN jobs /\ 1 < i + 1 /\ jobs[i + 1].type = "send"
      BY <1>2, <2>1
    <3>2. jobs[1].type # "set_status"
      BY <2>1, <3>1 DEF JobsInv, SendsFirst
    <3>3. mine' = mine
      BY <1>1, <1>2, <3>2
    <3>4. ASSUME NEW j \in DOMAIN jobs, j > i + 1 PROVE jobs[j].type # "send"
      <4>1. j - 1 \in DOMAIN jobs' /\ j - 1 > i /\ (j - 1) + 1 = j
        BY <1>2, <3>4
      <4>2. QED BY <1>2, <2>1, <4>1
    <3>5. jobs[i + 1].status = mine
      BY <2>1, <3>1, <3>4 DEF JobsInv, LastSend
    <3>6. QED BY <1>2, <2>1, <3>3, <3>5
  <2>2. QED BY <1>1, <2>1 DEF LastSend
<1>5. Connecting'
  <2>1. ASSUME NEW i \in DOMAIN jobs' PROVE i + 1 \in DOMAIN jobs /\ jobs'[i] = jobs[i + 1]
    BY <1>2
  <2>2. QED BY <1>1, <2>1 DEF JobsInv, Connecting
<1>6. ~overtaken /\ jobs' = <<>> => Head(jobs).status = mine'
  <2>1. ASSUME ~overtaken, jobs' = <<>>, Head(jobs).type = "send" PROVE Head(jobs).status = mine
    <3>1. DOMAIN jobs = {1} /\ Head(jobs) = jobs[1]
      BY <1>2, <2>1
    <3>2. QED BY <2>1, <3>1 DEF JobsInv, LastSend
  <2>2. QED BY <1>1, <2>1
<1>7. QED BY <1>1, <1>3, <1>4, <1>5, <1>6 DEF JobsInv

-----------------------------------------------------------------------------
(* Every step keeps it *)

LEMMA TellKept ==
  ASSUME WillTell, UNCHANGED <<jobs, mine, overtaken, task, timer>>,
         UNCHANGED <<told, outbox, link, unnoticed, slipped>>, Linked'
  PROVE  WillTell'
BY JobsKept, ToldKept DEF WillTell, InSync

LEMMA TellClient == ASSUME SentInv, WillTell, Client PROVE WillTell'
<1>1. ASSUME NEW s \in Choices, PickStatus(s) PROVE WillTell'
  <2>1. jobs' # <<>> /\ UNCHANGED <<authenticated, inbox, link>>
    <3>1. PICK x : jobs' = Append(jobs, x)
      BY <1>1 DEF PickStatus
    <3>2. jobs' # <<>>
      BY <3>1 DEF SentInv
    <3>3. QED BY <1>1, <3>2 DEF PickStatus, wires
  <2>2. QED BY <1>1, <2>1, JobsPicked DEF WillTell, Linked, InSync
<1>2. CASE RunJob
  <2>1. UNCHANGED <<authenticated, inbox, link, told, unnoticed, overtaken>>
    BY <1>2 DEF RunJob, server
  <2>2. slipped' = ~authenticated
    BY <1>2, JobsRun DEF Send, WillTell
  <2>3. ASSUME ~overtaken', ~slipped', jobs' = <<>> PROVE Told(outbox, told)'
    BY <1>2, <2>1, <2>2, <2>3, JobsRun, ToldBySend DEF WillTell
  <2>4. QED BY <1>2, <2>1, <2>3, JobsRun DEF WillTell, Linked, InSync
<1>3. ASSUME NEW s, NEW auto, Turns(s, auto), UNCHANGED <<task, timer, authenticated, wires>>,
             task = "connecting" => s = "online"
      PROVE  WillTell'
  <2>1. jobs' # <<>>
    <3>1. PICK x : jobs' = Append(jobs, x)
      BY <1>3 DEF Turns
    <3>2. QED BY <3>1 DEF SentInv
  <2>2. QED BY <1>3, <2>1, JobsTurned DEF WillTell, Linked, InSync, wires
<1>4. CASE MarkActive
  <2>1. CASE Turns("online", FALSE)
    BY <1>3, <1>4, <2>1 DEF MarkActive
  <2>2. CASE UNCHANGED <<mine, autoIdle, jobs, overtaken>>
    BY <1>4, <2>2, TellKept DEF MarkActive, server, wires, WillTell, Linked
  <2>3. QED BY <1>4, <2>1, <2>2 DEF MarkActive
<1>5. CASE CheckIdle
  <2>1. task # "connecting"
    BY <1>5 DEF CheckIdle, WillTell, JobsInv, Connecting
  <2>2. PICK s, auto : Turns(s, auto)
    BY <1>5 DEF CheckIdle
  <2>3. QED BY <1>3, <1>5, <2>1, <2>2 DEF CheckIdle
<1>6. CASE StartSession
  <2>1. /\ mine' = "online" /\ Send("online") /\ task = "connecting" /\ task' # "connecting"
        /\ UNCHANGED <<jobs, authenticated, link, inbox, overtaken, told, unnoticed>>
    BY <1>6 DEF StartSession, SetStatus, server
  <2>2. JobsInv'
    BY <2>1 DEF WillTell, JobsInv, SendsFirst, LastSend, Connecting
  <2>3. slipped' = ~authenticated
    BY <2>1 DEF Send
  <2>4. QED BY <2>1, <2>2, <2>3, ToldBySend DEF WillTell, Linked, InSync
<1>7. CASE OnAuthOk \/ OnPresenceUpdate \/ OnFriendAccept \/ OnFriendReject \/ OnRemoved
  <2>1. /\ UNCHANGED <<own, server, link, outbox, slipped, overtaken>> /\ inbox # <<>>
    BY <1>7
       DEF OnAuthOk, OnPresenceUpdate, OnFriendAccept, OnFriendReject, OnRemoved, Takes, history
  <2>2. QED BY <2>1, TellKept DEF WillTell, Linked, own, server
<1>8. CASE \/ Rest \/ CloseProfile \/ \E f \in Friend : ShowProfile(f)
           \/ \E e \in Entry : SelectFriend(e) \/ CloseChat(e)
  <2>1. /\ UNCHANGED <<jobs, mine, overtaken, task, timer>>
        /\ UNCHANGED <<told, outbox, link, unnoticed, slipped>>
        /\ UNCHANGED <<authenticated, inbox>>
    BY <1>8
       DEF Rest, SelectFriend, CloseChat, ShowProfile, CloseProfile, own, server, wires, history
  <2>2. QED BY <2>1, TellKept DEF WillTell, Linked
<1>9. ASSUME NEW e \in Entry, RemoveFriend(e) PROVE WillTell'
  <2>1. /\ UNCHANGED <<own, authenticated, server, link, inbox, slipped, overtaken>>
        /\ outbox' = Append(outbox, [type |-> "friend_remove", friend |-> e])
    BY <1>9 DEF RemoveFriend
  <2>2. PICK x : x.type # "status_update" /\ outbox' = Append(outbox, x)
    BY <2>1
  <2>3. JobsInv'
    BY <2>1, JobsKept DEF WillTell, own
  <2>4. QED BY <2>1, <2>2, <2>3, ToldAfterRequest DEF WillTell, Linked, InSync, own, server
<1>10. QED BY <1>1, <1>2, <1>4, <1>5, <1>6, <1>7, <1>8, <1>9 DEF Client

LEMMA TellServer == ASSUME SentInv, WillTell, Server PROVE WillTell'
<1>1. UNCHANGED <<own, overtaken>>
  BY DEF Server, FriendChanges, FriendAccepts, FriendLeaves, FriendRejects, Register, Answer,
         Serve, Drop, Notice, client, history
<1>2. JobsInv'
  BY <1>1, JobsKept DEF WillTell, own
<1>3. ASSUME NEW f \in Friend, (\E s \in FriendStatus : FriendChanges(f, s)) \/ FriendAccepts(f)
      PROVE  WillTell'
  <2>1. /\ UNCHANGED <<told, outbox, link, unnoticed, slipped, authenticated>>
        /\ link = "down" => inbox' = inbox
    BY <1>3 DEF FriendChanges, FriendAccepts, Relay, client
  <2>2. QED BY <1>1, <2>1, TellKept DEF WillTell, Linked, own
<1>4. CASE (\E r \in Refusable : FriendRejects(r)) \/ \E f \in Friend : FriendLeaves(f)
  <2>1. /\ UNCHANGED <<told, outbox, link, unnoticed, slipped, authenticated>>
        /\ link = "down" => inbox' = inbox
    BY <1>4 DEF FriendRejects, FriendLeaves, Relay, client, wires, history
  <2>2. QED BY <1>1, <2>1, TellKept DEF WillTell, Linked, own
<1>5. CASE Register
  <2>1. /\ UNCHANGED <<unnoticed, inbox, outbox>> /\ link' = "asked"
        /\ unnoticed => told' = told /\ (~slipped' => ~slipped)
        /\ ~unnoticed => slipped'
    BY <1>5 DEF Register
  <2>2. QED BY <1>1, <1>2, <2>1, ToldKept DEF WillTell, Linked, InSync, own
<1>6. CASE Answer
  BY <1>1, <1>2, <1>6, ToldKept DEF Answer, WillTell, Linked, InSync, own
<1>7. CASE Serve
  <2>1. /\ UNCHANGED <<authenticated, unnoticed, link, slipped>> /\ link = "up"
        /\ outbox # <<>> /\ outbox' = Tail(outbox)
        /\ told' = IF Head(outbox).type = "status_update" THEN Head(outbox).status ELSE told
    BY <1>7 DEF Serve, client
  <2>2. QED BY <1>1, <1>2, <2>1, ToldByServing DEF WillTell, Linked, InSync, own
<1>8. CASE Drop
  <2>1. /\ link # "down" /\ link' = "down" /\ ~authenticated' /\ inbox' = <<>> /\ outbox' = <<>>
        /\ told' = told /\ (~slipped' => ~slipped /\ outbox = <<>>)
    BY <1>8 DEF Drop
  <2>2. QED BY <1>1, <1>2, <2>1, ToldKept DEF WillTell, Linked, InSync, own
<1>9. CASE Notice
  <2>1. /\ UNCHANGED <<authenticated, inbox, outbox, link, slipped>> /\ ~unnoticed'
        /\ link # "down" => told' = told
    BY <1>9 DEF Notice, client, wires, history
  <2>2. QED BY <1>1, <1>2, <2>1, ToldKept DEF WillTell, Linked, InSync, own
<1>10. QED BY <1>3, <1>4, <1>5, <1>6, <1>7, <1>8, <1>9 DEF Server

\* Once nothing is on its way, the friends see the status that the user sees,
\* except after a status that a lost or new socket took away (set_status and
\* _queue_status_update do not repeat it) or activity that overtook a pick.
THEOREM StatusArrives == Spec => []OwnStatusArrives
<1>1. ASSUME SentInv, WillTell, [Next]_vars PROVE WillTell'
  <2>1. CASE UNCHANGED vars
    BY <1>1, <2>1, TellKept DEF vars, own, server, wires, history, WillTell, Linked
  <2>2. QED BY <1>1, <2>1, TellClient, TellServer DEF Next
<1>2. WillTell => OwnStatusArrives
  BY DEF WillTell, Linked, InSync, Told, OwnStatusArrives
<1>3. QED BY <1>1, <1>2, TellInit, Safe, PTL DEF Spec

-----------------------------------------------------------------------------
(* What is on its way about one friend *)

IsUpdate(m, f)  == m.type = "presence_update" /\ m.friend = f
IsAccept(m, f)  == m.type = "friend_accept" /\ m.friend = f
IsRemoval(m, f) == m.type = "removed" /\ m.friend = f
IsGreeting(m)   == m.type = "auth_ok"

\* The last update about f has s.
Ends(q, f, s) ==
  \E i \in DOMAIN q : /\ IsUpdate(q[i], f) /\ q[i].status = s
                      /\ \A j \in DOMAIN q : j > i => ~IsUpdate(q[j], f)

Greeted(q)     == \E i \in DOMAIN q : IsGreeting(q[i])
GreetedOnce(q) == \A i, j \in DOMAIN q : IsGreeting(q[i]) /\ IsGreeting(q[j]) => i = j
Relayed(q)     == \A i \in DOMAIN q : q[i].type \notin {"auth_ok", "removed"}

\* f will be a known friend.
Promised(q, f) ==
  \E i \in DOMAIN q : IsAccept(q[i], f) \/ (IsGreeting(q[i]) /\ f \in q[i].friends)

\* A removal of f comes before an update, and before an acceptance; an acceptance
\* before an update, or before the friends of a new socket.
RemovedFirst(q, f) ==
  \A i \in DOMAIN q : IsRemoval(q[i], f) => \E j \in DOMAIN q : j > i /\ IsUpdate(q[j], f)
AcceptedAgain(q, f) ==
  \A i \in DOMAIN q : IsRemoval(q[i], f) => \E j \in DOMAIN q : j > i /\ IsAccept(q[j], f)
AcceptedFirst(q, f) ==
  \A i \in DOMAIN q :
    IsAccept(q[i], f) =>
      \E j \in DOMAIN q : j > i /\ (IsUpdate(q[j], f) \/ IsGreeting(q[j]))

LEMMA AboutIs == ASSUME NEW q, NEW f PROVE About(q, f) <=> \E i \in DOMAIN q : IsUpdate(q[i], f)
BY DEF About, IsUpdate

LEMMA TailAbout ==
  ASSUME NEW q \in Seq(Message), q # <<>>, NEW r, r = Tail(q), NEW m, m = Head(q), NEW f, NEW s
  PROVE  /\ About(q, f) <=> IsUpdate(m, f) \/ About(r, f)
         /\ Ends(q, f, s) /\ About(r, f) => Ends(r, f, s)
         /\ Ends(q, f, s) /\ ~About(r, f) => IsUpdate(m, f) /\ m.status = s
         /\ RemovedFirst(q, f) => RemovedFirst(r, f) /\ (IsRemoval(m, f) => About(r, f))
<1>1. /\ DOMAIN r = 1 .. Len(q) - 1 /\ DOMAIN q = 1 .. Len(q) /\ Len(q) \in Nat \ {0}
      /\ m = q[1] /\ \A i \in DOMAIN r : r[i] = q[i + 1]
  BY TailAt
<1>2. /\ \A i \in DOMAIN r : i + 1 \in DOMAIN q /\ r[i] = q[i + 1]
      /\ \A i \in DOMAIN q : i = 1 \/ (i - 1 \in DOMAIN r /\ r[i - 1] = q[i])
      /\ 1 \in DOMAIN q
  BY <1>1
<1>3. About(q, f) <=> IsUpdate(m, f) \/ About(r, f)
  BY <1>1, <1>2, AboutIs
<1>4. ASSUME NEW i \in DOMAIN q, IsUpdate(q[i], f), q[i].status = s,
             \A j \in DOMAIN q : j > i => ~IsUpdate(q[j], f)
      PROVE  /\ About(r, f) => Ends(r, f, s)
             /\ ~About(r, f) => IsUpdate(m, f) /\ m.status = s
  <2>1. CASE i = 1
    <3>1. \A j \in DOMAIN r : ~IsUpdate(r[j], f)
      BY <1>1, <1>2, <1>4, <2>1
    <3>2. QED BY <1>1, <1>4, <2>1, <3>1, AboutIs
  <2>2. CASE i # 1
    <3>1. i - 1 \in DOMAIN r /\ r[i - 1] = q[i]
      BY <1>2, <2>2
    <3>2. \A j \in DOMAIN r : j > i - 1 => ~IsUpdate(r[j], f)
      BY <1>1, <1>2, <1>4
    <3>3. Ends(r, f, s) /\ About(r, f)
      BY <1>4, <3>1, <3>2, AboutIs DEF Ends
    <3>4. QED BY <3>3
  <2>3. QED BY <2>1, <2>2
<1>5. /\ Ends(q, f, s) /\ About(r, f) => Ends(r, f, s)
      /\ Ends(q, f, s) /\ ~About(r, f) => IsUpdate(m, f) /\ m.status = s
  BY <1>4 DEF Ends
<1>6. RemovedFirst(q, f) => RemovedFirst(r, f)
  <2>1. ASSUME RemovedFirst(q, f), NEW i \in DOMAIN r, IsRemoval(r[i], f)
        PROVE  \E j \in DOMAIN r : j > i /\ IsUpdate(r[j], f)
    <3>1. PICK j \in DOMAIN q : j > i + 1 /\ IsUpdate(q[j], f)
      BY <1>2, <2>1 DEF RemovedFirst
    <3>2. j - 1 \in DOMAIN r /\ r[j - 1] = q[j] /\ j - 1 > i
      BY <1>1, <1>2, <3>1
    <3>3. QED BY <3>1, <3>2
  <2>2. QED BY <2>1 DEF RemovedFirst
<1>7. RemovedFirst(q, f) /\ IsRemoval(m, f) => About(r, f)
  <2>1. ASSUME RemovedFirst(q, f), IsRemoval(q[1], f) PROVE About(r, f)
    <3>1. PICK j \in DOMAIN q : j > 1 /\ IsUpdate(q[j], f)
      BY <1>2, <2>1 DEF RemovedFirst
    <3>2. j - 1 \in DOMAIN r /\ r[j - 1] = q[j]
      BY <1>1, <1>2, <3>1
    <3>3. QED BY <3>1, <3>2, AboutIs
  <2>2. QED BY <1>1, <2>1
<1>8. QED BY <1>3, <1>5, <1>6, <1>7

LEMMA TailAccepts ==
  ASSUME NEW q \in Seq(Message), q # <<>>, NEW r, r = Tail(q), NEW m, m = Head(q), NEW f
  PROVE  /\ AcceptedAgain(q, f) => AcceptedAgain(r, f) /\ (IsRemoval(m, f) => Promised(r, f))
         /\ AcceptedFirst(q, f) =>
              AcceptedFirst(r, f) /\ (IsAccept(m, f) => About(r, f) \/ Greeted(r))
         /\ Promised(q, f) <=>
              IsAccept(m, f) \/ (IsGreeting(m) /\ f \in m.friends) \/ Promised(r, f)
<1>1. /\ DOMAIN r = 1 .. Len(q) - 1 /\ DOMAIN q = 1 .. Len(q) /\ Len(q) \in Nat \ {0}
      /\ m = q[1] /\ \A i \in DOMAIN r : r[i] = q[i + 1]
  BY TailAt
<1>2. /\ \A i \in DOMAIN r : i + 1 \in DOMAIN q /\ r[i] = q[i + 1]
      /\ \A i \in DOMAIN q : i = 1 \/ (i - 1 \in DOMAIN r /\ r[i - 1] = q[i])
      /\ 1 \in DOMAIN q
  BY <1>1
<1>3. ASSUME AcceptedAgain(q, f), NEW i \in DOMAIN q, IsRemoval(q[i], f)
      PROVE  \E j \in DOMAIN r : j > i - 1 /\ IsAccept(r[j], f)
  <2>1. PICK j \in DOMAIN q : j > i /\ IsAccept(q[j], f)
    BY <1>3 DEF AcceptedAgain
  <2>2. j - 1 \in DOMAIN r /\ r[j - 1] = q[j] /\ j - 1 > i - 1
    BY <1>1, <1>2, <2>1
  <2>3. QED BY <2>1, <2>2
<1>4. AcceptedAgain(q, f) => AcceptedAgain(r, f) /\ (IsRemoval(m, f) => Promised(r, f))
  <2>1. ASSUME AcceptedAgain(q, f), NEW i \in DOMAIN r, IsRemoval(r[i], f)
        PROVE  \E j \in DOMAIN r : j > i /\ IsAccept(r[j], f)
    <3>1. PICK j \in DOMAIN r : j > (i + 1) - 1 /\ IsAccept(r[j], f)
      BY <1>2, <1>3, <2>1
    <3>2. j > i
      BY <1>1, <3>1
    <3>3. QED BY <3>1, <3>2
  <2>2. AcceptedAgain(q, f) /\ IsRemoval(m, f) => Promised(r, f)
    BY <1>1, <1>2, <1>3 DEF Promised
  <2>3. QED BY <2>1, <2>2 DEF AcceptedAgain
<1>5. ASSUME AcceptedFirst(q, f), NEW i \in DOMAIN q, IsAccept(q[i], f)
      PROVE  \E j \in DOMAIN r : j > i - 1 /\ (IsUpdate(r[j], f) \/ IsGreeting(r[j]))
  <2>1. PICK j \in DOMAIN q : j > i /\ (IsUpdate(q[j], f) \/ IsGreeting(q[j]))
    BY <1>5 DEF AcceptedFirst
  <2>2. j - 1 \in DOMAIN r /\ r[j - 1] = q[j] /\ j - 1 > i - 1
    BY <1>1, <1>2, <2>1
  <2>3. QED BY <2>1, <2>2
<1>6. AcceptedFirst(q, f) => AcceptedFirst(r, f) /\ (IsAccept(m, f) => About(r, f) \/ Greeted(r))
  <2>1. ASSUME AcceptedFirst(q, f), NEW i \in DOMAIN r, IsAccept(r[i], f)
        PROVE  \E j \in DOMAIN r : j > i /\ (IsUpdate(r[j], f) \/ IsGreeting(r[j]))
    <3>1. PICK j \in DOMAIN r : j > (i + 1) - 1 /\ (IsUpdate(r[j], f) \/ IsGreeting(r[j]))
      BY <1>2, <1>5, <2>1
    <3>2. j > i
      BY <1>1, <3>1
    <3>3. QED BY <3>1, <3>2
  <2>2. AcceptedFirst(q, f) /\ IsAccept(m, f) => About(r, f) \/ Greeted(r)
    BY <1>1, <1>2, <1>5, AboutIs DEF Greeted
  <2>3. QED BY <2>1, <2>2 DEF AcceptedFirst
<1>7. Promised(q, f) <=>
        IsAccept(m, f) \/ (IsGreeting(m) /\ f \in m.friends) \/ Promised(r, f)
  BY <1>1, <1>2 DEF Promised
<1>8. QED BY <1>4, <1>6, <1>7

LEMMA TailGreets ==
  ASSUME NEW q \in Seq(Message), q # <<>>, NEW r, r = Tail(q), NEW m, m = Head(q)
  PROVE  /\ GreetedOnce(q) => GreetedOnce(r) /\ (IsGreeting(m) => ~Greeted(r))
         /\ Relayed(q) => Relayed(r) /\ m.type \notin {"auth_ok", "removed"}
         /\ Greeted(q) <=> IsGreeting(m) \/ Greeted(r)
<1>1. /\ DOMAIN r = 1 .. Len(q) - 1 /\ DOMAIN q = 1 .. Len(q) /\ Len(q) \in Nat \ {0}
      /\ m = q[1] /\ \A i \in DOMAIN r : r[i] = q[i + 1]
  BY TailAt
<1>2. /\ \A i \in DOMAIN r : i + 1 \in DOMAIN q /\ r[i] = q[i + 1] /\ i + 1 # 1
      /\ \A i \in DOMAIN q : i = 1 \/ (i - 1 \in DOMAIN r /\ r[i - 1] = q[i])
      /\ 1 \in DOMAIN q
      /\ \A i, j \in DOMAIN r : i + 1 = j + 1 => i = j
  BY <1>1
<1>3. GreetedOnce(q) => GreetedOnce(r)
  BY <1>2 DEF GreetedOnce
<1>4. GreetedOnce(q) /\ IsGreeting(m) => ~Greeted(r)
  BY <1>1, <1>2 DEF GreetedOnce, Greeted
<1>5. Relayed(q) => Relayed(r) /\ m.type \notin {"auth_ok", "removed"}
  BY <1>1, <1>2 DEF Relayed
<1>6. Greeted(q) <=> IsGreeting(m) \/ Greeted(r)
  BY <1>1, <1>2 DEF Greeted
<1>7. QED BY <1>3, <1>4, <1>5, <1>6

LEMMA AppendAbout ==
  ASSUME NEW q \in Seq(Message), NEW m, NEW r, r = Append(q, m), NEW f, NEW s
  PROVE  /\ About(r, f) <=> About(q, f) \/ IsUpdate(m, f)
         /\ Ends(q, f, s) /\ ~IsUpdate(m, f) => Ends(r, f, s)
         /\ IsUpdate(m, f) /\ m.status = s => Ends(r, f, s)
         /\ RemovedFirst(q, f) /\ ~IsRemoval(m, f) => RemovedFirst(r, f)
         /\ IsUpdate(m, f) => RemovedFirst(r, f)
<1>1. /\ DOMAIN r = 1 .. Len(q) + 1 /\ DOMAIN q = 1 .. Len(q) /\ Len(q) \in Nat
      /\ r[Len(q) + 1] = m /\ \A i \in DOMAIN q : r[i] = q[i]
  BY AppendAt
<1>2. /\ \A i \in DOMAIN q : i \in DOMAIN r /\ r[i] = q[i] /\ Len(q) + 1 > i
      /\ \A i \in DOMAIN r : (i \in DOMAIN q /\ r[i] = q[i]) \/ (i = Len(q) + 1 /\ r[i] = m)
      /\ Len(q) + 1 \in DOMAIN r
      /\ \A i \in DOMAIN r : ~(i > Len(q) + 1)
  BY <1>1
<1>3. About(r, f) <=> About(q, f) \/ IsUpdate(m, f)
  BY <1>1, <1>2, AboutIs
<1>4. Ends(q, f, s) /\ ~IsUpdate(m, f) => Ends(r, f, s)
  BY <1>2 DEF Ends
<1>5. IsUpdate(m, f) /\ m.status = s => Ends(r, f, s)
  BY <1>1, <1>2 DEF Ends
<1>6. IsUpdate(m, f) => ~IsRemoval(m, f)
  BY DEF IsUpdate, IsRemoval
<1>7. RemovedFirst(q, f) /\ ~IsRemoval(m, f) => RemovedFirst(r, f)
  BY <1>2 DEF RemovedFirst
<1>8. IsUpdate(m, f) => RemovedFirst(r, f)
  BY <1>1, <1>2, <1>6 DEF RemovedFirst
<1>9. QED BY <1>3, <1>4, <1>5, <1>7, <1>8

LEMMA AppendAccepts ==
  ASSUME NEW q \in Seq(Message), NEW m, NEW r, r = Append(q, m), NEW f
  PROVE  /\ AcceptedAgain(q, f) /\ ~IsRemoval(m, f) => AcceptedAgain(r, f)
         /\ IsAccept(m, f) => AcceptedAgain(r, f)
         /\ AcceptedFirst(q, f) /\ ~IsAccept(m, f) => AcceptedFirst(r, f)
         /\ IsUpdate(m, f) \/ IsGreeting(m) => AcceptedFirst(r, f)
         /\ Promised(r, f) <=>
              Promised(q, f) \/ IsAccept(m, f) \/ (IsGreeting(m) /\ f \in m.friends)
<1>1. /\ DOMAIN r = 1 .. Len(q) + 1 /\ DOMAIN q = 1 .. Len(q) /\ Len(q) \in Nat
      /\ r[Len(q) + 1] = m /\ \A i \in DOMAIN q : r[i] = q[i]
  BY AppendAt
<1>2. /\ \A i \in DOMAIN q : i \in DOMAIN r /\ r[i] = q[i] /\ Len(q) + 1 > i
      /\ \A i \in DOMAIN r : (i \in DOMAIN q /\ r[i] = q[i]) \/ (i = Len(q) + 1 /\ r[i] = m)
      /\ Len(q) + 1 \in DOMAIN r
  BY <1>1
<1>3. AcceptedAgain(q, f) /\ ~IsRemoval(m, f) => AcceptedAgain(r, f)
  BY <1>2 DEF AcceptedAgain
<1>4. IsAccept(m, f) => ~IsRemoval(m, f)
  BY DEF IsAccept, IsRemoval
<1>5. IsUpdate(m, f) \/ IsGreeting(m) => ~IsAccept(m, f)
  BY DEF IsAccept, IsUpdate, IsGreeting
<1>6. IsAccept(m, f) => AcceptedAgain(r, f)
  BY <1>1, <1>2, <1>4 DEF AcceptedAgain
<1>7. AcceptedFirst(q, f) /\ ~IsAccept(m, f) => AcceptedFirst(r, f)
  BY <1>2 DEF AcceptedFirst
<1>8. IsUpdate(m, f) \/ IsGreeting(m) => AcceptedFirst(r, f)
  BY <1>1, <1>2, <1>5 DEF AcceptedFirst
<1>9. Promised(r, f) <=>
        Promised(q, f) \/ IsAccept(m, f) \/ (IsGreeting(m) /\ f \in m.friends)
  BY <1>1, <1>2 DEF Promised
<1>10. QED BY <1>3, <1>6, <1>7, <1>8, <1>9

LEMMA AppendGreets ==
  ASSUME NEW q \in Seq(Message), NEW m, NEW r, r = Append(q, m)
  PROVE  /\ GreetedOnce(q) /\ ~IsGreeting(m) => GreetedOnce(r)
         /\ ~Greeted(q) => GreetedOnce(r)
         /\ Relayed(q) /\ m.type \notin {"auth_ok", "removed"} => Relayed(r)
         /\ Greeted(r) <=> Greeted(q) \/ IsGreeting(m)
<1>1. /\ DOMAIN r = 1 .. Len(q) + 1 /\ DOMAIN q = 1 .. Len(q) /\ Len(q) \in Nat
      /\ r[Len(q) + 1] = m /\ \A i \in DOMAIN q : r[i] = q[i]
  BY AppendAt
<1>2. /\ \A i \in DOMAIN q : i \in DOMAIN r /\ r[i] = q[i]
      /\ \A i \in DOMAIN r : (i \in DOMAIN q /\ r[i] = q[i]) \/ (i = Len(q) + 1 /\ r[i] = m)
      /\ Len(q) + 1 \in DOMAIN r
  BY <1>1
<1>3. GreetedOnce(q) /\ ~IsGreeting(m) => GreetedOnce(r)
  BY <1>2 DEF GreetedOnce
<1>4. ~Greeted(q) => GreetedOnce(r)
  BY <1>2 DEF GreetedOnce, Greeted
<1>5. Relayed(q) /\ m.type \notin {"auth_ok", "removed"} => Relayed(r)
  BY <1>2 DEF Relayed
<1>6. Greeted(r) <=> Greeted(q) \/ IsGreeting(m)
  BY <1>1, <1>2 DEF Greeted
<1>7. QED BY <1>3, <1>4, <1>5, <1>6

LEMMA RelayedOnly ==
  ASSUME NEW q, Relayed(q), NEW f
  PROVE  RemovedFirst(q, f) /\ AcceptedAgain(q, f) /\ GreetedOnce(q) /\ ~Greeted(q)
BY DEF Relayed, RemovedFirst, AcceptedAgain, GreetedOnce, Greeted, IsRemoval, IsGreeting

\* The queue follows what was relayed in the meantime.
LEMMA JoinedAbout ==
  ASSUME NEW q \in Seq(Message), NEW k \in Seq(Message), NEW r, r = q \o k, NEW f, NEW s
  PROVE  /\ About(r, f) <=> About(q, f) \/ About(k, f)
         /\ Ends(k, f, s) => Ends(r, f, s)
         /\ Ends(q, f, s) /\ ~About(k, f) => Ends(r, f, s)
         /\ Relayed(q) /\ Relayed(k) => Relayed(r)
<1>1. /\ DOMAIN r = 1 .. Len(q) + Len(k) /\ DOMAIN q = 1 .. Len(q) /\ DOMAIN k = 1 .. Len(k)
      /\ Len(q) \in Nat /\ Len(k) \in Nat
      /\ \A i \in DOMAIN r : r[i] = IF i <= Len(q) THEN q[i] ELSE k[i - Len(q)]
  OBVIOUS
<1>2. /\ \A i \in DOMAIN q : i \in DOMAIN r /\ r[i] = q[i]
      /\ \A i \in DOMAIN k : Len(q) + i \in DOMAIN r /\ r[Len(q) + i] = k[i]
      /\ \A i \in DOMAIN r : \/ i \in DOMAIN q /\ r[i] = q[i]
                             \/ i - Len(q) \in DOMAIN k /\ r[i] = k[i - Len(q)]
  BY <1>1
<1>3. About(r, f) <=> About(q, f) \/ About(k, f)
  BY <1>2, AboutIs
<1>4. Ends(k, f, s) => Ends(r, f, s)
  <2>1. ASSUME NEW i \in DOMAIN k, IsUpdate(k[i], f), k[i].status = s,
               \A j \in DOMAIN k : j > i => ~IsUpdate(k[j], f)
        PROVE  Ends(r, f, s)
    <3>1. ASSUME NEW j \in DOMAIN r, j > Len(q) + i PROVE ~IsUpdate(r[j], f)
      <4>1. j - Len(q) \in DOMAIN k /\ j - Len(q) > i /\ r[j] = k[j - Len(q)]
        BY <1>1, <3>1
      <4>2. QED BY <2>1, <4>1
    <3>2. Len(q) + i \in DOMAIN r /\ r[Len(q) + i] = k[i]
      BY <1>2
    <3>3. QED BY <2>1, <3>1, <3>2 DEF Ends
  <2>2. QED BY <2>1 DEF Ends
<1>5. Ends(q, f, s) /\ ~About(k, f) => Ends(r, f, s)
  BY <1>2, AboutIs DEF Ends
<1>6. Relayed(q) /\ Relayed(k) => Relayed(r)
  BY <1>2 DEF Relayed
<1>7. QED BY <1>3, <1>4, <1>5, <1>6

Remains(k, q) == \E n \in 0 .. Len(q) : k = SubSeq(q, n + 1, Len(q))

LEMMA KeptAbout ==
  ASSUME NEW q \in Seq(Message), NEW k, Remains(k, q), NEW f, NEW s
  PROVE  /\ About(k, f) => About(q, f)
         /\ Ends(q, f, s) /\ About(k, f) => Ends(k, f, s)
         /\ Relayed(q) => Relayed(k)
<1>1. PICK n \in 0 .. Len(q) : k = SubSeq(q, n + 1, Len(q))
  BY DEF Remains
<1>2. /\ DOMAIN k = 1 .. Len(q) - n /\ DOMAIN q = 1 .. Len(q) /\ Len(q) \in Nat
      /\ \A i \in DOMAIN k : k[i] = q[n + i]
  BY <1>1
<1>3. \A i \in DOMAIN k : n + i \in DOMAIN q /\ k[i] = q[n + i]
  BY <1>2
<1>4. About(k, f) => About(q, f)
  BY <1>3, AboutIs
<1>5. ASSUME NEW i \in DOMAIN q, IsUpdate(q[i], f), q[i].status = s,
             \A j \in DOMAIN q : j > i => ~IsUpdate(q[j], f), About(k, f)
      PROVE  Ends(k, f, s)
  <2>1. PICK j \in DOMAIN k : IsUpdate(k[j], f)
    BY <1>5, AboutIs
  <2>2. i >= n + j
    BY <1>2, <1>3, <1>5, <2>1
  <2>3. i - n \in DOMAIN k /\ k[i - n] = q[i]
    BY <1>2, <2>2
  <2>4. ASSUME NEW l \in DOMAIN k, l > i - n PROVE ~IsUpdate(k[l], f)
    <3>1. n + l \in DOMAIN q /\ n + l > i /\ k[l] = q[n + l]
      BY <1>2, <2>4
    <3>2. QED BY <1>5, <3>1
  <2>5. QED BY <1>5, <2>3, <2>4 DEF Ends
<1>6. Relayed(q) => Relayed(k)
  BY <1>3 DEF Relayed
<1>7. QED BY <1>4, <1>5, <1>6 DEF Ends

-----------------------------------------------------------------------------
(* The changes of the friends on their way to the windows *)

\* friend_remove is on its way.
Unfriending(f) ==
  \E i \in DOMAIN outbox : outbox[i].type = "friend_remove" /\ outbox[i].friend = f

\* What the socket and the queue hold: the friends come once, after what was queued.
SocketOrder ==
  /\ link = "down" => inbox = <<>>
  /\ link = "up" => queue = <<>> /\ (loaded \/ Greeted(inbox))
  /\ link # "up" => Relayed(inbox)
  /\ Relayed(queue) /\ GreetedOnce(inbox)

\* The last change of f is in the queue, or on its way, or in the cache.
Reaches(f) ==
  \/ ~About(inbox, f) /\ Ends(queue, f, theirs[f])
  \/ ~About(queue, f) /\ Ends(inbox, f, theirs[f])
  \/ ~About(queue, f) /\ ~About(inbox, f) /\ cache[f] = theirs[f]

\* Nothing else about f will come.
Settled(f) == link = "up" /\ ~Greeted(inbox) /\ ~About(inbox, f) /\ ~Unfriending(f)

FriendBook(f) ==
  /\ f \in friends =>
       /\ link = "up" => f \in known \/ Unfriending(f) \/ Promised(inbox, f)
       /\ AcceptedAgain(inbox, f)
  /\ owed[f] =>
       /\ f \in friends /\ Reaches(f)
       /\ RemovedFirst(inbox, f) /\ AcceptedFirst(inbox, f)
       /\ Settled(f) => list[f] = theirs[f]

\* A chat window says what the cache does, unless the friends are still to come
\* or it was opened for a friend who was gone.
ChatBook(f) ==
  chat[f] # Absent => f \in strays \/ chat[f] = cache[f] \/ (~loaded /\ f \in pending)

Books ==
  /\ SocketOrder
  /\ \A f \in Friend : FriendBook(f) /\ ChatBook(f)

ShowInv ==
  /\ IInv /\ SentInv /\ owed \in [Friend -> BOOLEAN] /\ theirs \in [Friend -> Status]
  /\ Books

LEMMA NothingThere ==
  ASSUME NEW f, NEW s
  PROVE  /\ ~About(<<>>, f) /\ ~Ends(<<>>, f, s) /\ Relayed(<<>>) /\ ~Greeted(<<>>)
         /\ RemovedFirst(<<>>, f) /\ AcceptedFirst(<<>>, f) /\ AcceptedAgain(<<>>, f)
         /\ GreetedOnce(<<>>) /\ ~Promised(<<>>, f)
BY DEF About, Ends, Relayed, Greeted, RemovedFirst, AcceptedFirst, AcceptedAgain, GreetedOnce,
       Promised

LEMMA EndsIsAbout == ASSUME NEW q, NEW f, NEW s, Ends(q, f, s) PROVE About(q, f)
BY AboutIs DEF Ends

LEMMA ShowInit == Init => ShowInv
<1> SUFFICES ASSUME Init PROVE ShowInv
  OBVIOUS
<1>1. IInv /\ SentInv
  BY ListInit DEF Init, SentInv
<1>2. /\ owed \in [Friend -> BOOLEAN] /\ theirs \in [Friend -> Status]
      /\ \A f \in Friend : ~owed[f] /\ chat[f] = Absent
  BY StatusAssumption, Entries DEF Init
<1>3. SocketOrder
  BY NothingThere DEF Init, SocketOrder
<1>4. ASSUME NEW f \in Friend PROVE FriendBook(f) /\ ChatBook(f)
  BY <1>2, NothingThere DEF Init, FriendBook, ChatBook
<1>5. QED BY <1>1, <1>2, <1>3, <1>4 DEF ShowInv, Books

LEMMA ShowImplies == ShowInv => ChangesAreShown
<1> SUFFICES ASSUME ShowInv, inbox = <<>>, outbox = <<>>, link = "up",
                    NEW f \in friends, owed[f]
             PROVE  list[f] = theirs[f] /\ (f \in strays \/ chat[f] \in {Absent, theirs[f]})
  BY DEF ChangesAreShown
<1>1. f \in Friend /\ FriendBook(f) /\ ChatBook(f) /\ SocketOrder
  BY DEF ShowInv, IInv, WireInv, Books
<1>2. ~Unfriending(f)
  BY DEF Unfriending
<1>3. Settled(f)
  BY <1>2, NothingThere DEF Settled
<1>4. cache[f] = theirs[f] /\ loaded
  BY <1>1, NothingThere DEF FriendBook, Reaches, SocketOrder
<1>5. QED BY <1>1, <1>3, <1>4 DEF FriendBook, ChatBook

-----------------------------------------------------------------------------
(* A message is read *)

LEMMA PromiseKept ==
  ASSUME NEW q, NEW f, AcceptedFirst(q, f), Promised(q, f) PROVE About(q, f) \/ Greeted(q)
BY AboutIs DEF Promised, AcceptedFirst, Greeted

LEMMA ReadOrder ==
  ASSUME IInv, SocketOrder, inbox # <<>>, inbox' = Tail(inbox), UNCHANGED <<link, queue>>,
         NEW m, m = Head(inbox), loaded' <=> loaded \/ IsGreeting(m)
  PROVE  SocketOrder'
<1>1. inbox \in Seq(Message) /\ link # "down"
  BY DEF IInv, WireInv, SocketOrder
<1>2. /\ GreetedOnce(inbox') /\ (Relayed(inbox) => Relayed(inbox'))
      /\ Greeted(inbox) <=> IsGreeting(m) \/ Greeted(inbox')
  BY <1>1, TailGreets DEF SocketOrder
<1>3. QED BY <1>1, <1>2 DEF SocketOrder

\* What is known of friend g when message m is read, and nothing is left to come.
LEMMA ReadLast ==
  ASSUME ShowInv, inbox # <<>>, inbox' = Tail(inbox), NEW m, m = Head(inbox),
         UNCHANGED <<link, outbox>>, NEW g \in Friend, owed[g], Settled(g)'
  PROVE  /\ ~IsRemoval(m, g) /\ ~IsAccept(m, g)
         /\ IsUpdate(m, g) => m.status = theirs[g] /\ (g \in known \/ IsGreeting(m))
         /\ ~IsUpdate(m, g) => cache[g] = theirs[g]
         /\ ~IsUpdate(m, g) /\ ~IsGreeting(m) => list[g] = theirs[g]
         /\ IsGreeting(m) => g \in known \/ g \in m.friends
         /\ loaded \/ IsGreeting(m)
<1>1. inbox \in Seq(Message) /\ SocketOrder /\ FriendBook(g)
  BY DEF ShowInv, IInv, WireInv, Books
<1>2. link = "up" /\ ~Greeted(inbox') /\ ~About(inbox', g) /\ ~Unfriending(g)
  BY DEF Settled, Unfriending
<1>3. /\ g \in friends /\ Reaches(g) /\ RemovedFirst(inbox, g) /\ AcceptedFirst(inbox, g)
      /\ Settled(g) => list[g] = theirs[g]
      /\ g \in known \/ Promised(inbox, g)
  BY <1>1, <1>2 DEF FriendBook
<1>4. ~IsRemoval(m, g) /\ (About(inbox, g) <=> IsUpdate(m, g))
  BY <1>1, <1>2, <1>3, TailAbout
<1>5. ~IsAccept(m, g) /\ AcceptedFirst(inbox', g)
  BY <1>1, <1>2, <1>3, TailAccepts
<1>6. ~Promised(inbox', g)
  BY <1>2, <1>5, PromiseKept
<1>7. g \in known \/ (IsGreeting(m) /\ g \in m.friends)
  BY <1>1, <1>3, <1>5, <1>6, TailAccepts
<1>8. Greeted(inbox) <=> IsGreeting(m)
  BY <1>1, <1>2, TailGreets
<1>9. ~About(queue, g)
  BY <1>1, <1>2, NothingThere DEF SocketOrder
<1>10. IsUpdate(m, g) => m.status = theirs[g]
  BY <1>1, <1>2, <1>3, <1>4, <1>9, EndsIsAbout, TailAbout DEF Reaches
<1>11. ~IsUpdate(m, g) => cache[g] = theirs[g]
  BY <1>3, <1>4, <1>9, EndsIsAbout DEF Reaches
<1>12. ~IsUpdate(m, g) /\ ~IsGreeting(m) => list[g] = theirs[g]
  BY <1>2, <1>3, <1>4, <1>8 DEF Settled
<1>13. loaded \/ IsGreeting(m)
  BY <1>1, <1>2, <1>8 DEF SocketOrder
<1>14. QED BY <1>4, <1>5, <1>7, <1>10, <1>11, <1>12, <1>13

\* The books of g, when what the client makes of message m fits it.
LEMMA ReadBook ==
  ASSUME ShowInv, inbox # <<>>, inbox' = Tail(inbox), NEW m, m = Head(inbox),
         UNCHANGED <<link, outbox, queue, friends, owed, theirs>>, NEW g \in Friend,
         g \in known /\ ~IsRemoval(m, g) => g \in known',
         IsAccept(m, g) \/ (IsGreeting(m) /\ g \in m.friends) => g \in known',
         IsUpdate(m, g) => cache'[g] = m.status,
         ~IsUpdate(m, g) /\ ~IsRemoval(m, g) => cache'[g] = cache[g],
         owed[g] /\ Settled(g)' => list'[g] = theirs[g]
  PROVE  FriendBook(g)'
<1>1. inbox \in Seq(Message) /\ FriendBook(g)
  BY DEF ShowInv, IInv, WireInv, Books
<1>2. Unfriending(g)' = Unfriending(g)
  BY DEF Unfriending
<1>3. ASSUME g \in friends
      PROVE  /\ link = "up" => g \in known' \/ Unfriending(g) \/ Promised(inbox', g)
             /\ AcceptedAgain(inbox', g)
  BY <1>1, <1>3, TailAccepts DEF FriendBook
<1>4. ASSUME owed[g]
      PROVE  RemovedFirst(inbox', g) /\ AcceptedFirst(inbox', g) /\ Reaches(g)'
  <2>1. Reaches(g) /\ RemovedFirst(inbox, g) /\ AcceptedFirst(inbox, g)
    BY <1>1, <1>4 DEF FriendBook
  <2>2. /\ RemovedFirst(inbox', g) /\ (IsRemoval(m, g) => About(inbox', g))
        /\ About(inbox, g) <=> IsUpdate(m, g) \/ About(inbox', g)
        /\ Ends(inbox, g, theirs[g]) /\ About(inbox', g) => Ends(inbox', g, theirs[g])
        /\ Ends(inbox, g, theirs[g]) /\ ~About(inbox', g) =>
             IsUpdate(m, g) /\ m.status = theirs[g]
    BY <1>1, <2>1, TailAbout
  <2>3. AcceptedFirst(inbox', g)
    BY <1>1, <2>1, TailAccepts
  <2>4. ~About(inbox, g) /\ Ends(queue, g, theirs[g]) => Reaches(g)'
    BY <2>2 DEF Reaches
  <2>5. ~About(queue, g) /\ Ends(inbox, g, theirs[g]) => Reaches(g)'
    BY <2>2 DEF Reaches
  <2>6. ~About(queue, g) /\ ~About(inbox, g) /\ cache[g] = theirs[g] => Reaches(g)'
    BY <2>2 DEF Reaches
  <2>7. QED BY <2>1, <2>2, <2>3, <2>4, <2>5, <2>6 DEF Reaches
<1>5. owed[g] => g \in friends
  BY <1>1 DEF FriendBook
<1>6. QED BY <1>2, <1>3, <1>4, <1>5 DEF FriendBook

\* What a step leaves of the rest, and of a chat window that it does not touch.
LEMMA ChatKept ==
  ASSUME NEW g, ChatBook(g), UNCHANGED <<cache, chat, strays, loaded, pending>> PROVE ChatBook(g)'
BY DEF ChatBook

\* A message about f is of friend f.
LEMMA MessageIs ==
  ASSUME IInv, inbox # <<>>, NEW m, m = Head(inbox)
  PROVE  m \in Message /\ inbox \in Seq(Message)
BY Read DEF IInv, WireInv

LEMMA ShowAuthOk == ASSUME ShowInv, OnAuthOk PROVE Books'
<1>1. PICK m : m = Head(inbox)
  OBVIOUS
<1>2. /\ inbox # <<>> /\ IsGreeting(m) /\ inbox' = Tail(inbox) /\ loaded'
      /\ known' = known \cup m.friends /\ list' = List(known') /\ Replay(known')
      /\ UNCHANGED <<cache, strays, queue, friends, theirs, link, outbox, owed>>
  BY <1>1 DEF OnAuthOk, Takes, UpsertData, Upserted, SetFriends, server, history, IsGreeting
<1>3. SocketOrder'
  BY <1>1, <1>2, ReadOrder DEF ShowInv, Books
<1>4. ASSUME NEW g \in Friend PROVE FriendBook(g)'
  <2>1. ~IsUpdate(m, g) /\ ~IsRemoval(m, g) /\ ~IsAccept(m, g)
    BY <1>2 DEF IsGreeting, IsUpdate, IsRemoval, IsAccept
  <2>2. list'[g] = IF g \in known' THEN cache[g] ELSE Absent
    BY <1>2, Entries DEF List, StatusOf
  <2>3. ASSUME owed[g], Settled(g)' PROVE list'[g] = theirs[g]
    BY <1>1, <1>2, <2>1, <2>2, <2>3, ReadLast
  <2>4. QED BY <1>1, <1>2, <2>1, <2>3, ReadBook
<1>5. ASSUME NEW g \in Friend PROVE ChatBook(g)'
  <2>1. chat'[g] = IF g \in pending \cap known' /\ chat[g] # Absent THEN cache[g] ELSE chat[g]
    BY <1>2, Entries DEF Replay, StatusOf
  <2>2. chat[g] # Absent => g \in known' \/ g \in strays
    BY <1>2, Entries DEF ShowInv, IInv, ShownInv
  <2>3. QED BY <1>2, <2>1, <2>2 DEF ShowInv, Books, ChatBook
<1>6. QED BY <1>3, <1>4, <1>5 DEF Books

LEMMA ShowUpdate == ASSUME ShowInv, OnPresenceUpdate PROVE Books'
<1>1. PICK m : m = Head(inbox)
  OBVIOUS
<1> DEFINE f == m.friend
           s == m.status
<1>2. /\ inbox # <<>> /\ m.type = "presence_update" /\ inbox' = Tail(inbox)
      /\ cache' = [cache EXCEPT ![f] = s]
      /\ \/ ~loaded /\ pending' = pending \cup {f} /\ UNCHANGED <<list, chat>>
         \/ loaded /\ f \notin known /\ UNCHANGED <<pending, list, chat>>
         \/ loaded /\ f \in known /\ OnFriendUpdate(f, s) /\ UNCHANGED pending
      /\ UNCHANGED <<known, loaded, strays, queue, friends, theirs, link, outbox, owed>>
  BY <1>1 DEF OnPresenceUpdate, Takes, Caches, IsKnown, server, history
<1>3. ~IsGreeting(m) /\ \A g : ~IsRemoval(m, g) /\ ~IsAccept(m, g) /\ (IsUpdate(m, g) <=> g = f)
  BY <1>2 DEF IsGreeting, IsUpdate, IsRemoval, IsAccept
<1>4. f \in Friend /\ s \in Status
  BY <1>1, <1>2, MessageIs, Parts DEF ShowInv
<1> HIDE DEF f, s
<1>5. \A g \in Friend : cache'[g] = IF g = f THEN s ELSE cache[g]
  BY <1>2, <1>4, Entries DEF ShowInv, IInv, ShownInv
<1>6. SocketOrder'
  BY <1>1, <1>2, <1>3, ReadOrder DEF ShowInv, Books
<1>7. ASSUME OnFriendUpdate(f, s), NEW g \in Friend
      PROVE  /\ list'[g] = IF g = f THEN s ELSE list[g]
             /\ chat'[g] = IF g = f /\ chat[g] # Absent THEN s ELSE chat[g]
  BY <1>4, <1>7, Entries DEF OnFriendUpdate, UpsertFriend, SetWindowStatus, ShowInv, IInv, ShownInv
<1>8. ASSUME NEW g \in Friend PROVE FriendBook(g)'
  <2>1. ASSUME owed[g], Settled(g)' PROVE list'[g] = theirs[g]
    <3>1. /\ g = f => s = theirs[g] /\ g \in known
          /\ g # f => list[g] = theirs[g]
          /\ loaded
      BY <1>1, <1>2, <1>3, <2>1, ReadLast DEF s
    <3>2. QED BY <1>2, <1>7, <3>1
  <2>2. IsUpdate(m, g) => cache'[g] = m.status
    BY <1>3, <1>5 DEF s
  <2>3. ~IsUpdate(m, g) => cache'[g] = cache[g]
    BY <1>3, <1>5
  <2>4. QED BY <1>1, <1>2, <1>3, <2>1, <2>2, <2>3, ReadBook
<1>9. ASSUME NEW g \in Friend PROVE ChatBook(g)'
  <2>1. chat[g] # Absent => g \in known \/ g \in strays
    BY Entries DEF ShowInv, IInv, ShownInv
  <2>2. ChatBook(g)
    BY DEF ShowInv, Books
  <2>3. QED BY <1>2, <1>5, <1>7, <2>1, <2>2 DEF ChatBook
<1>10. QED BY <1>6, <1>8, <1>9 DEF Books

LEMMA ShowAccept == ASSUME ShowInv, OnFriendAccept PROVE Books'
<1>1. PICK m : m = Head(inbox)
  OBVIOUS
<1>2. /\ inbox # <<>> /\ m.type = "friend_accept" /\ inbox' = Tail(inbox)
      /\ known' = known \cup {m.friend} /\ list' = [list EXCEPT ![m.friend] = "offline"]
      /\ UNCHANGED <<cache, chat, strays, pending, loaded>>
      /\ UNCHANGED <<queue, friends, theirs, link, outbox, owed>>
  BY <1>1 DEF OnFriendAccept, Takes, UpsertData, Upserted, UpsertFriend, server, history
<1>3. /\ ~IsGreeting(m)
      /\ \A g : ~IsRemoval(m, g) /\ ~IsUpdate(m, g) /\ (IsAccept(m, g) <=> g = m.friend)
  BY <1>2 DEF IsGreeting, IsUpdate, IsRemoval, IsAccept
<1>4. SocketOrder'
  BY <1>1, <1>2, <1>3, ReadOrder DEF ShowInv, Books
<1>5. ASSUME NEW g \in Friend PROVE FriendBook(g)'
  <2>1. ASSUME owed[g], Settled(g)' PROVE list'[g] = theirs[g]
    <3>1. g # m.friend /\ list[g] = theirs[g]
      BY <1>1, <1>2, <1>3, <2>1, ReadLast
    <3>2. list'[g] = list[g]
      BY <1>2, <3>1, Entries DEF ShowInv, IInv, ShownInv
    <3>3. QED BY <3>1, <3>2
  <2>2. QED BY <1>1, <1>2, <1>3, <2>1, ReadBook
<1>6. ASSUME NEW g \in Friend PROVE ChatBook(g)'
  BY <1>2, ChatKept DEF ShowInv, Books
<1>7. QED BY <1>4, <1>5, <1>6 DEF Books

LEMMA ShowReject == ASSUME ShowInv, OnFriendReject PROVE Books'
<1>1. PICK m : m = Head(inbox)
  OBVIOUS
<1>2. /\ inbox # <<>> /\ m.type = "friend_reject" /\ inbox' = Tail(inbox)
      /\ list' = [list EXCEPT ![m.request] = "rejected"]
      /\ UNCHANGED <<cache, chat, strays, pending, loaded, known>>
      /\ UNCHANGED <<queue, friends, theirs, link, outbox, owed>>
  BY <1>1 DEF OnFriendReject, Takes, UpsertFriend, roster, server, history
<1>3. /\ ~IsGreeting(m)
      /\ \A g : ~IsRemoval(m, g) /\ ~IsUpdate(m, g) /\ ~IsAccept(m, g)
  BY <1>2 DEF IsGreeting, IsUpdate, IsRemoval, IsAccept
<1>4. SocketOrder'
  BY <1>1, <1>2, <1>3, ReadOrder DEF ShowInv, Books
<1>5. ASSUME NEW g \in Friend PROVE FriendBook(g)'
  <2>1. list'[g] = list[g]
    <3>1. m.request \in Refusable
      BY <1>1, <1>2, MessageIs, Parts DEF ShowInv
    <3>2. QED BY <1>2, <3>1, Entries DEF ShowInv, IInv, ShownInv
  <2>2. ASSUME owed[g], Settled(g)' PROVE list'[g] = theirs[g]
    BY <1>1, <1>2, <1>3, <2>1, <2>2, ReadLast
  <2>3. QED BY <1>1, <1>2, <1>3, <2>2, ReadBook
<1>6. ASSUME NEW g \in Friend PROVE ChatBook(g)'
  BY <1>2, ChatKept DEF ShowInv, Books
<1>7. QED BY <1>4, <1>5, <1>6 DEF Books

\* What the end of a friendship leaves of the others.
LEMMA RemovesOnly ==
  ASSUME ShowInv, NEW e \in Entry, RemoveLocalFriend(e), NEW g \in Friend
  PROVE  /\ g # e => /\ cache'[g] = cache[g] /\ list'[g] = list[g] /\ chat'[g] = chat[g]
                     /\ (g \in known' <=> g \in known) /\ (g \in pending' <=> g \in pending)
         /\ loaded' = loaded /\ ChatBook(g)'
<1>1. /\ known' = known \ {e} /\ pending' = pending \ {e} /\ loaded' = loaded
      /\ cache' = [cache EXCEPT ![e] = "offline"]
      /\ list' = [list EXCEPT ![e] = Absent] /\ chat' = [chat EXCEPT ![e] = Absent]
      /\ strays' = strays \ {e}
  BY DEF RemoveLocalFriend, CloseChatWindow, Deleted
<1>2. /\ cache \in [Entry -> Status] /\ list \in [Entry -> Shown] /\ chat \in [Entry -> Shown]
      /\ ChatBook(g) /\ g \in Entry
  BY Entries DEF ShowInv, IInv, ShownInv, Books
<1>3. g # e => cache'[g] = cache[g] /\ list'[g] = list[g] /\ chat'[g] = chat[g]
  BY <1>1, <1>2
<1>4. chat'[e] = Absent
  BY <1>1, <1>2
<1>5. QED BY <1>1, <1>2, <1>3, <1>4 DEF ChatBook

LEMMA ShowRemoved == ASSUME ShowInv, OnRemoved PROVE Books'
<1>1. PICK m : m = Head(inbox)
  OBVIOUS
<1>2. /\ inbox # <<>> /\ m.type = "removed" /\ inbox' = Tail(inbox)
      /\ RemoveLocalFriend(m.friend)
      /\ UNCHANGED <<queue, friends, theirs, link, outbox, owed>>
  BY <1>1 DEF OnRemoved, Takes, server, history
<1>3. /\ ~IsGreeting(m)
      /\ \A g : ~IsUpdate(m, g) /\ ~IsAccept(m, g) /\ (IsRemoval(m, g) <=> g = m.friend)
  BY <1>2 DEF IsGreeting, IsUpdate, IsRemoval, IsAccept
<1>4. m.friend \in Entry
  BY <1>1, <1>2, MessageIs, Parts, Entries DEF ShowInv
<1>5. loaded' = loaded
  BY <1>2 DEF RemoveLocalFriend
<1>6. SocketOrder'
  BY <1>1, <1>2, <1>3, <1>5, ReadOrder DEF ShowInv, Books
<1>7. ASSUME NEW g \in Friend PROVE FriendBook(g)'
  <2>1. ASSUME owed[g], Settled(g)' PROVE list'[g] = theirs[g]
    <3>1. g # m.friend /\ list[g] = theirs[g]
      BY <1>1, <1>2, <1>3, <2>1, ReadLast
    <3>2. QED BY <1>2, <1>4, <3>1, RemovesOnly
  <2>2. g # m.friend => cache'[g] = cache[g] /\ (g \in known' <=> g \in known)
    BY <1>2, <1>4, RemovesOnly
  <2>3. QED BY <1>1, <1>2, <1>3, <2>1, <2>2, ReadBook
<1>8. ASSUME NEW g \in Friend PROVE ChatBook(g)'
  BY <1>2, <1>4, RemovesOnly
<1>9. QED BY <1>6, <1>7, <1>8 DEF Books

-----------------------------------------------------------------------------
(* The client does something else *)

\* Nothing is read, and what is known of g does not shrink.
LEMMA BookKept ==
  ASSUME NEW g \in Friend, FriendBook(g),
         UNCHANGED <<link, inbox, queue>>, theirs'[g] = theirs[g], cache'[g] = cache[g],
         g \in friends' <=> g \in friends, owed'[g] => owed[g],
         g \in known => g \in known', Unfriending(g) => Unfriending(g)',
         owed[g] /\ Settled(g) => list'[g] = theirs[g]
  PROVE  FriendBook(g)'
<1>1. Settled(g)' => Settled(g)
  BY DEF Settled
<1>2. Reaches(g)' <=> Reaches(g)
  BY DEF Reaches
<1>3. QED BY <1>1, <1>2 DEF FriendBook

LEMMA OrderKept ==
  ASSUME SocketOrder, UNCHANGED <<link, inbox, queue, loaded>> PROVE SocketOrder'
BY DEF SocketOrder

LEMMA MoreUnfriending ==
  ASSUME SentInv, NEW x, outbox' = Append(outbox, x), NEW g, Unfriending(g) PROVE Unfriending(g)'
<1>1. \A i \in DOMAIN outbox : i \in DOMAIN outbox' /\ outbox'[i] = outbox[i]
  BY AppendAt DEF SentInv
<1>2. QED BY <1>1 DEF Unfriending

LEMMA ShowQuiet ==
  ASSUME ShowInv, UNCHANGED <<link, inbox, queue, friends, owed, theirs>>,
         UNCHANGED <<cache, roster, list, chat, strays>>,
         outbox' = outbox \/ \E x : outbox' = Append(outbox, x)
  PROVE  Books'
<1>1. UNCHANGED <<known, loaded, pending>>
  BY DEF roster
<1>2. SocketOrder'
  BY <1>1, OrderKept DEF ShowInv, Books
<1>3. ASSUME NEW g \in Friend, Unfriending(g) PROVE Unfriending(g)'
  <2>1. CASE outbox' = outbox
    BY <1>3, <2>1 DEF Unfriending
  <2>2. CASE \E x : outbox' = Append(outbox, x)
    BY <1>3, <2>2, MoreUnfriending DEF ShowInv
  <2>3. QED BY <2>1, <2>2
<1>4. ASSUME NEW g \in Friend PROVE FriendBook(g)' /\ ChatBook(g)'
  <2>1. FriendBook(g) /\ ChatBook(g)
    BY DEF ShowInv, Books
  <2>2. owed[g] /\ Settled(g) => list'[g] = theirs[g]
    BY <2>1 DEF FriendBook
  <2>3. QED BY <1>1, <1>3, <2>1, <2>2, BookKept, ChatKept
<1>5. QED BY <1>2, <1>4 DEF Books

LEMMA ShowOwn ==
  ASSUME ShowInv,
         (\E s \in Choices : PickStatus(s)) \/ RunJob \/ MarkActive \/ Rest \/ CheckIdle
  PROVE  Books'
<1>1. UNCHANGED <<link, inbox, queue, friends, owed, theirs, cache, roster, list, chat, strays>>
  BY DEF PickStatus, RunJob, MarkActive, Rest, CheckIdle, windows, server, wires, history
<1>2. outbox' = outbox \/ \E x : outbox' = Append(outbox, x)
  BY DEF PickStatus, RunJob, MarkActive, Rest, CheckIdle, wires, SetStatus, Send
<1>3. QED BY <1>1, <1>2, ShowQuiet

LEMMA ShowSession == ASSUME ShowInv, StartSession PROVE Books'
<1>1. /\ loaded /\ UNCHANGED <<link, inbox, queue, friends, owed, theirs, cache, loaded>>
      /\ outbox' = outbox \/ \E x : outbox' = Append(outbox, x)
  BY DEF StartSession, server, SetStatus, Send
<1>2. CASE UNCHANGED <<known, pending, windows>>
  <2>1. UNCHANGED <<cache, roster, list, chat, strays>>
    BY <1>2 DEF StartSession, roster, windows
  <2>2. QED BY <1>1, <2>1, ShowQuiet
<1>3. CASE LoadFriends
  <2>1. /\ known' = known \cup snapshot /\ list' = List(known') /\ Replay(known')
        /\ strays' = strays
    BY <1>3 DEF LoadFriends, UpsertData, Upserted, SetFriends
  <2>2. SocketOrder'
    BY <1>1, OrderKept DEF ShowInv, Books
  <2>3. ASSUME NEW g \in Friend PROVE FriendBook(g)'
    <3>1. FriendBook(g) /\ SocketOrder
      BY DEF ShowInv, Books
    <3>2. Unfriending(g) => Unfriending(g)'
      BY <1>1, MoreUnfriending DEF ShowInv, Unfriending
    <3>3. ASSUME owed[g], Settled(g) PROVE list'[g] = theirs[g]
      <4>1. list[g] = theirs[g] /\ Reaches(g) /\ ~About(inbox, g) /\ ~About(queue, g)
        BY <3>1, <3>3, NothingThere DEF FriendBook, Settled, SocketOrder
      <4>2. cache[g] = theirs[g]
        BY <4>1, EndsIsAbout DEF Reaches
      <4>3. theirs[g] # Absent
        BY Lists DEF ShowInv, Absent
      <4>4. g \in known'
        BY <2>1, <4>1, <4>3 DEF ShowInv, IInv, ShownInv
      <4>5. QED BY <2>1, <4>2, <4>4, Entries DEF List, StatusOf
    <3>4. QED BY <1>1, <2>1, <3>1, <3>2, <3>3, BookKept
  <2>4. ASSUME NEW g \in Friend PROVE ChatBook(g)'
    <3>1. chat'[g] \in {cache[g], chat[g]}
      BY <2>1, Entries DEF Replay, StatusOf
    <3>2. ChatBook(g)
      BY DEF ShowInv, Books
    <3>3. QED BY <1>1, <2>1, <3>1, <3>2 DEF ChatBook
  <2>5. QED BY <2>2, <2>3, <2>4 DEF Books
<1>4. QED BY <1>2, <1>3 DEF StartSession

LEMMA ShowWindows ==
  ASSUME ShowInv, NEW e \in Entry, SelectFriend(e) \/ CloseChat(e) PROVE Books'
<1>1. /\ UNCHANGED <<link, inbox, queue, friends, owed, theirs, cache, known, loaded, pending>>
      /\ UNCHANGED <<list, outbox>>
      /\ \/ chat' = [chat EXCEPT ![e] = cache[e]] /\ strays \subseteq strays'
         \/ chat' = [chat EXCEPT ![e] = Absent] /\ strays' = strays \ {e}
  BY DEF SelectFriend, CloseChat, CloseChatWindow, StatusOf, roster, server, wires, history
<1>2. SocketOrder'
  BY <1>1, OrderKept DEF ShowInv, Books
<1>3. ASSUME NEW g \in Friend PROVE FriendBook(g)'
  <2>1. FriendBook(g)
    BY DEF ShowInv, Books
  <2>2. Unfriending(g)' = Unfriending(g)
    BY <1>1 DEF Unfriending
  <2>3. QED BY <1>1, <2>1, <2>2, BookKept DEF FriendBook
<1>4. ASSUME NEW g \in Friend PROVE ChatBook(g)'
  <2>1. \/ chat'[g] = chat[g] /\ (g \in strays => g \in strays')
        \/ chat'[g] \in {cache[g], Absent}
    BY <1>1, Entries DEF ShowInv, IInv, ShownInv
  <2>2. ChatBook(g)
    BY DEF ShowInv, Books
  <2>3. QED BY <1>1, <2>1, <2>2 DEF ChatBook
<1>5. QED BY <1>2, <1>3, <1>4 DEF Books

LEMMA ShowProfiles ==
  ASSUME ShowInv, CloseProfile \/ \E f \in Friend : ShowProfile(f) PROVE Books'
<1>1. UNCHANGED <<link, inbox, queue, friends, owed, theirs, outbox, cache, roster, list, chat>>
      /\ UNCHANGED strays
  BY DEF CloseProfile, ShowProfile, server, wires, history
<1>2. QED BY <1>1, ShowQuiet

\* Until the server answers, the friend is still one of friends.
LEMMA ShowRemoves == ASSUME ShowInv, NEW e \in Entry, RemoveFriend(e) PROVE Books'
<1>1. PICK x : x.type = "friend_remove" /\ x.friend = e /\ outbox' = Append(outbox, x)
  <2>1. outbox' = Append(outbox, [type |-> "friend_remove", friend |-> e])
    BY DEF RemoveFriend
  <2>2. QED BY <2>1
<1>2. RemoveLocalFriend(e) /\ owed' = [f \in Friend |-> owed[f] /\ f # e]
  BY Zenon DEF RemoveFriend
<1>3. UNCHANGED <<link, inbox, queue, friends, theirs>>
  BY DEF RemoveFriend, server
<1>4. loaded' = loaded
  BY <1>2 DEF RemoveLocalFriend
<1>5. SocketOrder'
  BY <1>3, <1>4, OrderKept DEF ShowInv, Books
<1>6. Unfriending(e)'
  <2>1. DOMAIN outbox' = 1 .. Len(outbox) + 1 /\ Len(outbox) \in Nat
        /\ outbox'[Len(outbox) + 1] = x
    BY <1>1, AppendAt DEF ShowInv, SentInv
  <2>2. Len(outbox) + 1 \in DOMAIN outbox'
    BY <2>1
  <2>3. QED BY <1>1, <2>1, <2>2 DEF Unfriending
<1>7. ASSUME NEW g \in Friend PROVE FriendBook(g)' /\ ChatBook(g)'
  <2>1. FriendBook(g)
    BY DEF ShowInv, Books
  <2>2. ChatBook(g)'
    BY <1>2, RemovesOnly
  <2>3. CASE g = e
    <3>1. ~owed'[g]
      BY <1>2, <2>3 DEF ShowInv
    <3>2. QED BY <1>3, <1>6, <2>1, <2>2, <2>3, <3>1 DEF FriendBook
  <2>4. CASE g # e
    <3>1. owed'[g] = owed[g] /\ cache'[g] = cache[g] /\ list'[g] = list[g]
          /\ (g \in known' <=> g \in known)
      BY <1>2, <2>4, RemovesOnly DEF ShowInv
    <3>2. Unfriending(g) => Unfriending(g)'
      BY <1>1, MoreUnfriending DEF ShowInv
    <3>3. owed[g] /\ Settled(g) => list'[g] = theirs[g]
      BY <2>1, <3>1 DEF FriendBook
    <3>4. QED BY <1>3, <2>1, <2>2, <3>1, <3>2, <3>3, BookKept
  <2>5. QED BY <2>3, <2>4
<1>8. QED BY <1>5, <1>7 DEF Books

LEMMA ShowClient == ASSUME ShowInv, Client PROVE Books'
BY ShowOwn, ShowAuthOk, ShowUpdate, ShowAccept, ShowReject, ShowRemoved, ShowWindows, ShowRemoves,
   ShowProfiles, ShowSession
   DEF Client

-----------------------------------------------------------------------------
(* The server and the network *)

\* A message that is not about g is relayed, or sent.
LEMMA Elsewhere ==
  ASSUME ShowInv, NEW g \in Friend, NEW m,
         ~IsGreeting(m), ~IsRemoval(m, g), ~IsUpdate(m, g), ~IsAccept(m, g),
         inbox' \in {inbox, Append(inbox, m)}, queue' \in {queue, Append(queue, m)},
         UNCHANGED <<link, known, cache, list>>, theirs'[g] = theirs[g], owed'[g] = owed[g],
         g \in friends' <=> g \in friends, Unfriending(g) => Unfriending(g)'
  PROVE  FriendBook(g)'
<1>1. inbox \in Seq(Message) /\ queue \in Seq(Message) /\ FriendBook(g)
  BY DEF ShowInv, IInv, WireInv, Books
<1>2. /\ About(inbox', g) <=> About(inbox, g)
      /\ Ends(inbox, g, theirs[g]) => Ends(inbox', g, theirs[g])
      /\ RemovedFirst(inbox, g) => RemovedFirst(inbox', g)
  BY <1>1, AppendAbout
<1>3. /\ AcceptedAgain(inbox, g) => AcceptedAgain(inbox', g)
      /\ AcceptedFirst(inbox, g) => AcceptedFirst(inbox', g)
      /\ Promised(inbox', g) <=> Promised(inbox, g)
  BY <1>1, AppendAccepts
<1>4. Greeted(inbox') <=> Greeted(inbox)
  BY <1>1, AppendGreets
<1>5. /\ About(queue', g) <=> About(queue, g)
      /\ Ends(queue, g, theirs[g]) => Ends(queue', g, theirs[g])
  BY <1>1, AppendAbout
<1>6. Settled(g)' => Settled(g)
  BY <1>2, <1>4 DEF Settled
<1>7. Reaches(g) => Reaches(g)'
  BY <1>2, <1>5 DEF Reaches
<1>8. QED BY <1>1, <1>2, <1>3, <1>6, <1>7 DEF FriendBook

LEMMA RelayOrder ==
  ASSUME ShowInv, NEW m, m.type \notin {"auth_ok", "removed"}, Relay(m), UNCHANGED <<link, loaded>>
  PROVE  SocketOrder'
<1>1. inbox \in Seq(Message) /\ queue \in Seq(Message) /\ SocketOrder
  BY DEF ShowInv, IInv, WireInv, Books
<1>2. ~IsGreeting(m)
  BY DEF IsGreeting
<1>3. /\ inbox' \in {inbox, Append(inbox, m)} /\ queue' \in {queue, Append(queue, m)}
      /\ link = "down" => inbox' = inbox
      /\ link # "down" => queue' = queue
  BY DEF Relay
<1>4. /\ GreetedOnce(inbox) => GreetedOnce(inbox')
      /\ Relayed(inbox) => Relayed(inbox')
      /\ Greeted(inbox') <=> Greeted(inbox)
  BY <1>1, <1>2, <1>3, AppendGreets
<1>5. Relayed(queue) => Relayed(queue')
  BY <1>1, <1>3, AppendGreets
<1>6. QED BY <1>1, <1>3, <1>4, <1>5 DEF SocketOrder

LEMMA Relays ==
  ASSUME NEW m, Relay(m)
  PROVE  inbox' \in {inbox, Append(inbox, m)} /\ queue' \in {queue, Append(queue, m)}
BY DEF Relay

LEMMA ClientKeeps ==
  ASSUME ShowInv, UNCHANGED client
  PROVE  /\ UNCHANGED <<known, loaded, pending, cache, list, chat, strays>>
         /\ \A g \in Friend : ChatBook(g)'
<1>1. UNCHANGED <<known, loaded, pending, cache, list, chat, strays>>
  BY DEF client, roster, windows
<1>2. QED BY <1>1, ChatKept DEF ShowInv, Books

\* A change of a friend is the last one that is relayed.
LEMMA BookOfChange ==
  ASSUME ShowInv, UNCHANGED client, UNCHANGED <<friends, link, outbox>>, NEW f \in friends,
         NEW m, IsUpdate(m, f), Relay(m), theirs'[f] = m.status, owed'[f] = Arrives(f)
  PROVE  FriendBook(f)'
<1>1. /\ inbox \in Seq(Message) /\ queue \in Seq(Message) /\ SocketOrder /\ FriendBook(f)
      /\ UNCHANGED known /\ Unfriending(f)' = Unfriending(f)
  BY ClientKeeps DEF ShowInv, IInv, WireInv, Books, Unfriending
<1>2. ~IsAccept(m, f) /\ ~IsRemoval(m, f) /\ ~IsGreeting(m)
  BY DEF IsUpdate, IsAccept, IsRemoval, IsGreeting
<1>3. CASE link = "down"
  <2>1. /\ inbox = <<>> /\ inbox' = <<>>
        /\ owed'[f] => queue' = Append(queue, m)
    BY <1>1, <1>3 DEF SocketOrder, Relay, Arrives
  <2>2. owed'[f] => Ends(queue', f, theirs'[f])
    BY <1>1, <2>1, AppendAbout
  <2>3. QED BY <1>1, <1>3, <2>1, <2>2, NothingThere DEF FriendBook, Reaches, Settled
<1>4. CASE link # "down"
  <2>1. /\ inbox' = Append(inbox, m) /\ queue' = queue /\ owed'[f] = ~About(queue, f)
    BY <1>4 DEF Relay, Arrives
  <2>2. Ends(inbox', f, theirs'[f]) /\ About(inbox', f) /\ RemovedFirst(inbox', f)
    BY <1>1, <2>1, AppendAbout
  <2>3. /\ AcceptedAgain(inbox, f) => AcceptedAgain(inbox', f)
        /\ AcceptedFirst(inbox', f) /\ (Promised(inbox, f) => Promised(inbox', f))
    BY <1>1, <1>2, <2>1, AppendAccepts
  <2>4. QED BY <1>1, <1>4, <2>1, <2>2, <2>3 DEF FriendBook, Reaches, Settled
<1>5. QED BY <1>3, <1>4

LEMMA ShowChanges ==
  ASSUME ShowInv, NEW f \in Friend, NEW s \in FriendStatus, FriendChanges(f, s) PROVE Books'
<1> DEFINE m == [type |-> "presence_update", friend |-> f, status |-> s]
<1>1. /\ UNCHANGED client /\ UNCHANGED <<friends, link, outbox>>
      /\ theirs' = [theirs EXCEPT ![f] = s]
      /\ \/ f \in friends /\ Relay(m) /\ owed' = [owed EXCEPT ![f] = Arrives(f)]
         \/ f \notin friends /\ UNCHANGED <<inbox, queue, owed>>
  BY DEF FriendChanges
<1>2. /\ \A g : ~IsAccept(m, g) /\ ~IsRemoval(m, g) /\ (IsUpdate(m, g) <=> g = f)
      /\ m.type \notin {"auth_ok", "removed"} /\ ~IsGreeting(m) /\ m.status = s
  BY DEF IsUpdate, IsAccept, IsRemoval, IsGreeting
<1> HIDE DEF m
<1>3. /\ theirs'[f] = s
      /\ \A g \in Friend : g # f => theirs'[g] = theirs[g] /\ owed'[g] = owed[g]
  BY <1>1 DEF ShowInv
<1>4. \A g : Unfriending(g)' = Unfriending(g)
  BY <1>1 DEF Unfriending
<1>5. CASE f \in friends
  <2>1. Relay(m) /\ owed'[f] = Arrives(f)
    BY <1>1, <1>5 DEF ShowInv
  <2>2. SocketOrder'
    BY <1>1, <1>2, <2>1, RelayOrder, ClientKeeps
  <2>3. FriendBook(f)'
    BY <1>1, <1>2, <1>3, <1>5, <2>1, BookOfChange
  <2>4. ASSUME NEW g \in Friend, g # f PROVE FriendBook(g)'
    BY <1>1, <1>2, <1>3, <1>4, <2>1, <2>4, Relays, ClientKeeps, Elsewhere
  <2>5. QED BY <1>1, <2>2, <2>3, <2>4, ClientKeeps DEF Books
<1>6. CASE f \notin friends
  <2>1. UNCHANGED <<inbox, queue, owed>>
    BY <1>1, <1>6
  <2>2. SocketOrder'
    BY <1>1, <2>1, OrderKept, ClientKeeps DEF ShowInv, Books
  <2>3. FriendBook(f)'
    BY <1>1, <1>6, <2>1 DEF ShowInv, Books, FriendBook
  <2>4. ASSUME NEW g \in Friend, g # f PROVE FriendBook(g)'
    <3>1. FriendBook(g)
      BY DEF ShowInv, Books
    <3>2. owed[g] /\ Settled(g) => list'[g] = theirs[g]
      BY <1>1, <3>1, ClientKeeps DEF FriendBook
    <3>3. QED BY <1>1, <1>3, <1>4, <2>1, <2>4, <3>1, <3>2, ClientKeeps, BookKept
  <2>5. QED BY <1>1, <2>2, <2>3, <2>4, ClientKeeps DEF Books
<1>7. QED BY <1>5, <1>6

LEMMA ShowAccepts == ASSUME ShowInv, NEW f \in Friend, FriendAccepts(f) PROVE Books'
<1> DEFINE m == [type |-> "friend_accept", friend |-> f]
<1>1. /\ UNCHANGED client /\ UNCHANGED <<theirs, link, outbox>> /\ Relay(m)
      /\ friends' = friends \cup {f} /\ owed' = [owed EXCEPT ![f] = FALSE]
  BY DEF FriendAccepts
<1>2. /\ \A g : ~IsUpdate(m, g) /\ ~IsRemoval(m, g) /\ (IsAccept(m, g) <=> g = f)
      /\ m.type \notin {"auth_ok", "removed"} /\ ~IsGreeting(m)
  BY DEF IsUpdate, IsAccept, IsRemoval, IsGreeting
<1> HIDE DEF m
<1>3. ~owed'[f] /\ \A g \in Friend : g # f => owed'[g] = owed[g]
  BY <1>1 DEF ShowInv
<1>4. SocketOrder'
  BY <1>1, <1>2, RelayOrder, ClientKeeps
<1>5. FriendBook(f)'
  <2>1. CASE link = "down"
    <3>1. inbox' = <<>>
      BY <1>1, <2>1 DEF Relay, ShowInv, Books, SocketOrder
    <3>2. QED BY <1>1, <1>3, <2>1, <3>1, NothingThere DEF FriendBook
  <2>2. CASE link # "down"
    <3>1. inbox' = Append(inbox, m) /\ inbox \in Seq(Message)
      BY <1>1, <2>2 DEF Relay, ShowInv, IInv, WireInv
    <3>2. AcceptedAgain(inbox', f) /\ Promised(inbox', f)
      BY <1>2, <3>1, AppendAccepts
    <3>3. QED BY <1>3, <3>2 DEF FriendBook
  <2>3. QED BY <2>1, <2>2
<1>6. ASSUME NEW g \in Friend, g # f PROVE FriendBook(g)'
  <2>1. Unfriending(g)' = Unfriending(g) /\ (g \in friends' <=> g \in friends)
    BY <1>1, <1>6 DEF Unfriending
  <2>2. QED BY <1>1, <1>2, <1>3, <1>6, <2>1, Relays, ClientKeeps, Elsewhere
<1>7. QED BY <1>1, <1>4, <1>5, <1>6, ClientKeeps DEF Books

LEMMA ShowRejects == ASSUME ShowInv, NEW r \in Refusable, FriendRejects(r) PROVE Books'
<1> DEFINE m == [type |-> "friend_reject", request |-> r]
<1>1. UNCHANGED client /\ UNCHANGED <<theirs, friends, link, outbox, owed>> /\ Relay(m)
  BY DEF FriendRejects, history
<1>2. /\ \A g : ~IsUpdate(m, g) /\ ~IsRemoval(m, g) /\ ~IsAccept(m, g)
      /\ m.type \notin {"auth_ok", "removed"} /\ ~IsGreeting(m)
  BY DEF IsUpdate, IsAccept, IsRemoval, IsGreeting
<1> HIDE DEF m
<1>3. SocketOrder'
  BY <1>1, <1>2, RelayOrder, ClientKeeps
<1>4. ASSUME NEW g \in Friend PROVE FriendBook(g)'
  <2>1. Unfriending(g)' = Unfriending(g)
    BY <1>1 DEF Unfriending
  <2>2. QED BY <1>1, <1>2, <2>1, Relays, ClientKeeps, Elsewhere
<1>5. QED BY <1>1, <1>3, <1>4, ClientKeeps DEF Books

LEMMA ShowLeaves == ASSUME ShowInv, NEW f \in Friend, FriendLeaves(f) PROVE Books'
<1>1. /\ UNCHANGED client /\ UNCHANGED <<theirs, queue, link, inbox, outbox>>
      /\ friends' = friends \ {f} /\ owed' = [owed EXCEPT ![f] = FALSE]
  BY DEF FriendLeaves, wires
<1>2. ~owed'[f] /\ \A g \in Friend : g # f => owed'[g] = owed[g]
  BY <1>1 DEF ShowInv
<1>3. SocketOrder'
  BY <1>1, OrderKept, ClientKeeps DEF ShowInv, Books
<1>4. FriendBook(f)'
  BY <1>1, <1>2 DEF FriendBook
<1>5. ASSUME NEW g \in Friend, g # f PROVE FriendBook(g)'
  <2>1. Unfriending(g)' = Unfriending(g) /\ (g \in friends' <=> g \in friends)
    BY <1>1, <1>5 DEF Unfriending
  <2>2. FriendBook(g)
    BY DEF ShowInv, Books
  <2>3. owed[g] /\ Settled(g) => list'[g] = theirs[g]
    BY <1>1, <2>2, ClientKeeps DEF FriendBook
  <2>4. QED BY <1>1, <1>2, <1>5, <2>1, <2>2, <2>3, ClientKeeps, BookKept
<1>6. QED BY <1>1, <1>3, <1>4, <1>5, ClientKeeps DEF Books

LEMMA ShowRegister == ASSUME ShowInv, Register PROVE Books'
<1>1. /\ UNCHANGED client /\ UNCHANGED <<friends, theirs, queue, inbox, outbox, owed>>
      /\ link = "down" /\ link' = "asked"
  BY DEF Register
<1>2. SocketOrder /\ inbox = <<>>
  BY <1>1 DEF ShowInv, Books, SocketOrder
<1>3. SocketOrder'
  BY <1>1, <1>2, NothingThere DEF SocketOrder
<1>4. ASSUME NEW g \in Friend PROVE FriendBook(g)'
  <2>1. FriendBook(g)
    BY DEF ShowInv, Books
  <2>2. Reaches(g)' <=> Reaches(g)
    BY <1>1, ClientKeeps DEF Reaches
  <2>3. QED BY <1>1, <2>1, <2>2 DEF FriendBook, Settled
<1>5. QED BY <1>1, <1>3, <1>4, ClientKeeps DEF Books

LEMMA JoinedLast ==
  ASSUME NEW S, NEW q \in Seq(S), NEW k \in Seq(S), NEW x \in S
  PROVE  q \o Append(k, x) = Append(q \o k, x)
OBVIOUS

\* What is left of the queue comes after what was relayed, and then the friends.
LEMMA ShowAnswer == ASSUME ShowInv, Answer PROVE Books'
<1>1. PICK k : /\ k \in Seq(Message) /\ Remains(k, queue)
               /\ inbox' = inbox \o Append(k, [type |-> "auth_ok", friends |-> friends])
               /\ owed' = [f \in Friend |-> owed[f] /\ (About(queue, f) => About(k, f))]
  <2>1. PICK old \in 0 .. Len(queue) :
          LET kept == SubSeq(queue, old + 1, Len(queue)) IN
          /\ inbox' = inbox \o Append(kept, [type |-> "auth_ok", friends |-> friends])
          /\ owed' = [f \in Friend |-> owed[f] /\ (About(queue, f) => About(kept, f))]
    BY DEF Answer
  <2>2. SubSeq(queue, old + 1, Len(queue)) \in Seq(Message)
    BY Kept DEF ShowInv, IInv, WireInv
  <2>3. QED BY <2>1, <2>2 DEF Remains
<1>2. /\ UNCHANGED client /\ UNCHANGED <<friends, theirs, outbox>>
      /\ link = "asked" /\ link' = "up" /\ queue' = <<>>
  BY DEF Answer
<1>3. PICK m : m = [type |-> "auth_ok", friends |-> friends]
  OBVIOUS
<1>4. PICK q : q = inbox \o k
  OBVIOUS
<1>5. /\ inbox \in Seq(Message) /\ queue \in Seq(Message) /\ k \in Seq(Message)
      /\ q \in Seq(Message) /\ m \in Message /\ friends \subseteq Friend
  BY <1>1, <1>3, <1>4, Joined, Answers DEF ShowInv, IInv, WireInv
<1>6. inbox' = Append(q, m)
  BY <1>1, <1>3, <1>4, <1>5, JoinedLast
<1>7. /\ IsGreeting(m) /\ m.friends = friends
      /\ \A g : ~IsUpdate(m, g) /\ ~IsRemoval(m, g) /\ ~IsAccept(m, g)
  BY <1>3 DEF IsGreeting, IsUpdate, IsRemoval, IsAccept
<1>8. Relayed(inbox) /\ Relayed(queue)
  BY <1>2 DEF ShowInv, Books, SocketOrder
<1>9. Relayed(q)
  BY <1>1, <1>3, <1>4, <1>5, <1>8, KeptAbout, JoinedAbout
<1>10. ~Greeted(q) /\ \A g : RemovedFirst(q, g) /\ AcceptedAgain(q, g)
  BY <1>9, RelayedOnly
<1>11. SocketOrder'
  <2>1. GreetedOnce(inbox') /\ Greeted(inbox')
    BY <1>5, <1>6, <1>7, <1>10, AppendGreets
  <2>2. QED BY <1>2, <2>1, NothingThere DEF SocketOrder
<1>12. ASSUME NEW g \in Friend PROVE FriendBook(g)'
  <2>1. FriendBook(g)
    BY DEF ShowInv, Books
  <2>2. AcceptedAgain(inbox', g) /\ AcceptedFirst(inbox', g) /\ (g \in friends => Promised(inbox', g))
    BY <1>5, <1>6, <1>7, <1>10, AppendAccepts
  <2>3. RemovedFirst(inbox', g)
    BY <1>5, <1>6, <1>7, <1>10, AppendAbout
  <2>4. Greeted(inbox')
    BY <1>5, <1>6, <1>7, AppendGreets
  <2>5. owed'[g] <=> owed[g] /\ (About(queue, g) => About(k, g))
    BY <1>1, <1>3
  <2>6. ASSUME owed'[g] PROVE Reaches(g)'
    <3>1. Reaches(g) /\ (About(queue, g) => About(k, g))
      BY <2>1, <2>5, <2>6 DEF FriendBook
    <3>2. /\ About(k, g) => About(queue, g)
          /\ Ends(queue, g, theirs[g]) /\ About(k, g) => Ends(k, g, theirs[g])
      BY <1>1, <1>3, <1>5, KeptAbout
    <3>3. /\ About(q, g) <=> About(inbox, g) \/ About(k, g)
          /\ Ends(k, g, theirs[g]) => Ends(q, g, theirs[g])
          /\ Ends(inbox, g, theirs[g]) /\ ~About(k, g) => Ends(q, g, theirs[g])
      BY <1>4, <1>5, JoinedAbout
    <3>4. /\ About(inbox', g) <=> About(q, g)
          /\ Ends(q, g, theirs[g]) => Ends(inbox', g, theirs[g])
      BY <1>5, <1>6, <1>7, AppendAbout
    <3>5. ~About(queue', g)
      BY <1>2, NothingThere
    <3>6. cache' = cache /\ theirs' = theirs
      BY <1>2, ClientKeeps
    <3>7. QED BY <3>1, <3>2, <3>3, <3>4, <3>5, <3>6, EndsIsAbout DEF Reaches
  <2>7. QED BY <1>2, <2>1, <2>2, <2>3, <2>4, <2>5, <2>6 DEF FriendBook, Settled
<1>13. QED BY <1>2, <1>11, <1>12, ClientKeeps DEF Books

\* The request that is answered is the only one that is no longer on its way.
LEMMA ServedUnfriending ==
  ASSUME SentInv, outbox # <<>>, outbox' = Tail(outbox), NEW g, Unfriending(g),
         ~(Head(outbox).type = "friend_remove" /\ Head(outbox).friend = g)
  PROVE  Unfriending(g)'
<1>1. /\ DOMAIN outbox' = 1 .. Len(outbox) - 1 /\ DOMAIN outbox = 1 .. Len(outbox)
      /\ Len(outbox) \in Nat \ {0} /\ Head(outbox) = outbox[1]
      /\ \A i \in DOMAIN outbox' : outbox'[i] = outbox[i + 1]
  BY TailAt DEF SentInv
<1>2. PICK i \in DOMAIN outbox : outbox[i].type = "friend_remove" /\ outbox[i].friend = g
  BY DEF Unfriending
<1>3. i - 1 \in DOMAIN outbox' /\ outbox'[i - 1] = outbox[i]
  BY <1>1, <1>2
<1>4. QED BY <1>2, <1>3 DEF Unfriending

LEMMA ShowServe == ASSUME ShowInv, Serve PROVE Books'
<1>1. /\ UNCHANGED client /\ UNCHANGED <<theirs, queue, link>> /\ link = "up"
      /\ outbox # <<>> /\ outbox' = Tail(outbox)
  BY DEF Serve
<1>2. CASE Head(outbox).type = "status_update" /\ UNCHANGED <<friends, inbox, owed>>
  <2>1. SocketOrder'
    BY <1>1, <1>2, OrderKept, ClientKeeps DEF ShowInv, Books
  <2>2. ASSUME NEW g \in Friend PROVE FriendBook(g)'
    <3>1. Unfriending(g) => Unfriending(g)'
      BY <1>1, <1>2, ServedUnfriending DEF ShowInv
    <3>2. FriendBook(g)
      BY DEF ShowInv, Books
    <3>3. owed[g] /\ Settled(g) => list'[g] = theirs[g]
      BY <1>1, <3>2, ClientKeeps DEF FriendBook
    <3>4. QED BY <1>1, <1>2, <3>1, <3>2, <3>3, ClientKeeps, BookKept
  <2>3. QED BY <1>1, <2>1, <2>2, ClientKeeps DEF Books
<1>3. ASSUME NEW h, h = Head(outbox).friend, Head(outbox).type = "friend_remove", Unfriend(h),
             h \in friends
      PROVE  Books'
  <2> DEFINE m == [type |-> "removed", friend |-> h]
  <2>1. /\ friends' = friends \ {h} /\ inbox' = Append(inbox, m) /\ h \in Friend
        /\ owed' = [g \in Friend |-> owed[g] /\ g # h]
    BY <1>3 DEF Unfriend, ShowInv, IInv, WireInv
  <2>2. /\ ~IsGreeting(m) /\ m \in Message
        /\ \A g : ~IsUpdate(m, g) /\ ~IsAccept(m, g) /\ (IsRemoval(m, g) <=> g = h)
    BY <2>1, Removals DEF IsGreeting, IsUpdate, IsRemoval, IsAccept
  <2> HIDE DEF m
  <2>3. ~owed'[h] /\ \A g \in Friend : g # h => owed'[g] = owed[g]
    BY <2>1 DEF ShowInv
  <2>4. SocketOrder'
    <3>1. SocketOrder /\ inbox \in Seq(Message)
      BY DEF ShowInv, IInv, WireInv, Books
    <3>2. (GreetedOnce(inbox) => GreetedOnce(inbox')) /\ (Greeted(inbox) => Greeted(inbox'))
      BY <2>1, <2>2, <3>1, AppendGreets
    <3>3. QED BY <1>1, <3>1, <3>2, ClientKeeps DEF SocketOrder
  <2>5. FriendBook(h)'
    BY <2>1, <2>3 DEF FriendBook
  <2>6. ASSUME NEW g \in Friend, g # h PROVE FriendBook(g)'
    <3>1. Unfriending(g) => Unfriending(g)'
      BY <1>1, <1>3, <2>6, ServedUnfriending DEF ShowInv
    <3>2. g \in friends' <=> g \in friends
      BY <2>1, <2>6
    <3>3. QED BY <1>1, <2>1, <2>2, <2>3, <2>6, <3>1, <3>2, ClientKeeps, Elsewhere
  <2>7. QED BY <1>1, <2>4, <2>5, <2>6, ClientKeeps DEF Books
<1>4. ASSUME NEW h, h = Head(outbox).friend, Head(outbox).type = "friend_remove", Unfriend(h),
             h \notin friends
      PROVE  Books'
  <2>1. UNCHANGED <<friends, inbox>> /\ owed' = [g \in Friend |-> owed[g] /\ g # h]
    BY <1>4 DEF Unfriend
  <2>2. SocketOrder'
    BY <1>1, <2>1, OrderKept, ClientKeeps DEF ShowInv, Books
  <2>3. ASSUME NEW g \in Friend PROVE FriendBook(g)'
    <3>1. FriendBook(g)
      BY DEF ShowInv, Books
    <3>2. owed'[g] => owed[g]
      BY <2>1
    <3>3. CASE g \notin friends
      BY <2>1, <3>1, <3>2, <3>3 DEF FriendBook
    <3>4. CASE g \in friends
      <4>1. Unfriending(g) => Unfriending(g)'
        BY <1>1, <1>4, <3>4, ServedUnfriending DEF ShowInv
      <4>2. owed[g] /\ Settled(g) => list'[g] = theirs[g]
        BY <1>1, <3>1, ClientKeeps DEF FriendBook
      <4>3. QED BY <1>1, <2>1, <3>1, <3>2, <4>1, <4>2, ClientKeeps, BookKept
    <3>5. QED BY <3>3, <3>4
  <2>4. QED BY <1>1, <2>2, <2>3, ClientKeeps DEF Books
<1>5. QED BY <1>2, <1>3, <1>4 DEF Serve

LEMMA ShowDrop == ASSUME ShowInv, Drop PROVE Books'
<1>1. /\ UNCHANGED <<known, loaded, pending, cache, list, chat, strays, friends, theirs, queue>>
      /\ link' = "down" /\ inbox' = <<>>
      /\ owed' = [f \in Friend |-> owed[f] /\ ~About(inbox, f)]
  BY DEF Drop, roster, windows
<1>2. SocketOrder'
  BY <1>1, NothingThere DEF ShowInv, Books, SocketOrder
<1>3. ASSUME NEW g \in Friend PROVE FriendBook(g)' /\ ChatBook(g)'
  <2>1. FriendBook(g) /\ ChatBook(g)
    BY DEF ShowInv, Books
  <2>2. owed'[g] <=> owed[g] /\ ~About(inbox, g)
    BY <1>1
  <2>3. owed'[g] => Reaches(g)'
    BY <1>1, <2>1, <2>2, NothingThere, EndsIsAbout DEF FriendBook, Reaches
  <2>4. FriendBook(g)'
    BY <1>1, <2>1, <2>2, <2>3, NothingThere DEF FriendBook, Settled
  <2>5. QED BY <1>1, <2>1, <2>4, ChatKept
<1>4. QED BY <1>2, <1>3 DEF Books

LEMMA ShowNotice == ASSUME ShowInv, Notice PROVE Books'
<1>1. UNCHANGED <<link, inbox, queue, friends, owed, theirs, outbox, cache, roster, list, chat>>
      /\ UNCHANGED strays
  BY DEF Notice, client, wires, history, windows
<1>2. QED BY <1>1, ShowQuiet

LEMMA ShowServer == ASSUME ShowInv, Server PROVE Books'
BY ShowChanges, ShowAccepts, ShowRejects, ShowLeaves, ShowRegister, ShowAnswer, ShowServe, ShowDrop,
   ShowNotice
   DEF Server

LEMMA OwedTyped ==
  ASSUME owed \in [Friend -> BOOLEAN], theirs \in [Friend -> Status], Next
  PROVE  owed' \in [Friend -> BOOLEAN] /\ theirs' \in [Friend -> Status]
<1>1. CASE Client
  <2>1. theirs' = theirs
    BY <1>1
       DEF Client, PickStatus, RunJob, MarkActive, Rest, CheckIdle, OnAuthOk, OnPresenceUpdate,
           OnFriendAccept, OnFriendReject, OnRemoved, RemoveFriend, SelectFriend, CloseChat,
           ShowProfile, CloseProfile, StartSession, server
  <2>2. owed' = owed \/ \E e : owed' = [f \in Friend |-> owed[f] /\ f # e]
    BY <1>1
       DEF Client, PickStatus, RunJob, MarkActive, Rest, CheckIdle, OnAuthOk, OnPresenceUpdate,
           OnFriendAccept, OnFriendReject, OnRemoved, RemoveFriend, SelectFriend, CloseChat,
           ShowProfile, CloseProfile, StartSession, history
  <2>3. QED BY <2>1, <2>2
<1>2. CASE Server
  <2>1. \/ theirs' = theirs
        \/ \E f \in Friend, s \in FriendStatus : theirs' = [theirs EXCEPT ![f] = s]
    BY <1>2
       DEF Server, FriendChanges, FriendAccepts, FriendLeaves, FriendRejects, Register, Answer,
           Serve, Drop, Notice, server
  <2>2. theirs' \in [Friend -> Status]
    BY <2>1, StatusAssumption
  <2>3. ASSUME NEW f \in Friend, NEW s \in FriendStatus, FriendChanges(f, s)
        PROVE  owed' \in [Friend -> BOOLEAN]
    <3>1. Arrives(f) \in BOOLEAN
      BY DEF Arrives, About
    <3>2. owed' = owed \/ owed' = [owed EXCEPT ![f] = Arrives(f)]
      BY <2>3 DEF FriendChanges
    <3>3. QED BY <3>1, <3>2
  <2>4. CASE Answer
    BY <2>4 DEF Answer
  <2>5. CASE Drop
    BY <2>5 DEF Drop
  <2>6. CASE \/ \E f \in Friend : FriendAccepts(f) \/ FriendLeaves(f)
             \/ (\E r \in Refusable : FriendRejects(r)) \/ Register \/ Serve \/ Notice
    <3>1. \/ owed' = owed
          \/ \E f : owed' = [owed EXCEPT ![f] = FALSE]
          \/ \E e : owed' = [f \in Friend |-> owed[f] /\ f # e]
      BY <2>6
         DEF FriendAccepts, FriendLeaves, FriendRejects, Register, Serve, Unfriend, Notice, history
    <3>2. QED BY <2>2, <3>1
  <2>7. QED BY <1>2, <2>2, <2>3, <2>4, <2>5, <2>6 DEF Server
<1>3. QED BY <1>1, <1>2 DEF Next

LEMMA ShowNext == ASSUME ShowInv, [Next]_vars PROVE ShowInv'
<1>1. CASE UNCHANGED vars
  <2>1. UNCHANGED <<cache, roster, windows, server, wires, jobs, owed>>
    BY <1>1 DEF vars, own, history
  <2>2. IInv' /\ SentInv'
    BY <2>1, ListKept, SentKept DEF ShowInv, roster, server, wires
  <2>3. Books'
    BY <2>1, ShowQuiet DEF windows, server, wires
  <2>4. QED BY <2>1, <2>2, <2>3 DEF ShowInv, server
<1>2. CASE Client
  BY <1>2, ListClient, SentClient, OwedTyped, ShowClient DEF ShowInv, Next
<1>3. CASE Server
  BY <1>3, ListServer, SentServer, OwedTyped, ShowServer DEF ShowInv, Next
<1>4. QED BY <1>1, <1>2, <1>3 DEF Next

\* A change of a friend that was not lost on the way ends up in the list and in the
\* open chat window (_on_friend_update), also when it was kept until the friends
\* came (_replay_pending_presence).
THEOREM ChangesArrive == Spec => []ChangesAreShown
<1>1. QED BY ShowInit, ShowNext, ShowImplies, PTL DEF Spec

-----------------------------------------------------------------------------
(* Types *)

OwnTyped ==
  /\ mine \in Status /\ pick \in Status
  /\ autoIdle \in BOOLEAN /\ active \in BOOLEAN /\ timer \in BOOLEAN /\ overtaken \in BOOLEAN
  /\ task \in {"connecting", "done", "failed"}
  /\ autoIdle => mine \in {"online", "idle"}

LinkTyped ==
  /\ link \in {"down", "asked", "up"} /\ unnoticed \in BOOLEAN
  /\ told \in Status /\ slipped \in BOOLEAN
  /\ authenticated \in BOOLEAN /\ (authenticated => link = "up")

RestTyped ==
  /\ loaded \in BOOLEAN /\ pending \subseteq Friend
  /\ used \in [Bounds -> Nat] /\ \A b \in Bounds : used[b] \in 0 .. Limit[b]

PlainInv == OwnTyped /\ LinkTyped /\ RestTyped
TypeInv  == ShowInv /\ PlainInv

LEMMA UsedTyped ==
  ASSUME used \in [Bounds -> Nat], \A b \in Bounds : used[b] \in 0 .. Limit[b],
         NEW b \in Bounds, Use(b)
  PROVE  used' \in [Bounds -> Nat] /\ \A c \in Bounds : used'[c] \in 0 .. Limit[c]
<1>1. /\ used[b] < Limit[b] /\ used' = [used EXCEPT ![b] = @ + 1]
      /\ Limit[b] \in Nat /\ used[b] \in Nat
  BY BoundsAssumption DEF Use
<1>2. used' \in [Bounds -> Nat]
  BY <1>1
<1>3. \A c \in Bounds : used'[c] = IF c = b THEN used[b] + 1 ELSE used[c]
  BY <1>1
<1>4. used[b] + 1 \in 0 .. Limit[b]
  BY <1>1
<1>5. QED BY <1>2, <1>3, <1>4

LEMMA TypeInit == Init => TypeInv
<1> SUFFICES ASSUME Init PROVE TypeInv
  OBVIOUS
<1>1. OwnTyped /\ LinkTyped
  BY DEF Init, OwnTyped, LinkTyped, Status
<1>2. RestTyped
  <2>1. used = [b \in Bounds |-> 0] /\ loaded = FALSE /\ pending = {}
    BY DEF Init
  <2>2. used \in [Bounds -> Nat] /\ \A b \in Bounds : used[b] = 0
    BY <2>1
  <2>3. \A b \in Bounds : 0 \in 0 .. Limit[b]
    BY BoundsAssumption
  <2>4. QED BY <2>1, <2>2, <2>3 DEF RestTyped
<1>3. QED BY <1>1, <1>2, ShowInit DEF TypeInv, PlainInv

LEMMA TypeImplies == TypeInv => TypeOK
BY DEF TypeInv, PlainInv, OwnTyped, LinkTyped, RestTyped, ShowInv, IInv, WireInv, ShownInv, SentInv,
       TypeOK

\* The user's own status.
LEMMA OwnSets ==
  ASSUME NEW s \in Status, SetStatus(s)
  PROVE  /\ mine' \in Status /\ pick' \in Status /\ autoIdle' \in BOOLEAN
         /\ autoIdle' => mine' \in {"online", "idle"}
<1>1. mine' = s /\ pick' = s /\ autoIdle' = (s = "online")
  BY DEF SetStatus
<1>2. QED BY <1>1

LEMMA SendTyped == ASSUME NEW s, Send(s), authenticated \in BOOLEAN PROVE slipped' \in BOOLEAN
BY DEF Send

LEMMA OwnTurns ==
  ASSUME OwnTyped, Turns("online", FALSE) \/ Turns("idle", TRUE),
         UNCHANGED <<pick, timer, task>>, active' \in BOOLEAN
  PROVE  OwnTyped'
<1>1. (mine' = "online" /\ ~autoIdle') \/ mine' = "idle"
  BY DEF Turns
<1>2. autoIdle' \in BOOLEAN /\ overtaken' \in BOOLEAN
  BY DEF Turns
<1>3. QED BY <1>1, <1>2 DEF OwnTyped, Status

LEMMA OwnClient == ASSUME TypeInv, Client PROVE OwnTyped'
<1>1. ASSUME NEW s \in Choices, PickStatus(s) PROVE OwnTyped'
  <2>1. UNCHANGED <<mine, pick, autoIdle, active, timer, task>>
    BY <1>1 DEF PickStatus
  <2>2. overtaken' \in BOOLEAN
    BY <1>1 DEF PickStatus
  <2>3. QED BY <2>1, <2>2 DEF TypeInv, PlainInv, OwnTyped
<1>2. CASE RunJob
  <2>1. Head(jobs) \in Job
    BY <1>2, Read DEF RunJob, TypeInv, ShowInv, SentInv
  <2>2. Head(jobs).status \in Status
    BY <2>1 DEF Job
  <2>3. SetStatus(Head(jobs).status) \/ UNCHANGED <<mine, autoIdle, pick>>
    BY <1>2 DEF RunJob
  <2>4. UNCHANGED <<active, timer, task, overtaken>>
    BY <1>2 DEF RunJob
  <2>5. QED BY <2>2, <2>3, <2>4, OwnSets DEF TypeInv, PlainInv, OwnTyped
<1>3. CASE MarkActive
  <2>1. active' \in BOOLEAN /\ UNCHANGED <<pick, timer, task>>
    BY <1>3 DEF MarkActive
  <2>2. CASE Turns("online", FALSE)
    BY <2>1, <2>2, OwnTurns DEF TypeInv, PlainInv
  <2>3. CASE UNCHANGED <<mine, autoIdle, overtaken>>
    BY <2>1, <2>3 DEF TypeInv, PlainInv, OwnTyped
  <2>4. QED BY <1>3, <2>2, <2>3 DEF MarkActive
<1>4. CASE CheckIdle
  BY <1>4, OwnTurns DEF CheckIdle, TypeInv, PlainInv, OwnTyped
<1>5. CASE StartSession
  <2>1. SetStatus("online") /\ "online" \in Status
    BY <1>5 DEF StartSession, Status
  <2>2. /\ task' \in {"connecting", "done", "failed"} /\ timer' \in {timer, TRUE}
        /\ UNCHANGED <<active, overtaken>>
    BY <1>5 DEF StartSession
  <2>3. QED BY <2>1, <2>2, OwnSets DEF TypeInv, PlainInv, OwnTyped
<1>6. CASE Rest
  BY <1>6 DEF Rest, history, TypeInv, PlainInv, OwnTyped
<1>7. CASE OnAuthOk \/ OnPresenceUpdate \/ OnFriendAccept \/ OnFriendReject \/ OnRemoved
  <2>1. UNCHANGED <<own, pick, overtaken>>
    BY <1>7 DEF OnAuthOk, OnPresenceUpdate, OnFriendAccept, OnFriendReject, OnRemoved, history
  <2>2. QED BY <2>1 DEF TypeInv, PlainInv, OwnTyped, own
<1>8. CASE \/ \E e \in Entry : RemoveFriend(e) \/ SelectFriend(e) \/ CloseChat(e)
           \/ CloseProfile \/ \E f \in Friend : ShowProfile(f)
  <2>1. UNCHANGED <<own, pick, overtaken>>
    BY <1>8 DEF RemoveFriend, SelectFriend, CloseChat, ShowProfile, CloseProfile, history
  <2>2. QED BY <2>1 DEF TypeInv, PlainInv, OwnTyped, own
<1>9. QED BY <1>1, <1>2, <1>3, <1>4, <1>5, <1>6, <1>7, <1>8 DEF Client

LEMMA OwnServer == ASSUME TypeInv, Server PROVE OwnTyped'
<1>1. UNCHANGED <<own, pick, overtaken>>
  BY DEF Server, FriendChanges, FriendAccepts, FriendLeaves, FriendRejects, Register, Answer,
         Serve, Drop, Notice, client, history
<1>2. QED BY <1>1 DEF TypeInv, PlainInv, OwnTyped, own

\* auth_ok only comes on a socket that is up.
LEMMA LinkClient == ASSUME TypeInv, Client PROVE LinkTyped'
<1>1. CASE OnAuthOk
  <2>1. /\ inbox # <<>> /\ Head(inbox).type = "auth_ok" /\ authenticated'
        /\ UNCHANGED <<link, unnoticed, told, slipped>>
    BY <1>1 DEF OnAuthOk, Takes, server, history
  <2>2. inbox \in Seq(Message)
    BY DEF TypeInv, ShowInv, IInv, WireInv
  <2>3. link = "up"
    BY <2>1, <2>2, TailGreets DEF TypeInv, ShowInv, Books, SocketOrder
  <2>4. authenticated' \in BOOLEAN
    BY <1>1 DEF OnAuthOk
  <2>5. QED BY <2>1, <2>3, <2>4 DEF TypeInv, PlainInv, LinkTyped
<1>2. CASE RunJob \/ StartSession
  <2>1. (\E s : Send(s)) /\ UNCHANGED <<link, unnoticed, told, authenticated>>
    BY <1>2 DEF RunJob, StartSession, SetStatus, server
  <2>2. QED BY <2>1, SendTyped DEF TypeInv, PlainInv, LinkTyped
<1>3. CASE \/ \E s \in Choices : PickStatus(s)
           \/ MarkActive \/ Rest \/ CheckIdle \/ OnPresenceUpdate \/ OnFriendAccept
           \/ OnFriendReject \/ OnRemoved
           \/ \E e \in Entry : RemoveFriend(e) \/ SelectFriend(e) \/ CloseChat(e)
           \/ CloseProfile \/ \E f \in Friend : ShowProfile(f)
  <2>1. UNCHANGED <<link, unnoticed, told, authenticated, slipped>>
    BY <1>3
       DEF PickStatus, MarkActive, Rest, CheckIdle, OnPresenceUpdate, OnFriendAccept,
           OnFriendReject, OnRemoved, RemoveFriend, SelectFriend, CloseChat, ShowProfile,
           CloseProfile, server, wires, history
  <2>2. QED BY <2>1 DEF TypeInv, PlainInv, LinkTyped
<1>4. QED BY <1>1, <1>2, <1>3 DEF Client

LEMMA LinkServer == ASSUME TypeInv, Server PROVE LinkTyped'
<1>1. LinkTyped
  BY DEF TypeInv, PlainInv
<1>2. CASE Register
  BY <1>1, <1>2 DEF Register, client, LinkTyped, Status
<1>3. CASE Answer
  BY <1>1, <1>3 DEF Answer, client, LinkTyped
<1>4. CASE Serve
  <2>1. Head(outbox) \in Request
    BY <1>4, Read DEF Serve, TypeInv, ShowInv, SentInv
  <2>2. Head(outbox).type = "status_update" => Head(outbox).status \in Status
    BY <2>1 DEF Request
  <2>3. told' \in Status
    BY <1>1, <1>4, <2>2 DEF Serve, LinkTyped
  <2>4. UNCHANGED <<link, unnoticed, authenticated, slipped>>
    BY <1>4 DEF Serve, client
  <2>5. QED BY <1>1, <2>3, <2>4 DEF LinkTyped
<1>5. CASE Drop
  BY <1>1, <1>5 DEF Drop, LinkTyped
<1>6. CASE Notice
  BY <1>1, <1>6 DEF Notice, client, wires, history, LinkTyped, Status
<1>7. CASE \/ \E r \in Refusable : FriendRejects(r)
           \/ \E f \in Friend : \/ \E s \in FriendStatus : FriendChanges(f, s)
                                \/ FriendAccepts(f) \/ FriendLeaves(f)
  <2>1. UNCHANGED <<link, unnoticed, told, authenticated, slipped>>
    BY <1>7 DEF FriendRejects, FriendChanges, FriendAccepts, FriendLeaves, client, wires, history
  <2>2. QED BY <1>1, <2>1 DEF LinkTyped
<1>8. QED BY <1>2, <1>3, <1>4, <1>5, <1>6, <1>7 DEF Server

LEMMA UsedNext ==
  ASSUME RestTyped, Next
  PROVE  used' \in [Bounds -> Nat] /\ \A b \in Bounds : used'[b] \in 0 .. Limit[b]
<1>1. used' = used \/ Use("picks") \/ Use("rests") \/ Use("edits") \/ Use("changes") \/ Use("drops")
  <2>1. CASE Client
    BY <2>1
       DEF Client, PickStatus, RunJob, MarkActive, Rest, CheckIdle, OnAuthOk, OnPresenceUpdate,
           OnFriendAccept, OnFriendReject, OnRemoved, RemoveFriend, SelectFriend, CloseChat,
           ShowProfile, CloseProfile, StartSession
  <2>2. CASE Server
    BY <2>2
       DEF Server, FriendChanges, FriendAccepts, FriendLeaves, FriendRejects, Register, Answer,
           Serve, Drop, Notice
  <2>3. QED BY <2>1, <2>2 DEF Next
<1>2. CASE used' = used
  BY <1>2 DEF RestTyped
<1>3. ASSUME NEW b \in Bounds, Use(b)
      PROVE  used' \in [Bounds -> Nat] /\ \A c \in Bounds : used'[c] \in 0 .. Limit[c]
  BY <1>3, UsedTyped DEF RestTyped
<1>4. QED BY <1>1, <1>2, <1>3 DEF Bounds

LEMMA RestNext == ASSUME TypeInv, Next PROVE RestTyped'
<1>1. RestTyped
  BY DEF TypeInv, PlainInv
<1>2. used' \in [Bounds -> Nat] /\ \A b \in Bounds : used'[b] \in 0 .. Limit[b]
  BY <1>1, UsedNext
<1>3. loaded' \in BOOLEAN /\ pending' \subseteq Friend
  <2>1. CASE OnPresenceUpdate
    <3>1. Head(inbox) \in Message /\ Head(inbox).type = "presence_update"
      BY <2>1, MessageIs DEF OnPresenceUpdate, Takes, TypeInv, ShowInv
    <3>2. Head(inbox).friend \in Friend
      BY <3>1, Parts
    <3>3. /\ UNCHANGED loaded
          /\ pending' = pending \/ pending' = pending \cup {Head(inbox).friend}
      BY <2>1 DEF OnPresenceUpdate
    <3>4. QED BY <1>1, <3>2, <3>3 DEF RestTyped
  <2>2. CASE OnAuthOk
    BY <1>1, <2>2 DEF OnAuthOk, Replay, SetFriends, RestTyped
  <2>3. CASE StartSession
    BY <1>1, <2>3 DEF StartSession, LoadFriends, Replay, SetFriends, windows, RestTyped
  <2>4. CASE OnRemoved \/ \E e \in Entry : RemoveFriend(e)
    <3>1. \E e : RemoveLocalFriend(e)
      BY <2>4 DEF OnRemoved, RemoveFriend
    <3>2. QED BY <1>1, <3>1 DEF RemoveLocalFriend, RestTyped
  <2>5. CASE OnFriendReject \/ OnFriendAccept
    BY <1>1, <2>5 DEF OnFriendReject, OnFriendAccept, roster, RestTyped
  <2>6. CASE \/ \E s \in Choices : PickStatus(s)
             \/ RunJob \/ MarkActive \/ Rest \/ CheckIdle
             \/ \E e \in Entry : SelectFriend(e) \/ CloseChat(e)
             \/ CloseProfile \/ \E f \in Friend : ShowProfile(f)
    <3>1. UNCHANGED <<loaded, pending>>
      BY <2>6
         DEF PickStatus, RunJob, MarkActive, Rest, CheckIdle, SelectFriend, CloseChat,
             ShowProfile, CloseProfile, roster
    <3>2. QED BY <1>1, <3>1 DEF RestTyped
  <2>7. CASE Server
    <3>1. UNCHANGED <<loaded, pending>>
      BY <2>7
         DEF Server, FriendChanges, FriendAccepts, FriendLeaves, FriendRejects, Register, Answer,
             Serve, Drop, Notice, client, roster
    <3>2. QED BY <1>1, <3>1 DEF RestTyped
  <2>8. QED BY <2>1, <2>2, <2>3, <2>4, <2>5, <2>6, <2>7 DEF Next, Client
<1>4. QED BY <1>2, <1>3 DEF RestTyped

\* The variables keep their types: a status that turned by itself is one that the
\* idle timer gives, and no one can send on a socket without auth_ok.
THEOREM TypeCorrect == Spec => []TypeOK
<1>1. ASSUME TypeInv, [Next]_vars PROVE TypeInv'
  <2>1. ShowInv'
    BY <1>1, ShowNext DEF TypeInv
  <2>2. CASE UNCHANGED vars
    BY <1>1, <2>1, <2>2
       DEF vars, own, roster, windows, server, wires, history, TypeInv, PlainInv, OwnTyped,
           LinkTyped, RestTyped
  <2>3. CASE Next
    BY <1>1, <2>1, <2>3, OwnClient, OwnServer, LinkClient, LinkServer, RestNext
       DEF Next, TypeInv, PlainInv
  <2>4. QED BY <1>1, <2>2, <2>3
<1>2. QED BY <1>1, TypeInit, TypeImplies, PTL DEF Spec

=============================================================================
