----------------------------- MODULE Messaging ------------------------------
(***************************************************************************)
(* client/core/messaging.py: the MessageManager of every user, with the    *)
(* rows of client/storage/repositories.py it keeps, over the data channels *)
(* of client/network/p2p_manager.py.                                       *)
(*                                                                         *)
(* Each client runs one asyncio loop, so code without a suspending await   *)
(* is one step.  A coroutine that suspends (send_message) or that is only  *)
(* scheduled (ensure_future of _resend_pending and _send_key_exchange) is  *)
(* cut where other code can run.  A channel is an ordered stream; both     *)
(* ends learn of its end on their own, and what is in flight is lost.      *)
(***************************************************************************)
EXTENDS Naturals, FiniteSets, SequencesExt

CONSTANTS
  User,                 \* the clients
  Msg,                  \* the messages ever composed (msg_id is a fresh uuid4)
  Sender, Receiver,     \* their endpoints, functions of Msg
  Encrypting,           \* clients built with a key manager and an encryption
  Deleting,             \* bound: whose users delete conversations
  MaxLinks              \* bound: how often a connection is established

ASSUME EndpointsAssumption ==
  /\ Sender \in [Msg -> User]
  /\ Receiver \in [Msg -> User]
  /\ \A m \in Msg : Sender[m] # Receiver[m]
ASSUME FiniteAssumption == IsFiniteSet(Msg)
ASSUME EncryptingAssumption == Encrypting \subseteq User
ASSUME DeletingAssumption == Deleting \subseteq User
ASSUME MaxLinksAssumption == MaxLinks \in Nat

VARIABLES
  stage,                \* stage[m]: how far send_message got with m
  delivered,            \* Message.delivered of the sender's row
  seen,                 \* Message.read of the sender's row
  rows,                 \* rows[m]: rows of m in the receiver's database
  readByReceiver,       \* Message.read of the receiver's row
  sealed,               \* Message.encrypted of the sender's row, while it exists
  erased,               \* history: messages whose receiver deleted its row
  erasedRead,           \* history: ... a row it had read
  peerKeys,             \* MessageManager._peer_keys
  sentKeys,             \* MessageManager._sent_keys
  resendDue,            \* scheduled _resend_pending coroutines, by peer
  keyDue,               \* scheduled _send_key_exchange coroutines, by peer
  open,                 \* open[u]: peers for which u has an open data channel
  link,                 \* {u, v}: what one of them sends reaches the other
  wire,                 \* wire[<<u, v>>]: payloads in flight from u to v
  links                 \* connections established so far

erasures == <<erased, erasedRead>>
history  == <<stage, delivered, seen, rows, readByReceiver, sealed, erasures>>
keys     == <<peerKeys, sentKeys>>
tasks    == <<resendDue, keyDue>>
channels == <<open, link, links>>
vars     == <<history, keys, tasks, channels, wire>>

-----------------------------------------------------------------------------
(* Payloads and types *)

Text(m, s)   == [type |-> "message", id |-> m, encrypted |-> s]
Delivered(m) == [type |-> "message_delivered", id |-> m]
ReadIds(S)   == [type |-> "messages_read", ids |-> S]
KeyExchange  == [type |-> "key_exchange"]

Payload ==
  {Text(m, s) : m \in Msg, s \in BOOLEAN}
    \cup {Delivered(m) : m \in Msg}
    \cup {ReadIds(S) : S \in SUBSET Msg}
    \cup {KeyExchange}

\* "connecting": no channel yet, in connect_to_peer or _wait_channel_open.
\* "sealing": a channel is captured, in _await_peer_key.  "orphaned": the
\* captured channel closed meanwhile.  "saved": the row exists.  "failed":
\* send_message returned None.  "deleted": the sender deleted the row.
Stage ==
  {"new", "connecting", "sealing", "orphaned", "saved", "failed", "deleted"}

TypeOK ==
  /\ stage \in [Msg -> Stage]
  /\ delivered \in SUBSET Msg
  /\ seen \in SUBSET Msg
  /\ rows \in [Msg -> Nat]
  /\ readByReceiver \in SUBSET Msg
  /\ sealed \in SUBSET Msg
  /\ erased \in SUBSET Msg
  /\ erasedRead \in SUBSET Msg
  /\ peerKeys \in [User -> SUBSET User]
  /\ sentKeys \in [User -> SUBSET User]
  /\ resendDue \in [User -> SUBSET User]
  /\ keyDue \in [User -> SUBSET User]
  /\ open \in [User -> SUBSET User]
  /\ link \in SUBSET (SUBSET User)
  /\ wire \in [User \X User -> Seq(Payload)]
  /\ links \in Nat

Init ==
  /\ stage = [m \in Msg |-> "new"]
  /\ delivered = {} /\ seen = {} /\ readByReceiver = {} /\ sealed = {}
  /\ erased = {} /\ erasedRead = {}
  /\ rows = [m \in Msg |-> 0]
  /\ peerKeys = [u \in User |-> {}] /\ sentKeys = [u \in User |-> {}]
  /\ resendDue = [u \in User |-> {}] /\ keyDue = [u \in User |-> {}]
  /\ open = [u \in User |-> {}]
  /\ link = {} /\ links = 0
  /\ wire = [p \in User \X User |-> <<>>]

-----------------------------------------------------------------------------
(* The channel *)

\* w with the payloads ps sent from u to v: queued behind the others, or
\* gone if the connection no longer works.
SendAll(w, u, v, ps) ==
  IF {u, v} \in link THEN [w EXCEPT ![<<u, v>>] = @ \o ps] ELSE w

\* channel.send(...) of one payload.
Send(u, v, p) == wire' = SendAll(wire, u, v, <<p>>)

\* _send_json(v, p): nothing is sent without an open channel.
SendJson(w, u, v, p) == IF v \in open[u] THEN SendAll(w, u, v, <<p>>) ELSE w

\* A connection between u and v is negotiated (external: see P2P).  Neither
\* has an open channel: connect_to_peer and accept_offer reuse one that is.
Connect(u, v) ==
  /\ u # v /\ links < MaxLinks
  /\ {u, v} \notin link /\ v \notin open[u] /\ u \notin open[v]
  /\ link' = link \cup {{u, v}}
  /\ links' = links + 1
  /\ UNCHANGED <<history, keys, tasks, open, wire>>

\* The data channel opens at u: _on_channel_open schedules two coroutines.
ChannelOpens(u, v) ==
  /\ {u, v} \in link /\ u # v /\ v \notin open[u]
  /\ open' = [open EXCEPT ![u] = @ \cup {v}]
  /\ resendDue' = [resendDue EXCEPT ![u] = @ \cup {v}]
  /\ keyDue' = [keyDue EXCEPT ![u] = @ \cup {v}]
  /\ UNCHANGED <<history, keys, link, links, wire>>

\* The network drops the connection; neither end has noticed yet.
LinkBreaks(u, v) ==
  /\ {u, v} \in link /\ (v \in open[u] \/ u \in open[v])
  /\ link' = link \ {{u, v}}
  /\ wire' = [wire EXCEPT ![<<u, v>>] = <<>>, ![<<v, u>>] = <<>>]
  /\ UNCHANGED <<history, keys, tasks, open, links>>

\* What is left in flight once u no longer reads from v: v may still read
\* what u sent, if v's end is open.
Unread(w, u, v) ==
  [p \in User \X User |->
     IF p = <<v, u>> \/ (p = <<u, v>> /\ u \notin open[v]) THEN <<>> ELSE w[p]]

\* Sends of u to v that captured the channel now closed.
OrphanUntyped(u, v) ==              \* a bug: an unknown stage
  [m \in Msg |-> IF stage[m] = "sealing" /\ Sender[m] = u THEN "closed" ELSE stage[m]]
Orphan(u, v) ==
  [m \in Msg |-> IF stage[m] = "sealing" /\ Sender[m] = u /\ Receiver[m] = v
                 THEN "orphaned" ELSE stage[m]]

\* _on_peer_disconnected: v's key is forgotten, and so is having sent the own.
ForgetSentKey(u, v) ==              \* a bug: only the second half
  /\ sentKeys' = [sentKeys EXCEPT ![u] = @ \ {v}]
  /\ UNCHANGED peerKeys
ForgetKeys(u, v) ==
  /\ peerKeys' = [peerKeys EXCEPT ![u] = @ \ {v}]
  /\ sentKeys' = [sentKeys EXCEPT ![u] = @ \ {v}]

\* The data channel closes at u.
ChannelCloses(u, v) ==
  /\ v \in open[u]
  /\ open' = [open EXCEPT ![u] = @ \ {v}]
  /\ link' = link \ {{u, v}}
  /\ wire' = Unread(wire, u, v)
  /\ stage' = Orphan(u, v)
  /\ ForgetKeys(u, v)
  /\ UNCHANGED <<delivered, seen, rows, readByReceiver, sealed, erasures, tasks,
                 links>>

\* The calls of send_message that end with u's client.
AbandonAll(u) ==                    \* a bug: the history goes as well
  [m \in Msg |-> IF Sender[m] = u /\ stage[m] # "new" THEN "failed" ELSE stage[m]]
Abandon(u) ==
  [m \in Msg |-> IF /\ Sender[m] = u
                    /\ stage[m] \in {"connecting", "sealing", "orphaned"}
                 THEN "failed" ELSE stage[m]]

\* u's client exits or logs out (close) and is back: only the database is
\* left.
Restart(u) ==
  /\ open' = [open EXCEPT ![u] = {}]
  /\ link' = {l \in link : u \notin l}
  /\ wire' = [p \in User \X User |->
                IF p[2] = u \/ (p[1] = u /\ u \notin open[p[2]])
                THEN <<>> ELSE wire[p]]
  /\ stage' = Abandon(u)
  /\ peerKeys' = [peerKeys EXCEPT ![u] = {}]
  /\ sentKeys' = [sentKeys EXCEPT ![u] = {}]
  /\ resendDue' = [resendDue EXCEPT ![u] = {}]
  /\ keyDue' = [keyDue EXCEPT ![u] = {}]
  /\ UNCHANGED <<delivered, seen, rows, readByReceiver, sealed, erasures, links>>

-----------------------------------------------------------------------------
(* Sending *)

\* _encrypt_content: sealed when the client encrypts and knows v's key.
CanSeal(u, v) == u \in Encrypting /\ v \in peerKeys[u]

\* The end of send_message: seal or fall back to plaintext, send, save.
Transmit(m) ==
  LET u == Sender[m]  v == Receiver[m] IN
  /\ Send(u, v, Text(m, CanSeal(u, v)))
  /\ sealed' = IF CanSeal(u, v) THEN sealed \cup {m} ELSE sealed
  /\ stage' = [stage EXCEPT ![m] = "saved"]
  /\ UNCHANGED <<delivered, seen, rows, readByReceiver, erasures, keys, tasks,
                 channels>>

\* _await_peer_key: publish the own key (once) and wait for the peer's.
AwaitPeerKey(m) ==
  LET u == Sender[m]  v == Receiver[m] IN
  /\ stage' = [stage EXCEPT ![m] = "sealing"]
  /\ sentKeys' = [sentKeys EXCEPT ![u] = @ \cup {v}]
  /\ wire' = IF v \in sentKeys[u] THEN wire
             ELSE SendJson(wire, u, v, KeyExchange)
  /\ UNCHANGED <<delivered, seen, rows, readByReceiver, sealed, erasures,
                 peerKeys, tasks, channels>>

\* With an open channel in hand, send_message waits for a key or sends.
Proceed(m) ==
  LET u == Sender[m]  v == Receiver[m] IN
  /\ v \in open[u]
  /\ \/ u \in Encrypting /\ v \notin peerKeys[u] /\ AwaitPeerKey(m)
     \/ (u \notin Encrypting \/ v \in peerKeys[u]) /\ Transmit(m)

\* send_message finds an open channel.
Compose(m) == stage[m] = "new" /\ Proceed(m)

\* send_message finds none and starts connecting.
ComposeOffline(m) ==
  /\ stage[m] = "new" /\ Receiver[m] \notin open[Sender[m]]
  /\ stage' = [stage EXCEPT ![m] = "connecting"]
  /\ UNCHANGED <<delivered, seen, rows, readByReceiver, sealed, erasures, keys,
                 tasks, channels, wire>>

\* _wait_channel_open returns true.
Connected(m) == stage[m] = "connecting" /\ Proceed(m)

\* _await_peer_key returns: the key came, or 3 s have passed.
KeyWaitEnds(m) == stage[m] = "sealing" /\ Transmit(m)

\* _wait_channel_open timed out (or the channel is gone again), or
\* channel.send raised on the captured channel: nothing is saved.
SendFails(m) ==
  /\ \/ stage[m] = "connecting" /\ Receiver[m] \notin open[Sender[m]]
     \/ stage[m] = "orphaned"
  /\ stage' = [stage EXCEPT ![m] = "failed"]
  /\ UNCHANGED <<delivered, seen, rows, readByReceiver, sealed, erasures, keys,
                 tasks, channels, wire>>

-----------------------------------------------------------------------------
(* Scheduled coroutines *)

\* get_undelivered(u), restricted to the peer v.
Pending(u, v) ==
  {m \in Msg : Sender[m] = u /\ Receiver[m] = v
               /\ stage[m] = "saved" /\ m \notin delivered}

\* The payloads of _resend_pending, in some order of the messages: their
\* content as the database keeps it, and no "encrypted" flag.
Resends(u, v) ==
  {[i \in DOMAIN s |-> Text(s[i], FALSE)] : s \in SetToSeqs(Pending(u, v))}

\* _resend_pending.
ResendPending(u, v) ==
  /\ v \in resendDue[u]
  /\ resendDue' = [resendDue EXCEPT ![u] = @ \ {v}]
  /\ \/ v \in open[u] /\ \E ps \in Resends(u, v) : wire' = SendAll(wire, u, v, ps)
     \/ v \notin open[u] /\ UNCHANGED wire
  /\ UNCHANGED <<history, keys, keyDue, channels>>

\* _send_key_exchange, scheduled after the _resend_pending of the same
\* event.  The peer counts as served even when there is no channel left.
SendKeyExchange(u, v) ==
  /\ v \in keyDue[u] /\ v \notin resendDue[u]
  /\ keyDue' = [keyDue EXCEPT ![u] = @ \ {v}]
  /\ \/ /\ u \in Encrypting /\ v \notin sentKeys[u]
        /\ sentKeys' = [sentKeys EXCEPT ![u] = @ \cup {v}]
        /\ wire' = SendJson(wire, u, v, KeyExchange)
     \/ /\ u \notin Encrypting \/ v \in sentKeys[u]
        /\ UNCHANGED <<sentKeys, wire>>
  /\ UNCHANGED <<history, peerKeys, resendDue, channels>>

-----------------------------------------------------------------------------
(* Receiving: u takes the next payload from v *)

Incoming(u, v, type) ==
  /\ v \in open[u] /\ wire[<<v, u>>] # <<>>
  /\ Head(wire[<<v, u>>]).type = type

Taken(u, v) == [wire EXCEPT ![<<v, u>>] = Tail(@)]

AcceptableTwice(u, v, p) ==         \* a bug: no get_by_msg_id
  p.encrypted => CanSeal(u, v)
AcceptableSealed(u, v, p) ==        \* a bug: only sealed messages are taken
  rows[p.id] = 0 /\ p.encrypted /\ CanSeal(u, v)

\* get_by_msg_id finds no row, and _decrypt_content succeeds if it is needed.
Acceptable(u, v, p) ==
  /\ rows[p.id] = 0
  /\ p.encrypted => CanSeal(u, v)

\* _handle_message: keep the first copy and acknowledge it, drop others.
HandleMessage(u, v) ==
  /\ Incoming(u, v, "message")
  /\ LET p == Head(wire[<<v, u>>]) IN
     \/ /\ Acceptable(u, v, p)
        /\ rows' = [rows EXCEPT ![p.id] = @ + 1]
        /\ wire' = SendJson(Taken(u, v), u, v, Delivered(p.id))
     \/ /\ ~Acceptable(u, v, p)
        /\ wire' = Taken(u, v)
        /\ UNCHANGED rows
  /\ UNCHANGED <<stage, delivered, seen, readByReceiver, sealed, erasures, keys,
                 tasks, channels>>

\* Rows of their senders' databases.
Saved == {m \in Msg : stage[m] = "saved"}

\* _handle_delivered: mark_delivered, if the row is still there.
HandleDelivered(u, v) ==
  /\ Incoming(u, v, "message_delivered")
  /\ delivered' = delivered \cup ({Head(wire[<<v, u>>]).id} \cap Saved)
  /\ wire' = Taken(u, v)
  /\ UNCHANGED <<stage, seen, rows, readByReceiver, sealed, erasures, keys,
                 tasks, channels>>

\* _handle_messages_read: mark_read_by_msg_ids, of the rows still there.
HandleMessagesRead(u, v) ==
  /\ Incoming(u, v, "messages_read")
  /\ seen' = seen \cup (Head(wire[<<v, u>>]).ids \cap Saved)
  /\ wire' = Taken(u, v)
  /\ UNCHANGED <<stage, delivered, rows, readByReceiver, sealed, erasures, keys,
                 tasks, channels>>

\* _handle_key_exchange: remember the key and answer with the own, once.
HandleKeyExchange(u, v) ==
  /\ Incoming(u, v, "key_exchange")
  /\ wire' = Taken(u, v)
  /\ peerKeys' = IF u \in Encrypting THEN [peerKeys EXCEPT ![u] = @ \cup {v}]
                 ELSE peerKeys
  /\ keyDue' = IF u \in Encrypting /\ v \notin sentKeys[u]
               THEN [keyDue EXCEPT ![u] = @ \cup {v}] ELSE keyDue
  /\ UNCHANGED <<history, sentKeys, resendDue, channels>>

\* get_unread_from_friend.
UnreadFrom(u, v) ==
  {m \in Msg : Receiver[m] = u /\ Sender[m] = v /\ rows[m] > 0
               /\ m \notin readByReceiver}

MarkReadUnsaved(u, v) ==            \* a bug: a receipt without marking the rows
  /\ UnreadFrom(u, v) # {} /\ v \in open[u]
  /\ wire' = SendJson(wire, u, v, ReadIds(UnreadFrom(u, v)))
  /\ UNCHANGED <<history, keys, tasks, channels>>

\* mark_conversation_read: the receipt is sent now or never.
MarkConversationRead(u, v) ==
  /\ UnreadFrom(u, v) # {}
  /\ readByReceiver' = readByReceiver \cup UnreadFrom(u, v)
  /\ wire' = SendJson(wire, u, v, ReadIds(UnreadFrom(u, v)))
  /\ UNCHANGED <<stage, delivered, seen, rows, sealed, erasures, keys, tasks,
                 channels>>

-----------------------------------------------------------------------------
(* Deleting *)

\* The messages u sent to v.
Between(u, v) == {m \in Msg : Sender[m] = u /\ Receiver[m] = v}

\* delete_conversation: u's rows of what it sent to v and of what it got from
\* v go, with their marks.  v is told nothing, and what is in flight stays.
DeleteConversation(u, v) ==
  LET sent == Between(u, v)  got == Between(v, u) IN
  /\ u \in Deleting
  /\ stage' = [m \in Msg |-> IF m \in sent \cap Saved THEN "deleted" ELSE stage[m]]
  /\ delivered' = delivered \ sent
  /\ seen' = seen \ sent
  /\ sealed' = sealed \ sent
  /\ rows' = [m \in Msg |-> IF m \in got THEN 0 ELSE rows[m]]
  /\ readByReceiver' = readByReceiver \ got
  /\ erased' = erased \cup {m \in got : rows[m] > 0}
  /\ erasedRead' = erasedRead \cup (readByReceiver \cap got)
  /\ UNCHANGED <<keys, tasks, channels, wire>>

-----------------------------------------------------------------------------

\* What the loop of u does on its own for its peer v.
Handle(u, v) ==
  \/ HandleMessage(u, v) \/ HandleDelivered(u, v)
  \/ HandleMessagesRead(u, v) \/ HandleKeyExchange(u, v)

Background(u, v) == ResendPending(u, v) \/ SendKeyExchange(u, v)

\* What the code of send_message does with m once it is called.
Sending(m) == Connected(m) \/ KeyWaitEnds(m) \/ SendFails(m)

Next ==
  \/ \E m \in Msg : Compose(m) \/ ComposeOffline(m) \/ Sending(m)
  \/ \E u, v \in User :
       \/ Connect(u, v) \/ ChannelOpens(u, v) \/ LinkBreaks(u, v)
       \/ ChannelCloses(u, v)
       \/ Handle(u, v) \/ Background(u, v) \/ MarkConversationRead(u, v)
       \/ DeleteConversation(u, v)
  \/ \E u \in User : Restart(u)

Spec == Init /\ [][Next]_vars

\* The event loops run what is ready, timers expire, and a negotiated
\* connection opens at both ends.  Users and the network owe nothing.
Fairness ==
  /\ \A u, v \in User : /\ WF_vars(Handle(u, v))
                        /\ WF_vars(ResendPending(u, v))
                        /\ WF_vars(SendKeyExchange(u, v))
                        /\ WF_vars(ChannelOpens(u, v))
  /\ \A m \in Msg : WF_vars(Sending(m))

FairSpec == Spec /\ Fairness

-----------------------------------------------------------------------------
(* Properties *)

InFlight(u, v) == ToSet(wire[<<u, v>>])

\* What the receiver has, or had and deleted itself.
Received == {m \in Msg : rows[m] > 0} \cup erased

\* "Idempotent msg_id delivery": whatever is resent, over however many
\* connections, and however often the conversation is deleted meanwhile, the
\* receiver's history holds at most one row of a message (get_by_msg_id would
\* raise on a second one).
OneRowPerMessage == \A m \in Msg : rows[m] <= 1

\* The sender's "delivered" mark is honest: the receiver has the message in
\* its database, not only somewhere in flight or decrypted in vain, unless
\* its own user deleted it there.
DeliveredIsStored == delivered \subseteq Received

\* The sender's "read" mark is honest: the receiver has the message and has
\* read it, or had read it and deleted it.
SeenIsRead ==
  \A m \in seen : (rows[m] > 0 /\ m \in readByReceiver) \/ m \in erasedRead

\* No mark in a sender's history is ahead of the receiver's: what is marked
\* delivered was stored there, what is marked read was read there, and only
\* the receiver's own deletion makes a row less than the mark says.
MarksAreHonest == DeliveredIsStored /\ SeenIsRead

\* A key the client would seal with was published by its owner on the very
\* connection that is up: none survives a reconnection or a restart.
KeysAreFresh ==
  \A u, v \in User : {u, v} \in link /\ v \in peerKeys[u] => u \in sentKeys[v]

\* _resend_pending does its job: once it is scheduled on a working
\* connection, every undelivered message the receiver lacks arrives, unless
\* that connection ends first, the acknowledgement of an earlier copy comes,
\* or the sender deletes the conversation.
ResendDelivers ==
  \A m \in Msg :
    LET u == Sender[m]  v == Receiver[m]
    IN (m \in Pending(u, v) /\ v \in resendDue[u] /\ {u, v} \in link)
         ~> \/ rows[m] > 0 \/ m \in delivered
            \/ stage[m] = "deleted" \/ {u, v} \notin link

\* What the user is promised, whatever the connections do.
Promise == INSTANCE Delivery WITH
             sent <- {m \in Msg : stage[m] \in {"saved", "deleted"}},
             saved <- Saved, copies <- rows
DeliverySpec == Promise!Spec

=============================================================================
