-------------------------- MODULE MessagingProofs ---------------------------
(***************************************************************************)
(* Theorems about Messaging, for any clients, any messages between them    *)
(* and any number of connections.                                          *)
(***************************************************************************)
EXTENDS Messaging, TLAPS, FiniteSetTheorems

-----------------------------------------------------------------------------
(* Sequences of payloads *)

Wires == [User \X User -> Seq(Payload)]

\* What a channel holds after one more batch of payloads is queued on it.
LEMMA ConcatLemma ==
  ASSUME NEW S, NEW s \in Seq(S), NEW t \in Seq(S)
  PROVE  s \o t \in Seq(S) /\ ToSet(s \o t) = ToSet(s) \cup ToSet(t)
<1>1. s \o t \in Seq(S) /\ Len(s \o t) = Len(s) + Len(t)
  OBVIOUS
<1>2. \A i \in 1..Len(s) : (s \o t)[i] = s[i]
  OBVIOUS
<1>3. \A i \in 1..Len(t) : (s \o t)[i + Len(s)] = t[i]
  OBVIOUS
<1>4. \A i \in 1..(Len(s) + Len(t)) :
        i \in 1..Len(s) \/ \E j \in 1..Len(t) : i = j + Len(s)
  <2>1. TAKE i \in 1..(Len(s) + Len(t))
  <2>2. CASE i <= Len(s)
    BY <2>2
  <2>3. CASE ~(i <= Len(s))
    <3>1. i - Len(s) \in 1..Len(t) /\ i = (i - Len(s)) + Len(s)
      BY <2>3
    <3>2. QED BY <3>1
  <2>4. QED BY <2>2, <2>3
<1>5. ToSet(s \o t) \subseteq ToSet(s) \cup ToSet(t)
  BY <1>1, <1>2, <1>3, <1>4 DEF ToSet
<1>6. ToSet(s) \subseteq ToSet(s \o t)
  BY <1>1, <1>2 DEF ToSet
<1>7. ToSet(t) \subseteq ToSet(s \o t)
  <2>1. SUFFICES ASSUME NEW j \in 1..Len(t) PROVE t[j] \in ToSet(s \o t)
    BY DEF ToSet
  <2>2. j + Len(s) \in 1..Len(s \o t) /\ (s \o t)[j + Len(s)] = t[j]
    BY <1>1, <1>3
  <2>3. QED BY <2>2 DEF ToSet
<1>8. QED BY <1>1, <1>5, <1>6, <1>7

\* Taking the first payload leaves payloads that were there.
LEMMA TailLemma ==
  ASSUME NEW S, NEW s \in Seq(S), s # <<>>
  PROVE  /\ Head(s) \in S /\ Head(s) \in ToSet(s)
         /\ Tail(s) \in Seq(S) /\ ToSet(Tail(s)) \subseteq ToSet(s)
<1>1. Len(s) \in Nat /\ Len(s) >= 1 /\ Head(s) = s[1]
  OBVIOUS
<1>2. Tail(s) \in Seq(S) /\ Len(Tail(s)) = Len(s) - 1
  OBVIOUS
<1>3. \A i \in 1..Len(Tail(s)) : i + 1 \in 1..Len(s) /\ Tail(s)[i] = s[i + 1]
  OBVIOUS
<1>4. ToSet(Tail(s)) \subseteq ToSet(s)
  BY <1>2, <1>3 DEF ToSet
<1>5. QED BY <1>1, <1>2, <1>4 DEF ToSet

\* SendAll and SendJson keep the wires' type and add nothing but ps to them.
LEMMA SendAllLemma ==
  ASSUME NEW w \in Wires, NEW u \in User, NEW v \in User, NEW ps \in Seq(Payload)
  PROVE  /\ SendAll(w, u, v, ps) \in Wires
         /\ \A a, b \in User :
              ToSet(SendAll(w, u, v, ps)[<<a, b>>])
                \subseteq ToSet(w[<<a, b>>])
                    \cup (IF a = u /\ b = v /\ {u, v} \in link THEN ToSet(ps) ELSE {})
<1>1. w[<<u, v>>] \in Seq(Payload)
  BY DEF Wires
<1>2. /\ w[<<u, v>>] \o ps \in Seq(Payload)
      /\ ToSet(w[<<u, v>>] \o ps) = ToSet(w[<<u, v>>]) \cup ToSet(ps)
  BY <1>1, ConcatLemma
<1>3. CASE {u, v} \notin link
  BY <1>3 DEF SendAll
<1>4. CASE {u, v} \in link
  <2>1. SendAll(w, u, v, ps) = [w EXCEPT ![<<u, v>>] = w[<<u, v>>] \o ps]
    BY <1>4 DEF SendAll
  <2>2. [w EXCEPT ![<<u, v>>] = w[<<u, v>>] \o ps] \in Wires
    BY <1>2 DEF Wires
  <2>3. ASSUME NEW a \in User, NEW b \in User
        PROVE  [w EXCEPT ![<<u, v>>] = w[<<u, v>>] \o ps][<<a, b>>] =
                 IF a = u /\ b = v THEN w[<<u, v>>] \o ps ELSE w[<<a, b>>]
    BY DEF Wires
  <2>4. QED BY <2>1, <2>2, <2>3, <1>2, <1>4
<1>5. QED BY <1>3, <1>4

LEMMA SendOneLemma ==
  ASSUME NEW w \in Wires, NEW u \in User, NEW v \in User, NEW p \in Payload
  PROVE  /\ SendAll(w, u, v, <<p>>) \in Wires
         /\ SendJson(w, u, v, p) \in Wires
         /\ \A a, b \in User :
              /\ ToSet(SendAll(w, u, v, <<p>>)[<<a, b>>])
                   \subseteq ToSet(w[<<a, b>>])
                       \cup (IF a = u /\ b = v /\ {u, v} \in link THEN {p} ELSE {})
              /\ ToSet(SendJson(w, u, v, p)[<<a, b>>])
                   \subseteq ToSet(w[<<a, b>>])
                       \cup (IF a = u /\ b = v /\ {u, v} \in link THEN {p} ELSE {})
<1>1. <<p>> \in Seq(Payload) /\ ToSet(<<p>>) = {p}
  BY DEF ToSet
<1>2. QED BY <1>1, SendAllLemma DEF SendJson

\* Taking a payload from the wire.
LEMMA TakenLemma ==
  ASSUME wire \in Wires, NEW u \in User, NEW v \in User, wire[<<v, u>>] # <<>>
  PROVE  /\ Taken(u, v) \in Wires
         /\ Head(wire[<<v, u>>]) \in Payload
         /\ Head(wire[<<v, u>>]) \in InFlight(v, u)
         /\ \A a, b \in User : ToSet(Taken(u, v)[<<a, b>>]) \subseteq InFlight(a, b)
<1>1. wire[<<v, u>>] \in Seq(Payload)
  BY DEF Wires
<1>2. /\ Head(wire[<<v, u>>]) \in Payload
      /\ Head(wire[<<v, u>>]) \in ToSet(wire[<<v, u>>])
      /\ Tail(wire[<<v, u>>]) \in Seq(Payload)
      /\ ToSet(Tail(wire[<<v, u>>])) \subseteq ToSet(wire[<<v, u>>])
  BY <1>1, TailLemma
<1>3. Taken(u, v) \in Wires
  BY <1>2 DEF Taken, Wires
<1>4. ASSUME NEW a \in User, NEW b \in User
      PROVE  Taken(u, v)[<<a, b>>] =
               IF a = v /\ b = u THEN Tail(wire[<<v, u>>]) ELSE wire[<<a, b>>]
  BY DEF Taken, Wires
<1>5. QED BY <1>2, <1>3, <1>4 DEF InFlight

\* Every kind of payload is one.
LEMMA PayloadLemma ==
  /\ \A m \in Msg, s \in BOOLEAN : Text(m, s) \in Payload
  /\ \A m \in Msg : Delivered(m) \in Payload
  /\ \A S \in SUBSET Msg : ReadIds(S) \in Payload
  /\ KeyExchange \in Payload
BY DEF Payload

\* What _resend_pending sends.
LEMMA ResendsLemma ==
  ASSUME NEW u \in User, NEW v \in User, NEW ps \in Resends(u, v)
  PROVE  /\ ps \in Seq(Payload)
         /\ \A p \in ToSet(ps) : \E m \in Pending(u, v) : p = Text(m, FALSE)
<1>1. Pending(u, v) \in SUBSET Msg
  BY DEF Pending
<1>2. Cardinality(Pending(u, v)) \in Nat
  BY <1>1, FS_Subset, FS_CardinalityType, FiniteAssumption
<1>3. PICK s \in SetToSeqs(Pending(u, v)) : ps = [i \in DOMAIN s |-> Text(s[i], FALSE)]
  BY DEF Resends
<1>4. s \in [1..Cardinality(Pending(u, v)) -> Pending(u, v)]
  BY <1>3 DEF SetToSeqs
<1>5. \A i \in DOMAIN s : s[i] \in Pending(u, v) /\ Text(s[i], FALSE) \in Payload
  BY <1>1, <1>4, PayloadLemma
<1>6. ps \in [1..Cardinality(Pending(u, v)) -> Payload]
  BY <1>3, <1>4, <1>5
<1>7. ps \in Seq(Payload)
  BY <1>2, <1>6
<1>8. QED BY <1>3, <1>4, <1>5, <1>6, <1>7 DEF ToSet

\* The type of a payload tells its fields.
LEMMA FieldsLemma ==
  ASSUME NEW p \in Payload
  PROVE  /\ p.type = "message" => p.id \in Msg /\ p.encrypted \in BOOLEAN
         /\ p.type = "message_delivered" => p.id \in Msg
         /\ p.type = "messages_read" => p.ids \in SUBSET Msg
BY DEF Payload, Text, Delivered, ReadIds, KeyExchange

-----------------------------------------------------------------------------
(* Type correctness *)

LEMMA TypeInit == Init => TypeOK
<1>1. <<>> \in Seq(Payload)
  OBVIOUS
<1>2. QED BY <1>1 DEF Init, TypeOK, Stage

\* The history of messages changes hands between the definitions below.
LEMMA TypeNext == TypeOK /\ [Next]_vars => TypeOK'
<1> SUFFICES ASSUME TypeOK, [Next]_vars PROVE TypeOK'
  OBVIOUS
<1> USE DEF TypeOK, erasures
<1>w. wire \in Wires
  BY DEF Wires
<1>e. Sender \in [Msg -> User] /\ Receiver \in [Msg -> User]
  BY EndpointsAssumption
<1>1. ASSUME NEW m \in Msg, Transmit(m) PROVE TypeOK'
  <2>1. /\ Sender[m] \in User /\ Receiver[m] \in User
        /\ CanSeal(Sender[m], Receiver[m]) \in BOOLEAN
    BY <1>e DEF CanSeal
  <2>2. Text(m, CanSeal(Sender[m], Receiver[m])) \in Payload
    BY <2>1, PayloadLemma
  <2>3. wire' \in Wires
    BY <1>w, <1>1, <2>1, <2>2, SendOneLemma DEF Transmit, Send
  <2>4. QED BY <1>1, <2>3 DEF Transmit, Wires, Stage, keys, tasks, channels
<1>2. ASSUME NEW m \in Msg, AwaitPeerKey(m) PROVE TypeOK'
  <2>1. Sender[m] \in User /\ Receiver[m] \in User
    BY <1>e
  <2>2. wire' \in Wires
    BY <1>w, <1>2, <2>1, SendOneLemma, PayloadLemma DEF AwaitPeerKey
  <2>3. QED BY <1>2, <2>1, <2>2 DEF AwaitPeerKey, Wires, Stage, tasks, channels
<1>3. ASSUME NEW m \in Msg, Compose(m) \/ ComposeOffline(m) \/ Sending(m)
      PROVE  TypeOK'
  <2>1. CASE Compose(m) \/ Connected(m) \/ KeyWaitEnds(m)
    BY <1>1, <1>2, <2>1 DEF Compose, Connected, KeyWaitEnds, Proceed
  <2>2. CASE ComposeOffline(m)
    BY <2>2 DEF ComposeOffline, Stage, keys, tasks, channels
  <2>3. CASE SendFails(m)
    BY <2>3 DEF SendFails, Stage, keys, tasks, channels
  <2>4. QED BY <1>3, <2>1, <2>2, <2>3 DEF Sending
<1>4. ASSUME NEW u \in User, NEW v \in User, Connect(u, v) PROVE TypeOK'
  <2>1. link' \in SUBSET (SUBSET User) /\ links' \in Nat
    BY <1>4 DEF Connect
  <2>2. UNCHANGED <<history, keys, tasks, open, wire>>
    BY <1>4 DEF Connect
  <2>3. QED BY <2>1, <2>2 DEF history, keys, tasks
<1>5. ASSUME NEW u \in User, NEW v \in User, ChannelOpens(u, v) PROVE TypeOK'
  BY <1>5 DEF ChannelOpens, history, keys
<1>6. ASSUME NEW u \in User, NEW v \in User, LinkBreaks(u, v) PROVE TypeOK'
  <2>1. <<>> \in Seq(Payload)
    OBVIOUS
  <2>2. QED BY <1>6, <2>1 DEF LinkBreaks, history, keys, tasks
<1>7. ASSUME NEW u \in User, NEW v \in User, ChannelCloses(u, v) PROVE TypeOK'
  <2>1. <<>> \in Seq(Payload)
    OBVIOUS
  <2>2. wire' \in [User \X User -> Seq(Payload)]
    BY <1>7, <2>1 DEF ChannelCloses, Unread
  <2>3. stage' \in [Msg -> Stage]
    BY <1>7 DEF ChannelCloses, Orphan, Stage
  <2>4. QED BY <1>7, <2>2, <2>3 DEF ChannelCloses, ForgetKeys, tasks
<1>8. ASSUME NEW u \in User, Restart(u) PROVE TypeOK'
  <2>1. <<>> \in Seq(Payload)
    OBVIOUS
  <2>2. wire' \in [User \X User -> Seq(Payload)]
    BY <1>8, <2>1 DEF Restart
  <2>3. stage' \in [Msg -> Stage]
    BY <1>8 DEF Restart, Abandon, Stage
  <2>4. QED BY <1>8, <2>2, <2>3 DEF Restart
<1>9. ASSUME NEW u \in User, NEW v \in User, HandleMessage(u, v) PROVE TypeOK'
  <2> DEFINE p == Head(wire[<<v, u>>])
  <2>1. Taken(u, v) \in Wires /\ p \in Payload /\ p.type = "message"
    BY <1>9, <1>w, TakenLemma DEF HandleMessage, Incoming
  <2>2. p.id \in Msg
    BY <2>1, FieldsLemma
  <2>3. SendJson(Taken(u, v), u, v, Delivered(p.id)) \in Wires
    BY <2>1, <2>2, PayloadLemma, SendOneLemma
  <2>4. CASE rows' = [rows EXCEPT ![p.id] = @ + 1]
             /\ wire' = SendJson(Taken(u, v), u, v, Delivered(p.id))
    <3>a. \A m \in Msg : [rows EXCEPT ![m] = @ + 1] \in [Msg -> Nat]
      OBVIOUS
    <3>b. wire' \in [User \X User -> Seq(Payload)]
      BY <2>3, <2>4 DEF Wires
    <3>1. rows' \in [Msg -> Nat]
      BY <2>2, <2>4, <3>a
    <3>2. UNCHANGED <<stage, delivered, seen, readByReceiver, sealed, erasures,
                      keys, tasks, channels>>
      BY <1>9 DEF HandleMessage
    <3>3. QED BY <3>b, <3>1, <3>2 DEF keys, tasks, channels
  <2>5. CASE UNCHANGED rows /\ wire' = Taken(u, v)
    BY <1>9, <2>1, <2>5 DEF HandleMessage, Wires, keys, tasks, channels
  <2>6. QED BY <1>9, <2>4, <2>5 DEF HandleMessage
<1>10. ASSUME NEW u \in User, NEW v \in User, HandleDelivered(u, v) PROVE TypeOK'
  <2> DEFINE p == Head(wire[<<v, u>>])
  <2>1. Taken(u, v) \in Wires /\ p \in Payload /\ p.type = "message_delivered"
    BY <1>10, <1>w, TakenLemma DEF HandleDelivered, Incoming
  <2>2. p.id \in Msg
    BY <2>1, FieldsLemma
  <2>3. QED BY <1>10, <2>1, <2>2 DEF HandleDelivered, Wires, keys, tasks, channels
<1>11. ASSUME NEW u \in User, NEW v \in User, HandleMessagesRead(u, v) PROVE TypeOK'
  <2> DEFINE p == Head(wire[<<v, u>>])
  <2>1. Taken(u, v) \in Wires /\ p \in Payload /\ p.type = "messages_read"
    BY <1>11, <1>w, TakenLemma DEF HandleMessagesRead, Incoming
  <2>2. p.ids \in SUBSET Msg
    BY <2>1, FieldsLemma
  <2>3. QED BY <1>11, <2>1, <2>2 DEF HandleMessagesRead, Wires, keys, tasks, channels
<1>12. ASSUME NEW u \in User, NEW v \in User, HandleKeyExchange(u, v) PROVE TypeOK'
  <2>1. Taken(u, v) \in Wires
    BY <1>12, <1>w, TakenLemma DEF HandleKeyExchange, Incoming
  <2>2. QED BY <1>12, <2>1 DEF HandleKeyExchange, Wires, history, channels
<1>13. ASSUME NEW u \in User, NEW v \in User, ResendPending(u, v) PROVE TypeOK'
  <2>1. CASE \E ps \in Resends(u, v) : wire' = SendAll(wire, u, v, ps)
    <3>1. PICK ps \in Resends(u, v) : wire' = SendAll(wire, u, v, ps)
      BY <2>1
    <3>2. wire' \in Wires
      BY <3>1, <1>w, ResendsLemma, SendAllLemma
    <3>3. QED BY <1>13, <3>2 DEF ResendPending, Wires, history, keys, channels
  <2>2. CASE UNCHANGED wire
    BY <1>13, <2>2 DEF ResendPending, history, keys, channels
  <2>3. QED BY <1>13, <2>1, <2>2 DEF ResendPending
<1>14. ASSUME NEW u \in User, NEW v \in User, SendKeyExchange(u, v) PROVE TypeOK'
  <2>1. SendJson(wire, u, v, KeyExchange) \in Wires
    BY <1>w, PayloadLemma, SendOneLemma
  <2>2. CASE UNCHANGED <<sentKeys, wire>>
    BY <1>14, <2>2 DEF SendKeyExchange, history, channels
  <2>3. CASE /\ sentKeys' = [sentKeys EXCEPT ![u] = @ \cup {v}]
             /\ wire' = SendJson(wire, u, v, KeyExchange)
    <3>1. sentKeys' \in [User -> SUBSET User] /\ wire' \in [User \X User -> Seq(Payload)]
      BY <2>1, <2>3 DEF Wires
    <3>2. QED BY <1>14, <3>1 DEF SendKeyExchange, history, channels
  <2>4. QED BY <1>14, <2>2, <2>3 DEF SendKeyExchange
<1>15. ASSUME NEW u \in User, NEW v \in User, MarkConversationRead(u, v) PROVE TypeOK'
  <2>1. UnreadFrom(u, v) \in SUBSET Msg
    BY DEF UnreadFrom
  <2>2. wire' \in Wires
    BY <1>15, <1>w, <2>1, PayloadLemma, SendOneLemma DEF MarkConversationRead
  <2>3. QED BY <1>15, <2>1, <2>2 DEF MarkConversationRead, Wires, keys, tasks, channels
<1>16. ASSUME NEW u \in User, NEW v \in User, DeleteConversation(u, v) PROVE TypeOK'
  <2>1. stage' \in [Msg -> Stage] /\ rows' \in [Msg -> Nat]
    BY <1>16 DEF DeleteConversation, Stage
  <2>2. /\ delivered' \in SUBSET Msg /\ seen' \in SUBSET Msg
        /\ sealed' \in SUBSET Msg /\ readByReceiver' \in SUBSET Msg
        /\ erased' \in SUBSET Msg /\ erasedRead' \in SUBSET Msg
    BY <1>16 DEF DeleteConversation, Between
  <2>3. QED BY <1>16, <2>1, <2>2 DEF DeleteConversation, keys, tasks, channels
<1>17. CASE UNCHANGED vars
  BY <1>17 DEF vars, history, keys, tasks, channels
<1>18. QED
  BY <1>3, <1>4, <1>5, <1>6, <1>7, <1>8, <1>9, <1>10, <1>11, <1>12, <1>13,
     <1>14, <1>15, <1>16, <1>17 DEF Next, Handle, Background

\* Every behaviour keeps every variable of the managers, of their databases
\* and of the channels in its type.
THEOREM TypeCorrect == Spec => []TypeOK
BY TypeInit, TypeNext, PTL DEF Spec

-----------------------------------------------------------------------------
(* What is in flight, and what the histories show *)

\* Messages their sender has sent, whether or not it keeps the row, and
\* messages their receiver has read, whether or not it keeps the row.
Rowed == {"saved", "deleted"}
Sent == {m \in Msg : stage[m] \in Rowed}
WasRead == readByReceiver \cup erasedRead

\* A payload in flight from u to v says nothing that is not so, and its
\* endpoints are those of the messages it is about.
Honest(u, v, p) ==
  /\ p.type = "message" =>
       p.id \in Sent /\ u = Sender[p.id] /\ v = Receiver[p.id]
  /\ p.type = "message_delivered" =>
       p.id \in Received /\ u = Receiver[p.id] /\ v = Sender[p.id]
  /\ p.type = "messages_read" =>
       \A m \in p.ids : m \in WasRead /\ u = Receiver[m] /\ v = Sender[m]

InFlightInv == \A u, v \in User : \A p \in InFlight(u, v) : Honest(u, v, p)

StoredInv == \A m \in Msg : rows[m] <= 1 /\ (rows[m] > 0 => m \in Sent)

MarksInv ==
  /\ delivered \subseteq Received
  /\ \A m \in readByReceiver : rows[m] > 0
  /\ seen \subseteq WasRead
  /\ delivered \subseteq Saved /\ seen \subseteq Saved

IInv == TypeOK /\ InFlightInv /\ StoredInv /\ MarksInv

\* What was sent, received or read stays so.
Grows ==
  /\ Sent \subseteq Sent'
  /\ Received \subseteq Received'
  /\ WasRead \subseteq WasRead'

\* No message enters a sender's history, and none leaves it.
SameRows ==
  \A m \in Msg : stage'[m] = stage[m] \/ (stage[m] \notin Rowed /\ stage'[m] \notin Rowed)

\* The other columns of all the rows stay as they are.
SameMarks == UNCHANGED <<delivered, seen, rows, readByReceiver, erased, erasedRead>>

LEMMA SameLemma ==
  ASSUME TypeOK, SameRows
  PROVE  Sent' = Sent /\ Saved' = Saved
BY DEF SameRows, Sent, Saved, Rowed

\* So a step keeps InFlightInv if every payload it sends is honest.
LEMMA HonestLemma ==
  ASSUME TypeOK, InFlightInv, Grows,
         \A a, b \in User : \A p \in InFlight(a, b)' :
           p \in InFlight(a, b) \/ Honest(a, b, p)'
  PROVE  InFlightInv'
<1>1. SUFFICES ASSUME NEW a \in User, NEW b \in User, NEW p \in InFlight(a, b)',
                      p \in InFlight(a, b)
               PROVE  Honest(a, b, p)'
  BY DEF InFlightInv
<1>2. Honest(a, b, p)
  BY <1>1 DEF InFlightInv
<1>3. p \in Payload
  BY <1>1 DEF TypeOK, InFlight, ToSet
<1>4. /\ p.type = "message" => p.id \in Msg
      /\ p.type = "message_delivered" => p.id \in Msg
      /\ p.type = "messages_read" => p.ids \in SUBSET Msg
  BY <1>3, FieldsLemma
<1>5. QED BY <1>2, <1>4 DEF Honest, Grows

\* Payloads that may be lost, and no others.
Fewer(w) == \A a, b \in User : ToSet(w[<<a, b>>]) \subseteq InFlight(a, b)

\* A step that only loses payloads and moves no message out of the history.
LEMMA LoseLemma ==
  ASSUME IInv, Fewer(wire'), SameMarks,
         SameRows, TypeOK'
  PROVE  IInv'
<1>0. Sent' = Sent /\ Saved' = Saved /\ Received' = Received /\ WasRead' = WasRead
  BY SameLemma DEF IInv, SameMarks, Received, WasRead
<1>1. Grows
  BY <1>0 DEF Grows
<1>2. InFlightInv'
  BY <1>1, HonestLemma DEF Fewer, InFlight, IInv
<1>3. StoredInv' /\ MarksInv'
  BY <1>0 DEF IInv, StoredInv, MarksInv, SameMarks
<1>4. QED BY <1>2, <1>3 DEF IInv

\* A step that sends the one payload q from u to v.
LEMMA SendLemma ==
  ASSUME IInv, NEW w \in Wires, Fewer(w), NEW u \in User, NEW v \in User,
         NEW q \in Payload,
         wire' = SendJson(w, u, v, q) \/ wire' = SendAll(w, u, v, <<q>>),
         Honest(u, v, q)', Grows
  PROVE  InFlightInv'
<1>1. \A a, b \in User :
        ToSet(wire'[<<a, b>>])
          \subseteq ToSet(w[<<a, b>>])
              \cup (IF a = u /\ b = v /\ {u, v} \in link THEN {q} ELSE {})
  BY SendOneLemma
<1>2. \A a, b \in User : \A p \in InFlight(a, b)' :
        p \in InFlight(a, b) \/ Honest(a, b, p)'
  BY <1>1 DEF Fewer, InFlight
<1>3. QED BY <1>2, HonestLemma DEF IInv

\* Receiving takes payloads away.
LEMMA TakenFewer ==
  ASSUME TypeOK, NEW u \in User, NEW v \in User, wire[<<v, u>>] # <<>>
  PROVE  Taken(u, v) \in Wires /\ Fewer(Taken(u, v))
<1>1. wire \in Wires
  BY DEF TypeOK, Wires
<1>2. QED BY <1>1, TakenLemma DEF Fewer

LEMMA WireFewer == TypeOK => wire \in Wires /\ Fewer(wire)
BY DEF TypeOK, Wires, Fewer, InFlight

LEMMA SafeInit == Init => IInv
<1> SUFFICES ASSUME Init PROVE IInv
  OBVIOUS
<1>1. TypeOK
  BY TypeInit
<1>2. \A a, b \in User : InFlight(a, b) = {}
  BY DEF Init, InFlight, ToSet
<1>3. QED
  BY <1>1, <1>2 DEF Init, IInv, InFlightInv, StoredInv, MarksInv, Received, WasRead

LEMMA TransmitSafe ==
  ASSUME IInv, TypeOK', NEW m \in Msg, Transmit(m), stage[m] # "deleted"
  PROVE  IInv'
<1> DEFINE u == Sender[m]  v == Receiver[m]
<1>1. u \in User /\ v \in User
  BY EndpointsAssumption
<1>2. PICK q \in Payload : q = Text(m, CanSeal(u, v))
  BY <1>1, PayloadLemma DEF CanSeal
<1>3. stage' = [stage EXCEPT ![m] = "saved"] /\ stage'[m] = "saved"
  BY DEF Transmit, IInv, TypeOK
<1>4. SameMarks
  BY DEF Transmit, SameMarks, erasures
<1>5. /\ Sent' = Sent \cup {m} /\ Saved' = Saved \cup {m}
      /\ Received' = Received /\ WasRead' = WasRead /\ Grows
  BY <1>3, <1>4 DEF Grows, IInv, TypeOK, Sent, Saved, Rowed, Received, WasRead, SameMarks
<1>6. Honest(u, v, q)'
  <2>1. q.type = "message" /\ q.id = m
    BY <1>2 DEF Text
  <2>2. QED BY <2>1, <1>5 DEF Honest
<1>7. wire' = SendAll(wire, u, v, <<q>>)
  BY <1>2 DEF Transmit, Send
<1>8. InFlightInv'
  BY <1>1, <1>2, <1>5, <1>6, <1>7, WireFewer, SendLemma DEF IInv
<1>9. StoredInv' /\ MarksInv'
  BY <1>4, <1>5 DEF IInv, StoredInv, MarksInv, SameMarks
<1>10. QED BY <1>8, <1>9 DEF IInv

LEMMA AwaitPeerKeySafe ==
  ASSUME IInv, TypeOK', NEW m \in Msg, AwaitPeerKey(m), stage[m] \notin Rowed
  PROVE  IInv'
<1> DEFINE u == Sender[m]  v == Receiver[m]
<1>1. u \in User /\ v \in User
  BY EndpointsAssumption
<1>2. SameMarks
  BY DEF AwaitPeerKey, SameMarks, erasures
<1>3. SameRows
  BY DEF AwaitPeerKey, IInv, TypeOK, SameRows, Rowed
<1>4. CASE v \in sentKeys[u]
  BY <1>2, <1>3, <1>4, WireFewer, LoseLemma DEF AwaitPeerKey, IInv
<1>5. CASE v \notin sentKeys[u]
  <2>1. wire' = SendJson(wire, u, v, KeyExchange)
    BY <1>5 DEF AwaitPeerKey
  <2>2. Honest(u, v, KeyExchange)'
    BY DEF Honest, KeyExchange
  <2>3. Sent' = Sent /\ Saved' = Saved /\ Received' = Received /\ WasRead' = WasRead
    BY <1>2, <1>3, SameLemma DEF IInv, SameMarks, Received, WasRead
  <2>4. InFlightInv'
    BY <1>1, <2>1, <2>2, <2>3, WireFewer, PayloadLemma, SendLemma DEF IInv, Grows
  <2>5. StoredInv' /\ MarksInv'
    BY <1>2, <2>3 DEF IInv, StoredInv, MarksInv, SameMarks
  <2>6. QED BY <2>4, <2>5 DEF IInv
<1>6. QED BY <1>4, <1>5

LEMMA HandleMessageSafe ==
  ASSUME IInv, TypeOK', NEW u \in User, NEW v \in User, HandleMessage(u, v)
  PROVE  IInv'
<1> DEFINE p == Head(wire[<<v, u>>])
<1>1. /\ wire[<<v, u>>] # <<>> /\ p.type = "message"
      /\ UNCHANGED <<stage, delivered, seen, readByReceiver, erased, erasedRead>>
  BY DEF HandleMessage, Incoming, erasures
<1>2. /\ Taken(u, v) \in Wires /\ Fewer(Taken(u, v))
      /\ p \in Payload /\ p \in InFlight(v, u)
  BY <1>1, WireFewer, TakenFewer, TakenLemma DEF IInv
<1>3. PICK id \in Msg : id = p.id
  BY <1>1, <1>2, FieldsLemma
<1>4. id \in Sent /\ v = Sender[id] /\ u = Receiver[id]
  BY <1>1, <1>2, <1>3 DEF IInv, InFlightInv, Honest
<1>5. CASE ~Acceptable(u, v, p)
  <2>1. SameMarks /\ SameRows /\ wire' = Taken(u, v)
    BY <1>1, <1>5 DEF HandleMessage, SameMarks, SameRows
  <2>2. QED BY <1>2, <2>1, LoseLemma
<1>6. CASE Acceptable(u, v, p)
  <2>1. /\ rows[id] = 0
        /\ rows' = [rows EXCEPT ![id] = @ + 1]
        /\ wire' = SendJson(Taken(u, v), u, v, Delivered(id))
    BY <1>3, <1>6 DEF HandleMessage, Acceptable
  <2>2. rows'[id] = 1 /\ \A n \in Msg : n # id => rows'[n] = rows[n]
    BY <1>3, <2>1 DEF IInv, TypeOK
  <2>3. /\ Sent' = Sent /\ Saved' = Saved /\ WasRead' = WasRead
        /\ Received \subseteq Received' /\ id \in Received'
    BY <1>1, <2>1, <2>2 DEF Sent, Saved, WasRead, Received
  <2>4. Honest(u, v, Delivered(id))'
    BY <1>4, <2>3 DEF Honest, Delivered
  <2>5. InFlightInv'
    BY <1>2, <1>3, <2>1, <2>3, <2>4, PayloadLemma, SendLemma DEF Grows
  <2>6. StoredInv'
    BY <1>1, <1>4, <2>2, <2>3 DEF IInv, StoredInv
  <2>7. MarksInv'
    BY <1>1, <2>1, <2>2, <2>3 DEF IInv, MarksInv, TypeOK
  <2>8. QED BY <2>5, <2>6, <2>7 DEF IInv
<1>7. QED BY <1>5, <1>6

LEMMA HandleDeliveredSafe ==
  ASSUME IInv, TypeOK', NEW u \in User, NEW v \in User, HandleDelivered(u, v)
  PROVE  IInv'
<1> DEFINE p == Head(wire[<<v, u>>])
<1>1. /\ wire[<<v, u>>] # <<>> /\ p.type = "message_delivered"
      /\ wire' = Taken(u, v) /\ delivered' = delivered \cup ({p.id} \cap Saved)
      /\ UNCHANGED <<stage, seen, rows, readByReceiver, erased, erasedRead>>
  BY DEF HandleDelivered, Incoming, erasures
<1>2. /\ Taken(u, v) \in Wires /\ Fewer(Taken(u, v)) /\ p \in InFlight(v, u)
  BY <1>1, WireFewer, TakenFewer, TakenLemma DEF IInv
<1>3. p.id \in Received
  BY <1>1, <1>2 DEF IInv, InFlightInv, Honest
<1>4. Sent' = Sent /\ Saved' = Saved /\ Received' = Received /\ WasRead' = WasRead
  BY <1>1 DEF Sent, Saved, Received, WasRead
<1>5. InFlightInv'
  BY <1>1, <1>2, <1>4, HonestLemma DEF Fewer, InFlight, IInv, Grows
<1>6. StoredInv' /\ MarksInv'
  BY <1>1, <1>3, <1>4 DEF IInv, StoredInv, MarksInv
<1>7. QED BY <1>5, <1>6 DEF IInv

LEMMA HandleMessagesReadSafe ==
  ASSUME IInv, TypeOK', NEW u \in User, NEW v \in User, HandleMessagesRead(u, v)
  PROVE  IInv'
<1> DEFINE p == Head(wire[<<v, u>>])
<1>1. /\ wire[<<v, u>>] # <<>> /\ p.type = "messages_read"
      /\ wire' = Taken(u, v) /\ seen' = seen \cup (p.ids \cap Saved)
      /\ UNCHANGED <<stage, delivered, rows, readByReceiver, erased, erasedRead>>
  BY DEF HandleMessagesRead, Incoming, erasures
<1>2. /\ Taken(u, v) \in Wires /\ Fewer(Taken(u, v)) /\ p \in InFlight(v, u)
  BY <1>1, WireFewer, TakenFewer, TakenLemma DEF IInv
<1>3. p.ids \subseteq WasRead
  BY <1>1, <1>2 DEF IInv, InFlightInv, Honest
<1>4. Sent' = Sent /\ Saved' = Saved /\ Received' = Received /\ WasRead' = WasRead
  BY <1>1 DEF Sent, Saved, Received, WasRead
<1>5. InFlightInv'
  BY <1>1, <1>2, <1>4, HonestLemma DEF Fewer, InFlight, IInv, Grows
<1>6. StoredInv' /\ MarksInv'
  BY <1>1, <1>3, <1>4 DEF IInv, StoredInv, MarksInv
<1>7. QED BY <1>5, <1>6 DEF IInv

\* Deleting a conversation takes rows and their marks together, and remembers
\* what was received and read.
LEMMA DeleteSafe ==
  ASSUME IInv, TypeOK', NEW u \in User, NEW v \in User, DeleteConversation(u, v)
  PROVE  IInv'
<1> DEFINE out == Between(u, v)  got == Between(v, u)
<1>1. /\ stage' = [m \in Msg |-> IF m \in out \cap Saved THEN "deleted" ELSE stage[m]]
      /\ delivered' = delivered \ out /\ seen' = seen \ out
      /\ rows' = [m \in Msg |-> IF m \in got THEN 0 ELSE rows[m]]
      /\ readByReceiver' = readByReceiver \ got
      /\ erased' = erased \cup {m \in got : rows[m] > 0}
      /\ erasedRead' = erasedRead \cup (readByReceiver \cap got)
      /\ wire' = wire
  BY DEF DeleteConversation
<1>2. Sent' = Sent /\ Saved' = Saved \ out
  BY <1>1 DEF Sent, Saved, Rowed
<1>3. Received' = Received
  BY <1>1 DEF Received, IInv, TypeOK, Between
<1>4. WasRead' = WasRead
  BY <1>1 DEF WasRead
<1>5. InFlightInv'
  <2>1. \A a, b \in User : InFlight(a, b)' = InFlight(a, b)
    BY <1>1 DEF InFlight
  <2>2. QED BY <1>2, <1>3, <1>4, <2>1, HonestLemma DEF IInv, Grows
<1>6. StoredInv'
  BY <1>1, <1>2 DEF IInv, StoredInv, TypeOK
<1>7. MarksInv'
  BY <1>1, <1>2, <1>3, <1>4 DEF IInv, MarksInv, TypeOK
<1>8. QED BY <1>5, <1>6, <1>7 DEF IInv

LEMMA ResendPendingSafe ==
  ASSUME IInv, TypeOK', NEW u \in User, NEW v \in User, ResendPending(u, v)
  PROVE  IInv'
<1>1. UNCHANGED history
  BY DEF ResendPending
<1>s. SameRows /\ SameMarks
  BY <1>1 DEF history, erasures, SameRows, SameMarks
<1>g. Sent' = Sent /\ Saved' = Saved /\ Received' = Received /\ WasRead' = WasRead
  BY <1>1 DEF history, erasures, Sent, Saved, Received, WasRead
<1>2. CASE UNCHANGED wire
  BY <1>s, <1>2, WireFewer, LoseLemma DEF IInv
<1>3. CASE \E ps \in Resends(u, v) : wire' = SendAll(wire, u, v, ps)
  <2>1. PICK ps \in Resends(u, v) : wire' = SendAll(wire, u, v, ps)
    BY <1>3
  <2>2. Grows
    BY <1>g DEF Grows
  <2>3. /\ ps \in Seq(Payload)
        /\ \A p \in ToSet(ps) : \E m \in Pending(u, v) : p = Text(m, FALSE)
    BY ResendsLemma
  <2>4. ASSUME NEW p \in ToSet(ps) PROVE Honest(u, v, p)'
    <3>1. PICK m \in Msg : /\ p = Text(m, FALSE) /\ stage[m] = "saved"
                           /\ Sender[m] = u /\ Receiver[m] = v
      BY <2>3 DEF Pending
    <3>2. p.type = "message" /\ p.id = m
      BY <3>1 DEF Text
    <3>3. QED BY <3>1, <3>2, <1>g DEF Honest, Sent, Rowed
  <2>5. \A a, b \in User :
          ToSet(wire'[<<a, b>>])
            \subseteq ToSet(wire[<<a, b>>])
                \cup (IF a = u /\ b = v /\ {u, v} \in link THEN ToSet(ps) ELSE {})
    BY <2>1, <2>3, WireFewer, SendAllLemma DEF IInv
  <2>6. \A a, b \in User : \A p \in InFlight(a, b)' :
          p \in InFlight(a, b) \/ Honest(a, b, p)'
    BY <2>4, <2>5 DEF InFlight
  <2>7. InFlightInv'
    BY <2>2, <2>6, HonestLemma DEF IInv
  <2>8. StoredInv' /\ MarksInv'
    BY <1>g, <1>s DEF IInv, StoredInv, MarksInv, SameMarks
  <2>9. QED BY <2>7, <2>8 DEF IInv
<1>4. QED BY <1>2, <1>3 DEF ResendPending

LEMMA SendKeyExchangeSafe ==
  ASSUME IInv, TypeOK', NEW u \in User, NEW v \in User, SendKeyExchange(u, v)
  PROVE  IInv'
<1>1. UNCHANGED history
  BY DEF SendKeyExchange
<1>s. SameRows /\ SameMarks
  BY <1>1 DEF history, erasures, SameRows, SameMarks
<1>g. Sent' = Sent /\ Saved' = Saved /\ Received' = Received /\ WasRead' = WasRead
  BY <1>1 DEF history, erasures, Sent, Saved, Received, WasRead
<1>2. CASE UNCHANGED wire
  BY <1>s, <1>2, WireFewer, LoseLemma DEF IInv
<1>3. CASE wire' = SendJson(wire, u, v, KeyExchange)
  <2>1. Honest(u, v, KeyExchange)'
    BY DEF Honest, KeyExchange
  <2>2. Grows
    BY <1>g DEF Grows
  <2>3. InFlightInv'
    BY <1>3, <2>1, <2>2, WireFewer, PayloadLemma, SendLemma DEF IInv
  <2>4. StoredInv' /\ MarksInv'
    BY <1>g, <1>s DEF IInv, StoredInv, MarksInv, SameMarks
  <2>5. QED BY <2>3, <2>4 DEF IInv
<1>4. QED BY <1>2, <1>3 DEF SendKeyExchange

LEMMA MarkConversationReadSafe ==
  ASSUME IInv, TypeOK', NEW u \in User, NEW v \in User, MarkConversationRead(u, v)
  PROVE  IInv'
<1>1. PICK S \in SUBSET Msg : S = UnreadFrom(u, v)
  BY DEF UnreadFrom
<1>2. /\ readByReceiver' = readByReceiver \cup S
      /\ wire' = SendJson(wire, u, v, ReadIds(S))
      /\ UNCHANGED <<stage, delivered, seen, rows, erased, erasedRead>>
  BY <1>1 DEF MarkConversationRead, erasures
<1>3. \A m \in S : rows[m] > 0 /\ u = Receiver[m] /\ v = Sender[m]
  BY <1>1 DEF UnreadFrom
<1>4. /\ Sent' = Sent /\ Saved' = Saved /\ Received' = Received
      /\ WasRead' = WasRead \cup S
  BY <1>2 DEF Sent, Saved, Received, WasRead
<1>5. Honest(u, v, ReadIds(S))'
  BY <1>4, <1>3 DEF Honest, ReadIds
<1>6. InFlightInv'
  BY <1>2, <1>4, <1>5, WireFewer, PayloadLemma, SendLemma DEF IInv, Grows
<1>7. StoredInv' /\ MarksInv'
  BY <1>2, <1>3, <1>4 DEF IInv, StoredInv, MarksInv
<1>8. QED BY <1>6, <1>7 DEF IInv

\* Opening, breaking and closing connections loses payloads at most.
LEMMA ChannelSafe ==
  ASSUME IInv, TypeOK', NEW u \in User, NEW v \in User,
         Connect(u, v) \/ ChannelOpens(u, v) \/ LinkBreaks(u, v)
           \/ ChannelCloses(u, v) \/ Restart(u)
  PROVE  IInv'
<1>1. SameRows
  BY DEF Connect, ChannelOpens, LinkBreaks, ChannelCloses, Restart, history,
         Orphan, Abandon, SameRows, Rowed
<1>2. SameMarks
  BY DEF Connect, ChannelOpens, LinkBreaks, ChannelCloses, Restart, history,
         erasures, SameMarks
<1>3. \A a, b \in User : wire'[<<a, b>>] \in {wire[<<a, b>>], <<>>}
  <2>1. CASE Connect(u, v) \/ ChannelOpens(u, v)
    BY <2>1 DEF Connect, ChannelOpens
  <2>2. CASE LinkBreaks(u, v)
    BY <2>2 DEF LinkBreaks, IInv, TypeOK
  <2>3. CASE ChannelCloses(u, v)
    BY <2>3 DEF ChannelCloses, Unread, IInv, TypeOK
  <2>4. CASE Restart(u)
    BY <2>4 DEF Restart
  <2>5. QED BY <2>1, <2>2, <2>3, <2>4
<1>4. Fewer(wire')
  <2>1. ToSet(<<>>) = {}
    BY DEF ToSet
  <2>2. \A a, b \in User :
          ToSet(wire'[<<a, b>>]) = ToSet(wire[<<a, b>>]) \/ ToSet(wire'[<<a, b>>]) = {}
    BY <1>3, <2>1
  <2>3. QED BY <2>2 DEF Fewer, InFlight
<1>5. QED BY <1>1, <1>2, <1>4, LoseLemma

LEMMA SendingSafe ==
  ASSUME IInv, TypeOK', NEW m \in Msg,
         Compose(m) \/ ComposeOffline(m) \/ Sending(m)
  PROVE  IInv'
<1>1. CASE Compose(m) \/ Connected(m) \/ KeyWaitEnds(m)
  BY <1>1, TransmitSafe, AwaitPeerKeySafe
     DEF Compose, Connected, KeyWaitEnds, Proceed, Rowed
<1>2. CASE ComposeOffline(m) \/ SendFails(m)
  <2>1. SameRows /\ SameMarks /\ wire' = wire
    BY <1>2 DEF ComposeOffline, SendFails, IInv, TypeOK, SameRows, SameMarks,
       Rowed, erasures
  <2>2. QED BY <2>1, WireFewer, LoseLemma DEF IInv
<1>3. QED BY <1>1, <1>2 DEF Sending

LEMMA HandleKeyExchangeSafe ==
  ASSUME IInv, TypeOK', NEW u \in User, NEW v \in User, HandleKeyExchange(u, v)
  PROVE  IInv'
<1>1. wire[<<v, u>>] # <<>> /\ wire' = Taken(u, v) /\ UNCHANGED history
  BY DEF HandleKeyExchange, Incoming
<1>2. Fewer(wire')
  BY <1>1, TakenFewer DEF IInv, Fewer
<1>3. SameRows /\ SameMarks
  BY <1>1 DEF history, erasures, SameRows, SameMarks
<1>4. QED BY <1>1, <1>2, <1>3, LoseLemma

LEMMA SafeNext == IInv /\ [Next]_vars => IInv'
<1> SUFFICES ASSUME IInv, [Next]_vars PROVE IInv'
  OBVIOUS
<1>1. TypeOK'
  BY TypeNext DEF IInv
<1>2. ASSUME NEW m \in Msg, Compose(m) \/ ComposeOffline(m) \/ Sending(m)
      PROVE  IInv'
  BY <1>1, <1>2, SendingSafe
<1>3. ASSUME NEW u \in User, NEW v \in User,
             Connect(u, v) \/ ChannelOpens(u, v) \/ LinkBreaks(u, v)
               \/ ChannelCloses(u, v) \/ Restart(u)
      PROVE  IInv'
  BY <1>1, <1>3, ChannelSafe
<1>4. ASSUME NEW u \in User, NEW v \in User, Handle(u, v)
      PROVE  IInv'
  BY <1>1, <1>4, HandleMessageSafe, HandleDeliveredSafe, HandleMessagesReadSafe,
     HandleKeyExchangeSafe DEF Handle
<1>5. ASSUME NEW u \in User, NEW v \in User,
             Background(u, v) \/ MarkConversationRead(u, v) \/ DeleteConversation(u, v)
      PROVE  IInv'
  BY <1>1, <1>5, ResendPendingSafe, SendKeyExchangeSafe, MarkConversationReadSafe,
     DeleteSafe DEF Background
<1>6. CASE UNCHANGED vars
  <2>1. SameRows /\ SameMarks /\ wire' = wire
    BY <1>6 DEF vars, history, erasures, SameRows, SameMarks
  <2>2. QED BY <1>1, <2>1, WireFewer, LoseLemma DEF IInv
<1>7. QED BY <1>2, <1>3, <1>4, <1>5, <1>6 DEF Next

\* The inductive invariant: every acknowledgement and receipt in flight is
\* honest, which is why the marks they set are.
THEOREM Safe == Spec => []IInv
BY SafeInit, SafeNext, PTL DEF Spec

\* However often a message is resent, and however often it was deleted, its
\* receiver keeps one row of it.
THEOREM AtMostOnce == Spec => []OneRowPerMessage
<1>1. IInv => OneRowPerMessage
  BY DEF IInv, StoredInv, OneRowPerMessage
<1>2. QED BY <1>1, Safe, PTL

\* What is marked delivered is in its receiver's database, and what is marked
\* read has been read by its receiver, who has it; or else the receiver
\* deleted the row, and had read it if it is marked read.
THEOREM MarksSafe == Spec => []MarksAreHonest
<1>1. IInv => MarksAreHonest
  BY DEF IInv, MarksInv, MarksAreHonest, DeliveredIsStored, SeenIsRead, WasRead
<1>2. QED BY <1>1, Safe, PTL

-----------------------------------------------------------------------------
(* Messaging implements Delivery *)

LEMMA PromiseInit == Init => Promise!Init
BY DEF Init, Promise!Init, Saved

\* Steps of the channels and coroutines that only move payloads or keys.
LEMMA PromiseStutter ==
  ASSUME TypeOK, SameMarks, SameRows
  PROVE  UNCHANGED Promise!vars
<1>1. Sent' = Sent /\ Saved' = Saved
  BY SameLemma
<1>2. QED BY <1>1 DEF Promise!vars, SameMarks, Sent, Rowed

LEMMA PromiseTransmit ==
  ASSUME TypeOK, NEW m \in Msg, stage[m] \notin Rowed, Transmit(m)
  PROVE  Promise!Save(m)
<1>1. /\ m \notin Sent /\ Sent' = Sent \cup {m} /\ Saved' = Saved \cup {m}
  BY DEF Transmit, TypeOK, Sent, Saved, Rowed
<1>2. SameMarks
  BY DEF Transmit, SameMarks, erasures
<1>3. QED BY <1>1, <1>2 DEF Promise!Save, Sent, Rowed, SameMarks

LEMMA PromiseSending ==
  ASSUME IInv, NEW m \in Msg, Compose(m) \/ ComposeOffline(m) \/ Sending(m)
  PROVE  [Promise!Next]_(Promise!vars)
<1>1. CASE stage[m] \notin Rowed /\ Transmit(m)
  BY <1>1, PromiseTransmit DEF Promise!Next, IInv
<1>2. CASE stage[m] \notin Rowed /\ (AwaitPeerKey(m) \/ ComposeOffline(m) \/ SendFails(m))
  <2>1. SameRows
    BY <1>2 DEF AwaitPeerKey, ComposeOffline, SendFails, IInv, TypeOK, SameRows, Rowed
  <2>2. SameMarks
    BY <1>2 DEF AwaitPeerKey, ComposeOffline, SendFails, SameMarks, erasures
  <2>3. QED BY <2>1, <2>2, PromiseStutter DEF IInv
<1>3. QED
  BY <1>1, <1>2 DEF Sending, Compose, ComposeOffline, Connected, KeyWaitEnds,
     SendFails, Proceed, Rowed

LEMMA PromiseHandle ==
  ASSUME IInv, NEW u \in User, NEW v \in User, Handle(u, v)
  PROVE  [Promise!Next]_(Promise!vars)
<1> DEFINE p == Head(wire[<<v, u>>])
<1>1. wire[<<v, u>>] # <<>>
  BY DEF Handle, HandleMessage, HandleDelivered, HandleMessagesRead,
     HandleKeyExchange, Incoming
<1>2. p \in Payload /\ p \in InFlight(v, u)
  BY <1>1, WireFewer, TakenLemma DEF IInv
<1>3. Honest(v, u, p)
  BY <1>2 DEF IInv, InFlightInv
<1>s. UNCHANGED stage
  BY DEF Handle, HandleMessage, HandleDelivered, HandleMessagesRead,
     HandleKeyExchange, history
<1>r. SameRows /\ Sent' = Sent /\ Saved' = Saved
  BY <1>s, SameLemma DEF SameRows, IInv
<1>4. CASE HandleMessage(u, v)
  <2>1. PICK id \in Msg : id = p.id
    BY <1>2, <1>4, FieldsLemma DEF HandleMessage, Incoming
  <2>2. /\ id \in Sent
        /\ UNCHANGED <<delivered, seen, readByReceiver, erased, erasedRead>>
    BY <1>3, <1>4, <2>1 DEF Honest, HandleMessage, Incoming, erasures
  <2>3. CASE UNCHANGED rows
    BY <1>r, <2>2, <2>3, PromiseStutter DEF IInv, SameMarks
  <2>4. CASE rows[id] = 0 /\ rows' = [rows EXCEPT ![id] = @ + 1]
    <3>1. rows' = [rows EXCEPT ![id] = 1]
      BY <2>4
    <3>2. Promise!Arrive(id)
      BY <1>r, <2>2, <2>4, <3>1 DEF Promise!Arrive, Sent, Rowed
    <3>3. QED BY <3>2 DEF Promise!Next
  <2>5. QED BY <1>4, <2>1, <2>3, <2>4 DEF HandleMessage, Acceptable
<1>5. CASE HandleDelivered(u, v)
  <2>1. PICK id \in Msg : id = p.id
    BY <1>2, <1>5, FieldsLemma DEF HandleDelivered, Incoming
  <2>2. /\ id \in Received /\ delivered' = delivered \cup ({id} \cap Saved)
        /\ UNCHANGED <<seen, rows, readByReceiver, erased, erasedRead>>
    BY <1>3, <1>5, <2>1 DEF Honest, HandleDelivered, Incoming, erasures
  <2>3. CASE id \in Saved
    <3>1. delivered' = delivered \cup {id}
      BY <2>2, <2>3
    <3>2. Promise!Confirm(id)
      BY <1>r, <2>2, <2>3, <3>1 DEF Promise!Confirm, Promise!Arrived, Received, Sent, Rowed
    <3>3. QED BY <3>2 DEF Promise!Next
  <2>4. CASE id \notin Saved
    BY <1>r, <2>2, <2>4, PromiseStutter DEF IInv, SameMarks
  <2>5. QED BY <2>3, <2>4
<1>6. CASE HandleMessagesRead(u, v)
  <2>1. PICK S \in SUBSET Msg : S = p.ids \cap Saved
    BY <1>2, <1>6, FieldsLemma DEF HandleMessagesRead, Incoming
  <2>2. /\ S \subseteq Saved /\ S \subseteq WasRead /\ seen' = seen \cup S
        /\ UNCHANGED <<delivered, rows, readByReceiver, erased, erasedRead>>
    BY <1>3, <1>6, <2>1 DEF Honest, HandleMessagesRead, Incoming, erasures
  <2>3. Promise!LearnRead(S)
    BY <1>r, <2>2 DEF Promise!LearnRead, WasRead, Sent, Rowed
  <2>4. QED BY <2>3 DEF Promise!Next
<1>7. CASE HandleKeyExchange(u, v)
  <2>1. SameMarks
    BY <1>7 DEF HandleKeyExchange, history, erasures, SameMarks
  <2>2. QED BY <1>r, <2>1, PromiseStutter DEF IInv
<1>8. QED BY <1>4, <1>5, <1>6, <1>7 DEF Handle

LEMMA PromiseRead ==
  ASSUME IInv, NEW u \in User, NEW v \in User, MarkConversationRead(u, v)
  PROVE  Promise!Next
<1>1. PICK S \in SUBSET Msg : S = UnreadFrom(u, v)
  BY DEF UnreadFrom
<1>2. /\ \A m \in S : rows[m] > 0
      /\ readByReceiver' = readByReceiver \cup S
      /\ UNCHANGED <<stage, delivered, seen, rows, erased, erasedRead>>
  BY <1>1 DEF MarkConversationRead, UnreadFrom, erasures
<1>3. Sent' = Sent /\ Saved' = Saved
  BY <1>2 DEF Sent, Saved
<1>4. Promise!Read(S)
  BY <1>2, <1>3 DEF Promise!Read, Promise!Arrived, Sent, Rowed
<1>5. QED BY <1>4 DEF Promise!Next

\* Deleting a conversation is one deletion at both ends of its messages.
LEMMA PromiseDelete ==
  ASSUME IInv, NEW u \in User, NEW v \in User, DeleteConversation(u, v)
  PROVE  Promise!Next
<1>1. PICK F \in SUBSET Msg : F = Between(u, v)
  BY DEF Between
<1>2. PICK E \in SUBSET Msg : E = {m \in Between(v, u) : rows[m] > 0}
  BY DEF Between
<1>3. /\ stage' = [m \in Msg |-> IF m \in F \cap Saved THEN "deleted" ELSE stage[m]]
      /\ delivered' = delivered \ F /\ seen' = seen \ F
      /\ rows' = [m \in Msg |-> IF m \in Between(v, u) THEN 0 ELSE rows[m]]
      /\ readByReceiver' = readByReceiver \ Between(v, u)
      /\ erased' = erased \cup E
      /\ erasedRead' = erasedRead \cup (readByReceiver \cap Between(v, u))
  BY <1>1, <1>2 DEF DeleteConversation
<1>4. Sent' = Sent /\ Saved' = Saved \ F
  BY <1>3 DEF Sent, Saved, Rowed
<1>5. readByReceiver \cap Between(v, u) = readByReceiver \cap E
  BY <1>2 DEF IInv, MarksInv
<1>6. rows' = [m \in Msg |-> IF m \in E THEN 0 ELSE rows[m]]
  <2>1. \A m \in Msg : m \in Between(v, u) /\ m \notin E => rows[m] = 0
    BY <1>2 DEF IInv, TypeOK
  <2>2. QED BY <1>2, <1>3, <2>1
<1>7. readByReceiver' = readByReceiver \ E
  BY <1>3, <1>5
<1>8. E \subseteq Promise!Arrived
  BY <1>2 DEF Promise!Arrived
<1>9. Promise!Delete(F, E)
  BY <1>3, <1>4, <1>5, <1>6, <1>7, <1>8 DEF Promise!Delete, Sent, Rowed
<1>10. QED BY <1>9 DEF Promise!Next

LEMMA PromiseChannel ==
  ASSUME IInv, NEW u \in User, NEW v \in User,
         \/ Connect(u, v) \/ ChannelOpens(u, v) \/ LinkBreaks(u, v)
         \/ ChannelCloses(u, v) \/ Restart(u) \/ Background(u, v)
  PROVE  UNCHANGED Promise!vars
<1>1. SameRows
  BY DEF Connect, ChannelOpens, LinkBreaks, ChannelCloses, Restart, Background,
     ResendPending, SendKeyExchange, history, Orphan, Abandon, SameRows, Rowed
<1>2. SameMarks
  BY DEF Connect, ChannelOpens, LinkBreaks, ChannelCloses, Restart, Background,
     ResendPending, SendKeyExchange, history, erasures, SameMarks
<1>3. QED BY <1>1, <1>2, PromiseStutter DEF IInv

LEMMA PromiseNext == IInv /\ [Next]_vars => [Promise!Next]_(Promise!vars)
<1> SUFFICES ASSUME IInv, [Next]_vars PROVE [Promise!Next]_(Promise!vars)
  OBVIOUS
<1>1. CASE UNCHANGED vars
  <2>1. SameRows /\ SameMarks
    BY <1>1 DEF vars, history, erasures, SameRows, SameMarks
  <2>2. QED BY <2>1, PromiseStutter DEF IInv
<1>2. CASE Next
  BY <1>2, PromiseSending, PromiseHandle, PromiseRead, PromiseDelete, PromiseChannel
     DEF Next
<1>3. QED BY <1>1, <1>2

\* The managers, their databases and the channels between them implement the
\* promise: a message travels saved, stored once, confirmed and read, in an
\* order its receiver dictates, and each user deletes its own rows only.
THEOREM Implements == Spec => DeliverySpec
BY PromiseInit, PromiseNext, Safe, PTL DEF Spec, DeliverySpec, Promise!Spec

-----------------------------------------------------------------------------
(* Keys belong to the connection that is up *)

KeysInv ==
  /\ \A u \in User : peerKeys[u] \subseteq open[u]
  /\ KeysAreFresh
  /\ \A u, v \in User : KeyExchange \in InFlight(u, v) /\ {u, v} \in link => v \in sentKeys[u]
  /\ \A u, v \in User : InFlight(u, v) # {} => {u, v} \in link \/ u \in open[v]

LEMMA KeysInit == Init => KeysInv
<1> SUFFICES ASSUME Init PROVE KeysInv
  OBVIOUS
<1>1. \A a, b \in User : InFlight(a, b) = {}
  BY DEF Init, InFlight, ToSet
<1>2. QED BY <1>1 DEF Init, KeysInv, KeysAreFresh

\* A step of the managers on channels that stay as they are: keys go out only
\* once they are counted as sent, and come in only from what is in flight.
LEMMA KeysLemma ==
  ASSUME TypeOK, TypeOK', KeysInv, UNCHANGED channels,
         \A a, b \in User : \A p \in InFlight(a, b)' :
           \/ p \in InFlight(a, b)
           \/ {a, b} \in link /\ (p = KeyExchange => b \in sentKeys'[a]),
         \A a \in User : sentKeys[a] \subseteq sentKeys'[a],
         \A a, b \in User : b \in peerKeys'[a] =>
           b \in peerKeys[a] \/ (b \in open[a] /\ KeyExchange \in InFlight(b, a))
  PROVE  KeysInv'
<1>0. link' = link /\ open' = open
  BY DEF channels
<1>1. \A a \in User : peerKeys'[a] \subseteq open'[a]
  <2>1. \A a \in User : peerKeys'[a] \subseteq User
    BY DEF TypeOK
  <2>2. \A a, b \in User : b \in peerKeys'[a] => b \in open[a]
    BY DEF KeysInv
  <2>3. QED BY <1>0, <2>1, <2>2
<1>2. KeysAreFresh'
  <2>1. SUFFICES ASSUME NEW a \in User, NEW b \in User, {a, b} \in link, b \in peerKeys'[a]
                 PROVE  a \in sentKeys'[b]
    BY <1>0 DEF KeysAreFresh
  <2>2. CASE b \in peerKeys[a]
    BY <2>1, <2>2 DEF KeysInv, KeysAreFresh
  <2>3. CASE KeyExchange \in InFlight(b, a)
    <3>1. {b, a} \in link
      <4>1. {b, a} = {a, b}
        OBVIOUS
      <4>2. QED BY <4>1, <2>1
    <3>2. QED BY <2>3, <3>1 DEF KeysInv
  <2>4. QED BY <2>1, <2>2, <2>3
<1>3. \A a, b \in User :
        KeyExchange \in InFlight(a, b)' /\ {a, b} \in link' => b \in sentKeys'[a]
  BY <1>0 DEF KeysInv
<1>4. \A a, b \in User : InFlight(a, b)' # {} => {a, b} \in link' \/ a \in open'[b]
  BY <1>0 DEF KeysInv
<1>5. QED BY <1>1, <1>2, <1>3, <1>4 DEF KeysInv

\* A step that sends the one payload q, and takes no key in.
LEMMA KeysSend ==
  ASSUME TypeOK, TypeOK', KeysInv, UNCHANGED channels, UNCHANGED peerKeys,
         NEW w \in Wires, Fewer(w), NEW u \in User, NEW v \in User,
         NEW q \in Payload,
         wire' = SendJson(w, u, v, q) \/ wire' = SendAll(w, u, v, <<q>>),
         q = KeyExchange => v \in sentKeys'[u],
         \A a \in User : sentKeys[a] \subseteq sentKeys'[a]
  PROVE  KeysInv'
<1>1. \A a, b \in User :
        ToSet(wire'[<<a, b>>])
          \subseteq ToSet(w[<<a, b>>])
              \cup (IF a = u /\ b = v /\ {u, v} \in link THEN {q} ELSE {})
  BY SendOneLemma
<1>2. \A a, b \in User : \A p \in InFlight(a, b)' :
        \/ p \in InFlight(a, b)
        \/ {a, b} \in link /\ (p = KeyExchange => b \in sentKeys'[a])
  BY <1>1 DEF Fewer, InFlight
<1>3. QED BY <1>2, KeysLemma

\* A step that sends nothing, and takes no key in.
LEMMA KeysLose ==
  ASSUME TypeOK, TypeOK', KeysInv, UNCHANGED channels, UNCHANGED keys, Fewer(wire')
  PROVE  KeysInv'
<1>1. \A a, b \in User : \A p \in InFlight(a, b)' : p \in InFlight(a, b)
  BY DEF Fewer, InFlight
<1>2. UNCHANGED peerKeys /\ UNCHANGED sentKeys
  BY DEF keys
<1>3. QED BY <1>1, <1>2, KeysLemma

LEMMA KeysSending ==
  ASSUME TypeOK, TypeOK', KeysInv, NEW m \in Msg,
         Compose(m) \/ ComposeOffline(m) \/ Sending(m)
  PROVE  KeysInv'
<1> DEFINE u == Sender[m]  v == Receiver[m]
<1>0. u \in User /\ v \in User
  BY EndpointsAssumption
<1>1. CASE Transmit(m)
  <2>1. PICK q \in Payload : q = Text(m, CanSeal(u, v))
    BY <1>0, PayloadLemma DEF CanSeal
  <2>2. q # KeyExchange
    <3>1. q.type = "message" /\ KeyExchange.type = "key_exchange"
      BY <2>1 DEF Text, KeyExchange
    <3>2. QED BY <3>1
  <2>3. /\ wire' = SendAll(wire, u, v, <<q>>)
        /\ UNCHANGED channels /\ UNCHANGED peerKeys /\ UNCHANGED sentKeys
    BY <1>1, <2>1 DEF Transmit, Send, keys
  <2>4. QED BY <1>0, <2>2, <2>3, WireFewer, KeysSend
<1>2. CASE AwaitPeerKey(m)
  <2>1. /\ UNCHANGED channels /\ UNCHANGED peerKeys
        /\ sentKeys' = [sentKeys EXCEPT ![u] = @ \cup {v}]
    BY <1>2 DEF AwaitPeerKey
  <2>2. v \in sentKeys'[u] /\ \A a \in User : sentKeys[a] \subseteq sentKeys'[a]
    BY <1>0, <2>1 DEF TypeOK
  <2>3. CASE wire' = SendJson(wire, u, v, KeyExchange)
    BY <1>0, <2>1, <2>2, <2>3, WireFewer, PayloadLemma, KeysSend
  <2>4. CASE v \in sentKeys[u] /\ wire' = wire
    <3>1. \A a, b \in User : InFlight(a, b)' = InFlight(a, b)
      BY <2>4 DEF InFlight
    <3>2. QED BY <2>1, <2>2, <3>1, KeysLemma
  <2>5. QED BY <1>2, <2>3, <2>4 DEF AwaitPeerKey
<1>3. CASE ComposeOffline(m) \/ SendFails(m)
  <2>1. UNCHANGED channels /\ UNCHANGED keys /\ wire' = wire
    BY <1>3 DEF ComposeOffline, SendFails
  <2>2. Fewer(wire')
    BY <2>1, WireFewer DEF Fewer
  <2>3. QED BY <2>1, <2>2, KeysLose
<1>4. QED
  BY <1>1, <1>2, <1>3 DEF Compose, Connected, KeyWaitEnds, Sending, Proceed

\* No other payload has the type of a key exchange.
LEMMA KeyLemma ==
  ASSUME NEW p \in Payload, p.type = "key_exchange"
  PROVE  p = KeyExchange
<1>1. \A m \in Msg, s \in BOOLEAN : Text(m, s).type = "message"
  BY DEF Text
<1>2. \A m \in Msg : Delivered(m).type = "message_delivered"
  BY DEF Delivered
<1>3. \A S \in SUBSET Msg : ReadIds(S).type = "messages_read"
  BY DEF ReadIds
<1>4. QED BY <1>1, <1>2, <1>3 DEF Payload

LEMMA KeysHandle ==
  ASSUME TypeOK, TypeOK', KeysInv, NEW u \in User, NEW v \in User, Handle(u, v)
  PROVE  KeysInv'
<1> DEFINE p == Head(wire[<<v, u>>])
<1>0. wire[<<v, u>>] # <<>> /\ v \in open[u]
  BY DEF Handle, HandleMessage, HandleDelivered, HandleMessagesRead,
     HandleKeyExchange, Incoming
<1>t. /\ Taken(u, v) \in Wires /\ Fewer(Taken(u, v))
      /\ p \in Payload /\ p \in InFlight(v, u)
  BY <1>0, WireFewer, TakenFewer, TakenLemma
<1>1. CASE HandleMessage(u, v)
  <2>0. UNCHANGED channels /\ UNCHANGED keys
    BY <1>1 DEF HandleMessage
  <2>1. PICK id \in Msg : id = p.id
    BY <1>t, <1>1, FieldsLemma DEF HandleMessage, Incoming
  <2>2. CASE wire' = SendJson(Taken(u, v), u, v, Delivered(id))
    <3>1. Delivered(id) # KeyExchange
      <4>1. Delivered(id).type = "message_delivered" /\ KeyExchange.type = "key_exchange"
        BY DEF Delivered, KeyExchange
      <4>2. QED BY <4>1
    <3>2. UNCHANGED peerKeys /\ UNCHANGED sentKeys
      BY <2>0 DEF keys
    <3>3. QED BY <1>t, <2>0, <2>2, <3>1, <3>2, PayloadLemma, KeysSend
  <2>3. CASE wire' = Taken(u, v)
    <3>1. Fewer(wire')
      BY <1>t, <2>3 DEF Fewer
    <3>2. QED BY <2>0, <3>1, KeysLose
  <2>4. QED BY <1>1, <2>1, <2>2, <2>3 DEF HandleMessage
<1>2. CASE HandleDelivered(u, v) \/ HandleMessagesRead(u, v)
  <2>1. UNCHANGED channels /\ UNCHANGED keys /\ wire' = Taken(u, v)
    BY <1>2 DEF HandleDelivered, HandleMessagesRead
  <2>2. Fewer(wire')
    BY <1>t, <2>1 DEF Fewer
  <2>3. QED BY <2>1, <2>2, KeysLose
<1>3. CASE HandleKeyExchange(u, v)
  <2>1. /\ UNCHANGED channels /\ UNCHANGED sentKeys /\ wire' = Taken(u, v)
        /\ p.type = "key_exchange"
    BY <1>3 DEF HandleKeyExchange, Incoming
  <2>2. p = KeyExchange
    BY <1>t, <2>1, KeyLemma
  <2>3. \A a, b \in User : b \in peerKeys'[a] =>
          b \in peerKeys[a] \/ (b \in open[a] /\ KeyExchange \in InFlight(b, a))
    BY <1>0, <1>t, <1>3, <2>2 DEF HandleKeyExchange, TypeOK
  <2>4. \A a, b \in User : \A r \in InFlight(a, b)' : r \in InFlight(a, b)
    BY <1>t, <2>1 DEF Fewer, InFlight
  <2>5. QED BY <2>1, <2>3, <2>4, KeysLemma
<1>4. QED BY <1>1, <1>2, <1>3 DEF Handle

LEMMA KeysBackground ==
  ASSUME TypeOK, TypeOK', KeysInv, NEW u \in User, NEW v \in User,
         Background(u, v) \/ MarkConversationRead(u, v)
  PROVE  KeysInv'
<1>1. CASE ResendPending(u, v)
  <2>0. UNCHANGED channels /\ UNCHANGED keys /\ UNCHANGED peerKeys /\ UNCHANGED sentKeys
    BY <1>1 DEF ResendPending, keys
  <2>1. CASE UNCHANGED wire
    <3>1. Fewer(wire')
      BY <2>1, WireFewer DEF Fewer
    <3>2. QED BY <2>0, <3>1, KeysLose
  <2>2. CASE \E ps \in Resends(u, v) : wire' = SendAll(wire, u, v, ps)
    <3>1. PICK ps \in Resends(u, v) : wire' = SendAll(wire, u, v, ps)
      BY <2>2
    <3>2. /\ ps \in Seq(Payload)
          /\ \A q \in ToSet(ps) : \E m \in Pending(u, v) : q = Text(m, FALSE)
      BY ResendsLemma
    <3>3. \A q \in ToSet(ps) : q # KeyExchange
      <4>1. \A q \in ToSet(ps) : q.type = "message"
        BY <3>2 DEF Text
      <4>2. KeyExchange.type = "key_exchange"
        BY DEF KeyExchange
      <4>3. QED BY <4>1, <4>2
    <3>4. \A a, b \in User :
            ToSet(wire'[<<a, b>>])
              \subseteq ToSet(wire[<<a, b>>])
                  \cup (IF a = u /\ b = v /\ {u, v} \in link THEN ToSet(ps) ELSE {})
      BY <3>1, <3>2, WireFewer, SendAllLemma
    <3>5. \A a, b \in User : \A q \in InFlight(a, b)' :
            \/ q \in InFlight(a, b)
            \/ {a, b} \in link /\ (q = KeyExchange => b \in sentKeys'[a])
      BY <3>3, <3>4 DEF InFlight
    <3>6. QED BY <2>0, <3>5, KeysLemma
  <2>3. QED BY <1>1, <2>1, <2>2 DEF ResendPending
<1>2. CASE SendKeyExchange(u, v)
  <2>0. UNCHANGED channels /\ UNCHANGED peerKeys
    BY <1>2 DEF SendKeyExchange
  <2>1. CASE UNCHANGED <<sentKeys, wire>>
    <3>1. Fewer(wire')
      BY <2>1, WireFewer DEF Fewer
    <3>2. QED BY <2>0, <2>1, <3>1, KeysLose DEF keys
  <2>2. CASE /\ sentKeys' = [sentKeys EXCEPT ![u] = @ \cup {v}]
             /\ wire' = SendJson(wire, u, v, KeyExchange)
    <3>1. v \in sentKeys'[u] /\ \A a \in User : sentKeys[a] \subseteq sentKeys'[a]
      BY <2>2 DEF TypeOK
    <3>2. QED BY <2>0, <2>2, <3>1, WireFewer, PayloadLemma, KeysSend
  <2>3. QED BY <1>2, <2>1, <2>2 DEF SendKeyExchange
<1>3. CASE MarkConversationRead(u, v)
  <2>1. PICK S \in SUBSET Msg : S = UnreadFrom(u, v)
    BY DEF UnreadFrom
  <2>2. /\ UNCHANGED channels /\ UNCHANGED peerKeys /\ UNCHANGED sentKeys
        /\ wire' = SendJson(wire, u, v, ReadIds(S))
    BY <1>3, <2>1 DEF MarkConversationRead, keys
  <2>3. ReadIds(S) # KeyExchange
    <3>1. ReadIds(S).type = "messages_read" /\ KeyExchange.type = "key_exchange"
      BY DEF ReadIds, KeyExchange
    <3>2. QED BY <3>1
  <2>4. QED BY <2>2, <2>3, WireFewer, PayloadLemma, KeysSend
<1>4. QED BY <1>1, <1>2, <1>3 DEF Background

\* Connections come and go: whoever loses one forgets its keys, and a new one
\* starts with empty wires.
LEMMA KeysChannel ==
  ASSUME TypeOK, TypeOK', KeysInv, NEW u \in User, NEW v \in User,
         Connect(u, v) \/ ChannelOpens(u, v) \/ LinkBreaks(u, v)
           \/ ChannelCloses(u, v) \/ Restart(u)
  PROVE  KeysInv'
<1>e. ToSet(<<>>) = {}
  BY DEF ToSet
<1>1. CASE Connect(u, v)
  <2>1. /\ link' = link \cup {{u, v}} /\ v \notin open[u] /\ u \notin open[v]
        /\ {u, v} \notin link
        /\ UNCHANGED <<peerKeys, sentKeys, open, wire>>
    BY <1>1 DEF Connect, keys
  <2>2. InFlight(u, v) = {} /\ InFlight(v, u) = {}
    <3>1. {v, u} \notin link
      BY <2>1
    <3>2. QED BY <2>1, <3>1 DEF KeysInv
  <2>3. v \notin peerKeys[u] /\ u \notin peerKeys[v]
    BY <2>1 DEF KeysInv
  <2>4. \A a, b \in User : {a, b} = {u, v} => (a = u /\ b = v) \/ (a = v /\ b = u)
    OBVIOUS
  <2>5. \A a, b \in User : InFlight(a, b)' = InFlight(a, b)
    BY <2>1 DEF InFlight
  <2>6. KeysAreFresh'
    BY <2>1, <2>3, <2>4 DEF KeysInv, KeysAreFresh
  <2>7. QED BY <2>1, <2>2, <2>4, <2>5, <2>6 DEF KeysInv
<1>2. CASE ChannelOpens(u, v)
  <2>1. /\ open' = [open EXCEPT ![u] = @ \cup {v}]
        /\ UNCHANGED <<peerKeys, sentKeys, link, wire>>
    BY <1>2 DEF ChannelOpens, keys
  <2>2. \A a \in User : open[a] \subseteq open'[a]
    BY <2>1 DEF TypeOK
  <2>3. \A a, b \in User : InFlight(a, b)' = InFlight(a, b)
    BY <2>1 DEF InFlight
  <2>4. QED BY <2>1, <2>2, <2>3 DEF KeysInv, KeysAreFresh
<1>3. CASE LinkBreaks(u, v)
  <2>1. /\ link' = link \ {{u, v}}
        /\ UNCHANGED <<peerKeys, sentKeys, open>>
    BY <1>3 DEF LinkBreaks, keys
  <2>2. wire'[<<u, v>>] = <<>> /\ wire'[<<v, u>>] = <<>>
    BY <1>3 DEF LinkBreaks, TypeOK
  <2>3. \A a, b \in User : wire'[<<a, b>>] \in {wire[<<a, b>>], <<>>}
    BY <1>3 DEF LinkBreaks, TypeOK
  <2>4. InFlight(u, v)' = {} /\ InFlight(v, u)' = {}
    BY <1>e, <2>2 DEF InFlight
  <2>5. \A a, b \in User : InFlight(a, b)' = InFlight(a, b) \/ InFlight(a, b)' = {}
    BY <1>e, <2>3 DEF InFlight
  <2>6. \A a, b \in User : {a, b} = {u, v} => (a = u /\ b = v) \/ (a = v /\ b = u)
    OBVIOUS
  <2>7. \A a, b \in User :
          KeyExchange \in InFlight(a, b)' /\ {a, b} \in link' => b \in sentKeys'[a]
    BY <2>1, <2>5 DEF KeysInv
  <2>8. \A a, b \in User : InFlight(a, b)' # {} => {a, b} \in link' \/ a \in open'[b]
    <3>1. SUFFICES ASSUME NEW a \in User, NEW b \in User, InFlight(a, b)' # {}
                   PROVE  {a, b} \in link' \/ a \in open'[b]
      OBVIOUS
    <3>2. {a, b} # {u, v}
      BY <2>4, <2>6, <3>1
    <3>3. {a, b} \in link \/ a \in open[b]
      BY <2>5, <3>1 DEF KeysInv
    <3>4. QED BY <2>1, <3>2, <3>3
  <2>9. QED BY <2>1, <2>7, <2>8 DEF KeysInv, KeysAreFresh
<1>4. CASE ChannelCloses(u, v)
  <2>1. /\ open' = [open EXCEPT ![u] = @ \ {v}]
        /\ link' = link \ {{u, v}}
        /\ peerKeys' = [peerKeys EXCEPT ![u] = @ \ {v}]
        /\ sentKeys' = [sentKeys EXCEPT ![u] = @ \ {v}]
        /\ wire' = Unread(wire, u, v)
    BY <1>4 DEF ChannelCloses, ForgetKeys
  <2>2. /\ wire'[<<v, u>>] = <<>>
        /\ u \in open[v] \/ wire'[<<u, v>>] = <<>>
        /\ \A a, b \in User : wire'[<<a, b>>] \in {wire[<<a, b>>], <<>>}
    BY <2>1 DEF Unread, TypeOK
  <2>3. /\ InFlight(v, u)' = {}
        /\ u \in open[v] \/ InFlight(u, v)' = {}
        /\ \A a, b \in User : InFlight(a, b)' = InFlight(a, b) \/ InFlight(a, b)' = {}
    BY <1>e, <2>2 DEF InFlight
  <2>4. \A a, b \in User : {a, b} = {u, v} => (a = u /\ b = v) \/ (a = v /\ b = u)
    OBVIOUS
  <2>5. \A a \in User : peerKeys'[a] \subseteq open'[a]
    BY <2>1 DEF KeysInv, TypeOK
  <2>6. \A a, b \in User : b \in sentKeys[a] => b \in sentKeys'[a] \/ (a = u /\ b = v)
    BY <2>1 DEF TypeOK
  <2>7. \A a, b \in User : b \in peerKeys'[a] => b \in peerKeys[a]
    BY <2>1 DEF TypeOK
  <2>8. \A a, b \in User : {a, b} \in link' => {a, b} \in link /\ {a, b} # {u, v}
    BY <2>1
  <2>9. \A a, b \in User : {b, a} = {a, b}
    OBVIOUS
  <2>10. KeysAreFresh'
    BY <2>6, <2>7, <2>8, <2>9 DEF KeysInv, KeysAreFresh
  <2>11. \A a, b \in User :
           KeyExchange \in InFlight(a, b)' /\ {a, b} \in link' => b \in sentKeys'[a]
    BY <2>3, <2>6, <2>8 DEF KeysInv
  <2>12. \A a, b \in User : InFlight(a, b)' # {} => {a, b} \in link' \/ a \in open'[b]
    <3>1. SUFFICES ASSUME NEW a \in User, NEW b \in User, InFlight(a, b)' # {}
                   PROVE  {a, b} \in link' \/ a \in open'[b]
      OBVIOUS
    <3>2. {a, b} \in link \/ a \in open[b]
      BY <2>3, <3>1 DEF KeysInv
    <3>3. ~(a = v /\ b = u)
      BY <2>3, <3>1
    <3>4. a \in open[b] => a \in open'[b]
      BY <2>1, <3>3 DEF TypeOK
    <3>5. CASE a = u /\ b = v
      BY <2>3, <3>1, <3>4, <3>5
    <3>6. CASE ~(a = u /\ b = v)
      BY <2>1, <2>4, <3>2, <3>3, <3>4, <3>6
    <3>7. QED BY <3>5, <3>6
  <2>13. QED BY <2>5, <2>10, <2>11, <2>12 DEF KeysInv
<1>5. CASE Restart(u)
  <2>1. /\ open' = [open EXCEPT ![u] = {}]
        /\ link' = {l \in link : u \notin l}
        /\ peerKeys' = [peerKeys EXCEPT ![u] = {}]
        /\ sentKeys' = [sentKeys EXCEPT ![u] = {}]
    BY <1>5 DEF Restart
  <2>2. \A a, b \in User :
          wire'[<<a, b>>] = IF b = u \/ (a = u /\ u \notin open[b])
                            THEN <<>> ELSE wire[<<a, b>>]
    BY <1>5 DEF Restart
  <2>3. \A a, b \in User :
          InFlight(a, b)' = IF b = u \/ (a = u /\ u \notin open[b])
                            THEN {} ELSE InFlight(a, b)
    BY <1>e, <2>2 DEF InFlight
  <2>4. \A a \in User : /\ a # u => /\ open'[a] = open[a]
                                    /\ peerKeys'[a] = peerKeys[a]
                                    /\ sentKeys'[a] = sentKeys[a]
                        /\ peerKeys'[u] = {}
    BY <2>1 DEF TypeOK
  <2>5. \A a, b \in User : {a, b} \in link' <=> {a, b} \in link /\ a # u /\ b # u
    BY <2>1
  <2>6. \A a \in User : peerKeys'[a] \subseteq open'[a]
    BY <2>4 DEF KeysInv
  <2>7. KeysAreFresh'
    BY <2>4, <2>5 DEF KeysInv, KeysAreFresh
  <2>8. \A a, b \in User :
          KeyExchange \in InFlight(a, b)' /\ {a, b} \in link' => b \in sentKeys'[a]
    BY <2>3, <2>4, <2>5 DEF KeysInv
  <2>9. \A a, b \in User : InFlight(a, b)' # {} => {a, b} \in link' \/ a \in open'[b]
    BY <2>3, <2>4, <2>5 DEF KeysInv
  <2>10. QED BY <2>6, <2>7, <2>8, <2>9 DEF KeysInv
<1>6. QED BY <1>1, <1>2, <1>3, <1>4, <1>5

\* Deleting rows touches neither keys nor channels.
LEMMA KeysDelete ==
  ASSUME TypeOK, TypeOK', KeysInv, NEW u \in User, NEW v \in User,
         DeleteConversation(u, v)
  PROVE  KeysInv'
<1>1. UNCHANGED channels /\ UNCHANGED keys /\ wire' = wire
  BY DEF DeleteConversation
<1>2. Fewer(wire')
  BY <1>1, WireFewer DEF Fewer
<1>3. QED BY <1>1, <1>2, KeysLose

LEMMA KeysNext == TypeOK /\ TypeOK' /\ KeysInv /\ [Next]_vars => KeysInv'
<1> SUFFICES ASSUME TypeOK, TypeOK', KeysInv, [Next]_vars PROVE KeysInv'
  OBVIOUS
<1>1. CASE UNCHANGED vars
  <2>1. UNCHANGED channels /\ UNCHANGED keys /\ wire' = wire
    BY <1>1 DEF vars
  <2>2. Fewer(wire')
    BY <2>1, WireFewer DEF Fewer
  <2>3. QED BY <2>1, <2>2, KeysLose
<1>2. CASE Next
  BY <1>2, KeysSending, KeysHandle, KeysBackground, KeysChannel, KeysDelete DEF Next
<1>3. QED BY <1>1, <1>2

\* A client seals with a key only if its owner published it on the connection
\* that is up.
THEOREM KeysFresh == Spec => []KeysAreFresh
<1>1. KeysInv => KeysAreFresh
  BY DEF KeysInv
<1>2. QED BY <1>1, KeysInit, KeysNext, TypeCorrect, PTL DEF Spec

-----------------------------------------------------------------------------
(* No message is stranded on a working connection *)

\* Some copy of m is on its way to its receiver.
OnItsWay(m) == \E s \in BOOLEAN : Text(m, s) \in InFlight(Sender[m], Receiver[m])

\* u's channel to v is open and works, and what was undelivered when it
\* opened has been sent again.
Working(u, v) == {u, v} \in link /\ v \in open[u] /\ v \notin resendDue[u]

\* The safety that ResendDelivers rests on: a message in its sender's history
\* is stored at the receiver (or was, until its user deleted it) or on its way
\* there over every connection that works, unless it was sealed (the receiver
\* may have lacked the key, and dropped it for this connection).
NoneStranded ==
  \A m \in Msg : stage[m] = "saved" /\ Working(Sender[m], Receiver[m])
                   => m \in Received \/ OnItsWay(m) \/ m \in sealed

\* m was sent sealed, and perhaps deleted by its sender since.
WasSealed == sealed \cup {m \in Msg : stage[m] = "deleted"}

\* What is sealed in flight is sealed in its sender's history, as long as it
\* is there.
SealedInv ==
  /\ \A u, v \in User : \A m \in Msg : Text(m, TRUE) \in InFlight(u, v) => m \in WasSealed
  /\ sealed \subseteq Saved

StrandInv == NoneStranded /\ SealedInv

\* Texts of two messages differ, and so do texts and all the rest.
LEMMA TextLemma ==
  ASSUME NEW m \in Msg, NEW s \in BOOLEAN
  PROVE  /\ Text(m, s).type = "message" /\ Text(m, s).id = m
         /\ Text(m, s).encrypted = s
         /\ \A n \in Msg : Text(m, s) # Delivered(n)
         /\ \A S \in SUBSET Msg : Text(m, s) # ReadIds(S)
         /\ Text(m, s) # KeyExchange
<1>1. Text(m, s).type = "message" /\ KeyExchange.type = "key_exchange"
  BY DEF Text, KeyExchange
<1>2. \A n \in Msg : Delivered(n).type = "message_delivered"
  BY DEF Delivered
<1>3. \A S \in SUBSET Msg : ReadIds(S).type = "messages_read"
  BY DEF ReadIds
<1>4. QED BY <1>1, <1>2, <1>3 DEF Text

\* Two texts are the same only for one message, sealed or not.
LEMMA SealedText ==
  ASSUME NEW m \in Msg, NEW n \in Msg, NEW s \in BOOLEAN, Text(n, TRUE) = Text(m, s)
  PROVE  n = m /\ s
<1>1. Text(n, TRUE).id = n /\ Text(m, s).id = m
  BY DEF Text
<1>2. Text(n, TRUE).encrypted = TRUE /\ Text(m, s).encrypted = s
  BY DEF Text
<1>3. TRUE = s
  BY <1>2
<1>4. n = m
  BY <1>1
<1>5. QED BY <1>3, <1>4

\* No other payload has the type of a text.
LEMMA MessageLemma ==
  ASSUME NEW p \in Payload, p.type = "message"
  PROVE  \E m \in Msg, s \in BOOLEAN : p = Text(m, s)
<1>1. \A m \in Msg : Delivered(m).type = "message_delivered"
  BY DEF Delivered
<1>2. \A S \in SUBSET Msg : ReadIds(S).type = "messages_read"
  BY DEF ReadIds
<1>3. KeyExchange.type = "key_exchange"
  BY DEF KeyExchange
<1>4. QED BY <1>1, <1>2, <1>3 DEF Payload

LEMMA SendOneSubset ==
  ASSUME NEW w \in Wires, NEW u \in User, NEW v \in User, NEW p \in Payload
  PROVE  \A a, b \in User :
           ToSet(SendJson(w, u, v, p)[<<a, b>>]) \subseteq ToSet(w[<<a, b>>]) \cup {p}
<1>1. \A a, b \in User :
        ToSet(SendJson(w, u, v, p)[<<a, b>>])
          \subseteq ToSet(w[<<a, b>>])
              \cup (IF a = u /\ b = v /\ {u, v} \in link THEN {p} ELSE {})
  BY SendOneLemma
<1>2. QED BY <1>1

\* Sending loses nothing, and what is sent over a working link is in flight.
LEMMA SendAllKeeps ==
  ASSUME NEW w \in Wires, NEW u \in User, NEW v \in User, NEW ps \in Seq(Payload)
  PROVE  /\ \A a, b \in User : ToSet(w[<<a, b>>]) \subseteq ToSet(SendAll(w, u, v, ps)[<<a, b>>])
         /\ {u, v} \in link => ToSet(ps) \subseteq ToSet(SendAll(w, u, v, ps)[<<u, v>>])
<1>1. w[<<u, v>>] \in Seq(Payload)
  BY DEF Wires
<1>2. ToSet(w[<<u, v>>] \o ps) = ToSet(w[<<u, v>>]) \cup ToSet(ps)
  BY <1>1, ConcatLemma
<1>3. CASE {u, v} \notin link
  BY <1>3 DEF SendAll
<1>4. CASE {u, v} \in link
  <2>1. SendAll(w, u, v, ps) = [w EXCEPT ![<<u, v>>] = w[<<u, v>>] \o ps]
    BY <1>4 DEF SendAll
  <2>2. ASSUME NEW a \in User, NEW b \in User
        PROVE  SendAll(w, u, v, ps)[<<a, b>>] =
                 IF a = u /\ b = v THEN w[<<u, v>>] \o ps ELSE w[<<a, b>>]
    BY <2>1 DEF Wires
  <2>3. QED BY <1>2, <2>2
<1>5. QED BY <1>3, <1>4

LEMMA SendOneKeeps ==
  ASSUME NEW w \in Wires, NEW u \in User, NEW v \in User, NEW p \in Payload,
         NEW x, x = SendJson(w, u, v, p) \/ x = SendAll(w, u, v, <<p>>)
  PROVE  \A a, b \in User : ToSet(w[<<a, b>>]) \subseteq ToSet(x[<<a, b>>])
<1>1. <<p>> \in Seq(Payload)
  OBVIOUS
<1>2. QED BY <1>1, SendAllKeeps DEF SendJson

\* Receiving takes the first payload, and that one alone.
LEMMA TakenKeeps ==
  ASSUME wire \in Wires, NEW u \in User, NEW v \in User, wire[<<v, u>>] # <<>>
  PROVE  \A a, b \in User : \A q \in InFlight(a, b) :
           q \in ToSet(Taken(u, v)[<<a, b>>])
             \/ (a = v /\ b = u /\ q = Head(wire[<<v, u>>]))
<1>1. wire[<<v, u>>] \in Seq(Payload)
  BY DEF Wires
<1>2. ASSUME NEW a \in User, NEW b \in User
      PROVE  Taken(u, v)[<<a, b>>] =
               IF a = v /\ b = u THEN Tail(wire[<<v, u>>]) ELSE wire[<<a, b>>]
  BY DEF Taken, Wires
<1>3. \A q \in ToSet(wire[<<v, u>>]) :
        q \in ToSet(Tail(wire[<<v, u>>])) \/ q = Head(wire[<<v, u>>])
  <2> DEFINE s == wire[<<v, u>>]
  <2>1. PICK n \in Nat : n = Len(s)
    BY <1>1
  <2>2. n >= 1 /\ Head(s) = s[1] /\ DOMAIN Tail(s) = 1..(n - 1) /\ DOMAIN s = 1..n
    BY <1>1, <2>1
  <2>3. \A i \in 1..(n - 1) : Tail(s)[i] = s[i + 1]
    BY <1>1, <2>1
  <2>4. ASSUME NEW i \in 1..n, i # 1 PROVE s[i] \in ToSet(Tail(s))
    <3>1. i - 1 \in 1..(n - 1) /\ (i - 1) + 1 = i
      BY <2>4
    <3>2. Tail(s)[i - 1] = s[i]
      BY <2>3, <3>1
    <3>3. i - 1 \in DOMAIN Tail(s)
      BY <2>2, <3>1
    <3>4. QED BY <3>2, <3>3 DEF ToSet
  <2>5. \A i \in DOMAIN s : s[i] \in ToSet(Tail(s)) \/ s[i] = Head(s)
    BY <2>2, <2>4
  <2>6. QED BY <2>5 DEF ToSet
<1>4. QED BY <1>2, <1>3 DEF InFlight

\* _resend_pending sends every pending message.
LEMMA ResendsAll ==
  ASSUME NEW u \in User, NEW v \in User, NEW ps \in Resends(u, v),
         NEW m \in Pending(u, v)
  PROVE  Text(m, FALSE) \in ToSet(ps)
<1> DEFINE P == Pending(u, v)  n == Cardinality(P)
<1>1. IsFiniteSet(P) /\ n \in Nat
  BY FS_Subset, FS_CardinalityType, FiniteAssumption DEF Pending
<1>2. PICK s \in SetToSeqs(P) : ps = [i \in DOMAIN s |-> Text(s[i], FALSE)]
  BY DEF Resends
<1>3. s \in Injection(1..n, P)
  BY <1>2 DEF SetToSeqs, Injection, IsInjective
<1>4. IsFiniteSet(1..n) /\ Cardinality(1..n) = n
  BY <1>1, FS_Interval
<1>5. s \in Surjection(1..n, P)
  BY <1>1, <1>3, <1>4, FS_Injection
<1>6. PICK i \in 1..n : s[i] = m
  BY <1>5 DEF Surjection
<1>7. DOMAIN s = 1..n
  BY <1>2 DEF SetToSeqs
<1>8. ps \in [1..n -> {Text(k, FALSE) : k \in P}] /\ ps[i] = Text(m, FALSE)
  BY <1>2, <1>5, <1>6, <1>7 DEF Surjection
<1>9. DOMAIN ps = 1..n
  BY <1>8
<1>10. Len(ps) = n
  BY <1>1, <1>9
<1>11. QED BY <1>8, <1>10 DEF ToSet

\* A step that takes no text away, adds none that is not sealed in its
\* sender's history, and moves no message into the history.
LEMMA StrandKeep ==
  ASSUME TypeOK, StrandInv,
         \A m \in Msg : stage'[m] = "saved" => stage[m] = "saved",
         Received \subseteq Received',
         WasSealed \subseteq WasSealed', sealed' \subseteq Saved',
         \A a, b \in User : a # b /\ Working(a, b)' => Working(a, b),
         \A m \in Msg : \A s \in BOOLEAN :
           /\ Working(Sender[m], Receiver[m])'
           /\ Text(m, s) \in InFlight(Sender[m], Receiver[m])
           => Text(m, s) \in InFlight(Sender[m], Receiver[m])'
                \/ m \in Received' \/ m \in WasSealed',
         \A a, b \in User : \A m \in Msg :
           Text(m, TRUE) \in InFlight(a, b)' => Text(m, TRUE) \in InFlight(a, b) \/ m \in WasSealed'
  PROVE  StrandInv'
<1>1. NoneStranded'
  <2>1. SUFFICES ASSUME NEW m \in Msg, stage'[m] = "saved",
                        Working(Sender[m], Receiver[m])'
                 PROVE  m \in Received' \/ OnItsWay(m)' \/ m \in sealed'
    BY DEF NoneStranded
  <2>2. Sender[m] \in User /\ Receiver[m] \in User /\ Sender[m] # Receiver[m]
    BY EndpointsAssumption
  <2>3. m \in Received \/ OnItsWay(m) \/ m \in WasSealed
    BY <2>1, <2>2 DEF StrandInv, NoneStranded, WasSealed
  <2>4. m \in WasSealed' => m \in sealed'
    BY <2>1 DEF WasSealed
  <2>5. CASE OnItsWay(m)
    BY <2>1, <2>4, <2>5 DEF OnItsWay
  <2>6. QED BY <2>3, <2>4, <2>5
<1>2. SealedInv'
  BY DEF StrandInv, SealedInv
<1>3. QED BY <1>1, <1>2 DEF StrandInv

\* A step on channels and coroutines that stay as they are.
LEMMA WorkingKeep ==
  ASSUME UNCHANGED <<open, link, resendDue>>
  PROVE  \A a, b : Working(a, b)' <=> Working(a, b)
BY DEF Working

\* A step that sends the one payload q from u to v, at most, and is not the
\* end of a send_message.
LEMMA StrandSend ==
  ASSUME TypeOK, StrandInv, NEW u \in User, NEW v \in User, NEW q \in Payload,
         \A m \in Msg, s \in BOOLEAN : q # Text(m, s),
         wire' = wire \/ wire' = SendJson(wire, u, v, q),
         SameRows, UNCHANGED <<rows, erased, sealed, open, link, resendDue>>
  PROVE  StrandInv'
<1>1. wire \in Wires
  BY WireFewer
<1>2. \A a, b \in User : InFlight(a, b) \subseteq InFlight(a, b)'
  BY <1>1, SendOneKeeps DEF InFlight
<1>3. \A a, b \in User : InFlight(a, b)' \subseteq InFlight(a, b) \cup {q}
  <2>1. CASE wire' = wire
    BY <2>1 DEF InFlight
  <2>2. CASE wire' = SendJson(wire, u, v, q)
    BY <1>1, <2>2, SendOneSubset DEF InFlight
  <2>3. QED BY <2>1, <2>2
<1>4. \A a, b \in User : \A m \in Msg :
        Text(m, TRUE) \in InFlight(a, b)' => Text(m, TRUE) \in InFlight(a, b)
  BY <1>3
<1>5. \A a, b \in User : Working(a, b)' => Working(a, b)
  BY WorkingKeep
<1>6. \A m \in Msg : Sender[m] \in User /\ Receiver[m] \in User
  BY EndpointsAssumption
<1>7. /\ Received' = Received /\ WasSealed' = WasSealed /\ sealed' \subseteq Saved'
      /\ \A m \in Msg : stage'[m] = "saved" => stage[m] = "saved"
  BY SameLemma DEF Received, WasSealed, SameRows, Rowed, StrandInv, SealedInv
<1>8. QED BY <1>2, <1>4, <1>5, <1>6, <1>7, StrandKeep

LEMMA StrandTransmit ==
  ASSUME TypeOK, StrandInv, NEW m \in Msg, Transmit(m), stage[m] \notin Rowed
  PROVE  StrandInv'
<1> DEFINE u == Sender[m]  v == Receiver[m]
<1>1. u \in User /\ v \in User
  BY EndpointsAssumption
<1>2. PICK s \in BOOLEAN : s = CanSeal(u, v)
  BY DEF CanSeal
<1>3. PICK q \in Payload : q = Text(m, s)
  BY PayloadLemma
<1>4. wire \in Wires /\ <<q>> \in Seq(Payload) /\ ToSet(<<q>>) = {q}
  BY WireFewer DEF ToSet
<1>5. wire' = SendAll(wire, u, v, <<q>>)
  BY <1>2, <1>3 DEF Transmit, Send
<1>6. /\ sealed' = IF s THEN sealed \cup {m} ELSE sealed
      /\ stage' = [stage EXCEPT ![m] = "saved"]
      /\ UNCHANGED <<rows, erased>>
      /\ UNCHANGED <<open, link, resendDue>>
  BY <1>2 DEF Transmit, channels, tasks, erasures
<1>w. /\ Received' = Received /\ WasSealed \subseteq WasSealed'
      /\ s => m \in WasSealed'
      /\ sealed' \subseteq Saved'
  BY <1>6 DEF Received, WasSealed, TypeOK, Rowed, Saved, StrandInv, SealedInv
<1>7. /\ \A a, b \in User : InFlight(a, b) \subseteq InFlight(a, b)'
      /\ {u, v} \in link => q \in InFlight(u, v)'
  BY <1>1, <1>4, <1>5, SendAllKeeps DEF InFlight
<1>8. \A a, b \in User : InFlight(a, b)' \subseteq InFlight(a, b) \cup {q}
  BY <1>1, <1>4, <1>5, SendOneLemma DEF InFlight
<1>9. NoneStranded'
  <2>1. SUFFICES ASSUME NEW n \in Msg, stage'[n] = "saved",
                        Working(Sender[n], Receiver[n])'
                 PROVE  n \in Received' \/ OnItsWay(n)' \/ n \in sealed'
    BY DEF NoneStranded
  <2>2. Working(Sender[n], Receiver[n])
    BY <1>6, <2>1, WorkingKeep
  <2>3. CASE n = m
    <3>1. {u, v} \in link
      BY <2>2, <2>3 DEF Working
    <3>2. Text(m, s) \in InFlight(u, v)'
      BY <1>3, <1>7, <3>1
    <3>3. QED BY <2>3, <3>2 DEF OnItsWay
  <2>4. CASE n # m
    <3>1. stage[n] = "saved"
      BY <1>6, <2>1, <2>4 DEF TypeOK
    <3>2. n \in Received \/ OnItsWay(n) \/ n \in sealed
      BY <2>2, <3>1 DEF StrandInv, NoneStranded
    <3>3. Sender[n] \in User /\ Receiver[n] \in User
      BY EndpointsAssumption
    <3>4. OnItsWay(n) => OnItsWay(n)'
      BY <1>7, <3>3 DEF OnItsWay
    <3>5. QED BY <1>6, <1>w, <3>2, <3>4
  <2>5. QED BY <2>3, <2>4
<1>10. SealedInv'
  <2>1. SUFFICES ASSUME NEW a \in User, NEW b \in User, NEW n \in Msg,
                        Text(n, TRUE) \in InFlight(a, b)'
                 PROVE  n \in WasSealed'
    BY <1>w DEF SealedInv
  <2>2. CASE Text(n, TRUE) \in InFlight(a, b)
    BY <1>w, <2>2 DEF StrandInv, SealedInv
  <2>3. CASE Text(n, TRUE) = q
    <3>1. n = m /\ s
      <4>1. Text(n, TRUE) = Text(m, s)
        BY <1>3, <2>3
      <4>2. QED BY <4>1, SealedText
    <3>2. QED BY <1>w, <3>1
  <2>4. QED BY <1>8, <2>1, <2>2, <2>3
<1>11. QED BY <1>9, <1>10 DEF StrandInv

LEMMA StrandSending ==
  ASSUME TypeOK, StrandInv, NEW m \in Msg,
         Compose(m) \/ ComposeOffline(m) \/ Sending(m)
  PROVE  StrandInv'
<1>0. stage[m] \notin Rowed
  BY DEF Compose, ComposeOffline, Sending, Connected, KeyWaitEnds, SendFails, Rowed
<1>1. CASE Transmit(m)
  BY <1>0, <1>1, StrandTransmit
<1>2. CASE AwaitPeerKey(m) \/ ComposeOffline(m) \/ SendFails(m)
  <2>1. SameRows
    BY <1>0, <1>2 DEF AwaitPeerKey, ComposeOffline, SendFails, TypeOK, SameRows, Rowed
  <2>2. UNCHANGED <<rows, erased, sealed, open, link, resendDue>>
    BY <1>2 DEF AwaitPeerKey, ComposeOffline, SendFails, tasks, channels, erasures
  <2>3. wire' = wire \/ wire' = SendJson(wire, Sender[m], Receiver[m], KeyExchange)
    BY <1>2 DEF AwaitPeerKey, ComposeOffline, SendFails
  <2>4. Sender[m] \in User /\ Receiver[m] \in User
    BY EndpointsAssumption
  <2>5. QED BY <2>1, <2>2, <2>3, <2>4, TextLemma, PayloadLemma, StrandSend
<1>3. QED
  BY <1>1, <1>2 DEF Compose, Connected, KeyWaitEnds, Sending, Proceed

LEMMA StrandHandle ==
  ASSUME TypeOK, StrandInv, NEW u \in User, NEW v \in User, Handle(u, v)
  PROVE  StrandInv'
<1> DEFINE p == Head(wire[<<v, u>>])
<1>1. wire[<<v, u>>] # <<>>
  BY DEF Handle, HandleMessage, HandleDelivered, HandleMessagesRead,
     HandleKeyExchange, Incoming
<1>2. /\ wire \in Wires /\ Taken(u, v) \in Wires /\ Fewer(Taken(u, v))
      /\ p \in Payload /\ p \in InFlight(v, u)
  BY <1>1, WireFewer, TakenFewer, TakenLemma
<1>3. \A a, b \in User : \A q \in InFlight(a, b) :
        q \in ToSet(Taken(u, v)[<<a, b>>]) \/ q = p
  <2>1. \A a, b \in User : \A q \in InFlight(a, b) :
          q \in ToSet(Taken(u, v)[<<a, b>>])
            \/ (a = v /\ b = u /\ q = Head(wire[<<v, u>>]))
    BY <1>1, <1>2, TakenKeeps
  <2>2. QED BY <2>1
<1>4. /\ UNCHANGED <<stage, sealed, erased>>
      /\ UNCHANGED <<open, link, resendDue>>
  BY DEF Handle, HandleMessage, HandleDelivered, HandleMessagesRead,
     HandleKeyExchange, history, tasks, channels, erasures
<1>w. WasSealed' = WasSealed /\ sealed' \subseteq Saved'
  BY <1>4 DEF WasSealed, Saved, StrandInv, SealedInv
<1>5. \A a, b \in User : Working(a, b)' => Working(a, b)
  BY <1>4, WorkingKeep
<1>6. \A m \in Msg : Sender[m] \in User /\ Receiver[m] \in User
  BY EndpointsAssumption
<1>7. CASE HandleMessage(u, v)
  <2>1. PICK id \in Msg : id = p.id
    BY <1>2, <1>7, FieldsLemma DEF HandleMessage, Incoming
  <2>2. /\ \A a, b \in User : ToSet(Taken(u, v)[<<a, b>>]) \subseteq InFlight(a, b)'
        /\ \A a, b \in User : InFlight(a, b)' \subseteq InFlight(a, b) \cup {Delivered(id)}
    <3>1. CASE wire' = Taken(u, v)
      BY <1>2, <3>1 DEF Fewer, InFlight
    <3>2. CASE wire' = SendJson(Taken(u, v), u, v, Delivered(id))
      <4>1. /\ Taken(u, v) \in Wires /\ Delivered(id) \in Payload
            /\ \A a, b \in User : ToSet(Taken(u, v)[<<a, b>>]) \subseteq InFlight(a, b)
        BY <1>2, PayloadLemma DEF Fewer
      <4>2. \A a, b \in User : ToSet(Taken(u, v)[<<a, b>>]) \subseteq InFlight(a, b)'
        <5>1. \A a, b \in User :
                ToSet(Taken(u, v)[<<a, b>>]) \subseteq ToSet(wire'[<<a, b>>])
          <6>1. PICK w \in Wires : w = Taken(u, v)
            BY <4>1
          <6>2. PICK q \in Payload : q = Delivered(id)
            BY <4>1
          <6>3. wire' = SendJson(w, u, v, q)
            BY <3>2, <6>1, <6>2
          <6>4. \A a, b \in User : ToSet(w[<<a, b>>]) \subseteq ToSet(wire'[<<a, b>>])
            BY <6>3, SendOneKeeps
          <6>5. QED BY <6>1, <6>4
        <5>2. QED BY <5>1 DEF InFlight
      <4>3. \A a, b \in User :
              InFlight(a, b)' \subseteq ToSet(Taken(u, v)[<<a, b>>]) \cup {Delivered(id)}
        BY <3>2, <4>1, SendOneSubset DEF InFlight
      <4>4. QED BY <4>1, <4>2, <4>3
    <3>3. QED BY <1>7, <2>1, <3>1, <3>2 DEF HandleMessage
  <2>3. Received \subseteq Received' /\ (id \in Received' \/ id \in WasSealed)
    <3>1. CASE rows' = [rows EXCEPT ![id] = @ + 1]
      BY <1>4, <3>1 DEF TypeOK, Received
    <3>2. CASE UNCHANGED rows /\ ~Acceptable(u, v, p)
      <4>1. CASE rows[id] # 0
        BY <1>4, <3>2, <4>1 DEF TypeOK, Received
      <4>2. CASE rows[id] = 0
        <5>1. p.encrypted /\ p.type = "message"
          BY <1>7, <2>1, <3>2, <4>2 DEF Acceptable, HandleMessage, Incoming
        <5>2. PICK m \in Msg, s \in BOOLEAN : p = Text(m, s)
          BY <1>2, <5>1, MessageLemma
        <5>3. m = id /\ s
          BY <2>1, <5>1, <5>2, TextLemma
        <5>4. Text(m, TRUE) \in InFlight(v, u)
          <6>1. s = TRUE
            BY <5>3
          <6>2. Text(m, TRUE) = p
            BY <5>2, <6>1
          <6>3. QED BY <1>2, <6>2
        <5>5. QED BY <1>4, <3>2, <5>3, <5>4 DEF StrandInv, SealedInv, Received
      <4>3. QED BY <4>1, <4>2
    <3>3. QED BY <1>7, <2>1, <3>1, <3>2 DEF HandleMessage
  <2>4. \A m \in Msg : \A s \in BOOLEAN :
          Text(m, s) \in InFlight(Sender[m], Receiver[m])
            => Text(m, s) \in InFlight(Sender[m], Receiver[m])'
                 \/ m \in Received' \/ m \in WasSealed'
    <3>1. SUFFICES ASSUME NEW m \in Msg, NEW s \in BOOLEAN,
                          Text(m, s) \in InFlight(Sender[m], Receiver[m]),
                          Text(m, s) = p
                   PROVE  m \in Received' \/ m \in WasSealed'
      BY <1>3, <1>6, <2>2
    <3>2. m = id
      BY <2>1, <3>1, TextLemma
    <3>3. QED BY <1>w, <2>3, <3>2
  <2>5. \A a, b \in User : \A m \in Msg :
          Text(m, TRUE) \in InFlight(a, b)' => Text(m, TRUE) \in InFlight(a, b)
    BY <2>2, TextLemma
  <2>6. QED BY <1>4, <1>5, <1>w, <2>3, <2>4, <2>5, StrandKeep
<1>8. CASE HandleDelivered(u, v) \/ HandleMessagesRead(u, v) \/ HandleKeyExchange(u, v)
  <2>1. wire' = Taken(u, v) /\ UNCHANGED rows /\ p.type # "message"
    BY <1>8 DEF HandleDelivered, HandleMessagesRead, HandleKeyExchange, Incoming, history
  <2>2. \A m \in Msg, s \in BOOLEAN : Text(m, s) # p
    BY <2>1, TextLemma
  <2>3. \A m \in Msg : \A s \in BOOLEAN :
          Text(m, s) \in InFlight(Sender[m], Receiver[m])
            => Text(m, s) \in InFlight(Sender[m], Receiver[m])'
    BY <1>3, <1>6, <2>1, <2>2 DEF InFlight
  <2>4. \A a, b \in User : InFlight(a, b)' \subseteq InFlight(a, b)
    BY <1>2, <2>1 DEF Fewer, InFlight
  <2>5. Received' = Received
    BY <1>4, <2>1 DEF Received
  <2>6. QED BY <1>4, <1>5, <1>w, <2>3, <2>4, <2>5, StrandKeep
<1>9. QED BY <1>7, <1>8 DEF Handle

\* Once _resend_pending has run on a working channel, all that was pending is
\* in flight; what is not pending was confirmed, so it is stored.
LEMMA StrandResend ==
  ASSUME IInv, StrandInv, NEW u \in User, NEW v \in User, ResendPending(u, v)
  PROVE  StrandInv'
<1>1. /\ UNCHANGED history /\ UNCHANGED <<open, link>>
      /\ resendDue' = [resendDue EXCEPT ![u] = @ \ {v}]
      /\ wire \in Wires
  BY WireFewer DEF ResendPending, channels, IInv
<1>2. UNCHANGED <<stage, sealed, Received, WasSealed, Saved>>
  BY <1>1 DEF history, erasures, Received, WasSealed, Saved
<1>3. \A a, b \in User : Working(a, b)' => Working(a, b) \/ (a = u /\ b = v)
  BY <1>1 DEF Working, IInv, TypeOK
<1>4. /\ \A a, b \in User : InFlight(a, b) \subseteq InFlight(a, b)'
      /\ \A a, b \in User : \A m \in Msg :
           Text(m, TRUE) \in InFlight(a, b)' => Text(m, TRUE) \in InFlight(a, b)
      /\ Working(u, v)' => \A m \in Pending(u, v) : Text(m, FALSE) \in InFlight(u, v)'
  <2>1. CASE v \notin open[u] /\ UNCHANGED wire
    BY <1>1, <2>1 DEF InFlight, Working
  <2>2. CASE \E ps \in Resends(u, v) : wire' = SendAll(wire, u, v, ps)
    <3>1. PICK ps \in Resends(u, v) : wire' = SendAll(wire, u, v, ps)
      BY <2>2
    <3>2. /\ ps \in Seq(Payload)
          /\ \A p \in ToSet(ps) : \E m \in Pending(u, v) : p = Text(m, FALSE)
      BY ResendsLemma
    <3>3. \A p \in ToSet(ps) : ~p.encrypted
      BY <3>2, TextLemma DEF Pending
    <3>4. \A a, b \in User : InFlight(a, b)' \subseteq InFlight(a, b) \cup ToSet(ps)
      BY <1>1, <3>1, <3>2, SendAllLemma DEF InFlight
    <3>5. \A a, b \in User : \A m \in Msg :
            Text(m, TRUE) \in InFlight(a, b)' => Text(m, TRUE) \in InFlight(a, b)
      BY <3>3, <3>4, TextLemma
    <3>6. /\ \A a, b \in User : InFlight(a, b) \subseteq InFlight(a, b)'
          /\ {u, v} \in link => ToSet(ps) \subseteq InFlight(u, v)'
      BY <1>1, <3>1, <3>2, SendAllKeeps DEF InFlight
    <3>7. Working(u, v)' => {u, v} \in link
      BY <1>1 DEF Working
    <3>8. QED BY <3>5, <3>6, <3>7, ResendsAll
  <2>3. QED BY <2>1, <2>2 DEF ResendPending
<1>5. NoneStranded'
  <2>1. SUFFICES ASSUME NEW m \in Msg, stage'[m] = "saved",
                        Working(Sender[m], Receiver[m])'
                 PROVE  m \in Received' \/ OnItsWay(m)' \/ m \in sealed'
    BY DEF NoneStranded
  <2>2. Sender[m] \in User /\ Receiver[m] \in User
    BY EndpointsAssumption
  <2>3. CASE Working(Sender[m], Receiver[m])
    <3>1. m \in Received \/ OnItsWay(m) \/ m \in sealed
      BY <1>2, <2>1, <2>3 DEF StrandInv, NoneStranded
    <3>2. OnItsWay(m) => OnItsWay(m)'
      BY <1>4, <2>2 DEF OnItsWay
    <3>3. QED BY <1>2, <3>1, <3>2
  <2>4. CASE Sender[m] = u /\ Receiver[m] = v
    <3>1. CASE m \in delivered
      BY <1>2, <3>1 DEF IInv, MarksInv
    <3>2. CASE m \notin delivered
      <4>1. m \in Pending(u, v)
        BY <1>2, <2>1, <2>4, <3>2 DEF Pending
      <4>2. Text(m, FALSE) \in InFlight(Sender[m], Receiver[m])'
        BY <1>4, <2>1, <2>4, <4>1
      <4>3. QED BY <4>2 DEF OnItsWay
    <3>3. QED BY <3>1, <3>2
  <2>5. QED BY <1>3, <2>1, <2>2, <2>3, <2>4
<1>6. SealedInv'
  BY <1>2, <1>4 DEF StrandInv, SealedInv
<1>7. QED BY <1>5, <1>6 DEF StrandInv

LEMMA StrandBackground ==
  ASSUME IInv, StrandInv, NEW u \in User, NEW v \in User,
         Background(u, v) \/ MarkConversationRead(u, v)
  PROVE  StrandInv'
<1>1. CASE ResendPending(u, v)
  BY <1>1, StrandResend
<1>2. CASE SendKeyExchange(u, v)
  <2>1. SameRows /\ UNCHANGED <<rows, erased, sealed, open, link, resendDue>>
    BY <1>2 DEF SendKeyExchange, history, erasures, channels, SameRows
  <2>2. wire' = wire \/ wire' = SendJson(wire, u, v, KeyExchange)
    BY <1>2 DEF SendKeyExchange
  <2>3. QED BY <2>1, <2>2, TextLemma, PayloadLemma, StrandSend DEF IInv
<1>3. CASE MarkConversationRead(u, v)
  <2>1. PICK S \in SUBSET Msg : S = UnreadFrom(u, v)
    BY DEF UnreadFrom
  <2>2. SameRows /\ UNCHANGED <<rows, erased, sealed, open, link, resendDue>>
    BY <1>3 DEF MarkConversationRead, erasures, tasks, channels, SameRows
  <2>3. wire' = SendJson(wire, u, v, ReadIds(S))
    BY <1>3, <2>1 DEF MarkConversationRead
  <2>4. QED BY <2>2, <2>3, TextLemma, PayloadLemma, StrandSend DEF IInv
<1>4. QED BY <1>1, <1>2, <1>3 DEF Background

\* A connection that starts works for nobody until its channels open, and one
\* that ends takes only its own payloads along.
LEMMA StrandChannel ==
  ASSUME TypeOK, StrandInv, NEW u \in User, NEW v \in User,
         Connect(u, v) \/ ChannelOpens(u, v) \/ LinkBreaks(u, v)
           \/ ChannelCloses(u, v) \/ Restart(u)
  PROVE  StrandInv'
<1>0. SameRows /\ UNCHANGED <<rows, erased, sealed>>
  BY DEF Connect, ChannelOpens, LinkBreaks, ChannelCloses, Restart, history,
     erasures, Orphan, Abandon, SameRows, Rowed
<1>1. /\ Received' = Received /\ WasSealed' = WasSealed /\ sealed' \subseteq Saved'
      /\ \A m \in Msg : stage'[m] = "saved" => stage[m] = "saved"
  BY <1>0, SameLemma DEF Received, WasSealed, SameRows, Rowed, StrandInv, SealedInv
<1>2. /\ \A a, b \in User : a # b /\ Working(a, b)' => Working(a, b)
      /\ \A a, b \in User : Working(a, b)' => wire'[<<a, b>>] = wire[<<a, b>>]
      /\ \A a, b \in User : wire'[<<a, b>>] \in {wire[<<a, b>>], <<>>}
  <2>1. CASE Connect(u, v)
    <3>1. /\ link' = link \cup {{u, v}} /\ v \notin open[u] /\ u \notin open[v]
          /\ UNCHANGED <<open, resendDue, wire>>
      BY <2>1 DEF Connect, tasks
    <3>2. \A a, b \in User : {a, b} = {u, v} => (a = u /\ b = v) \/ (a = v /\ b = u)
      OBVIOUS
    <3>3. QED BY <3>1, <3>2 DEF Working
  <2>2. CASE ChannelOpens(u, v)
    <3>1. /\ open' = [open EXCEPT ![u] = @ \cup {v}]
          /\ resendDue' = [resendDue EXCEPT ![u] = @ \cup {v}]
          /\ UNCHANGED <<link, wire>>
      BY <2>2 DEF ChannelOpens
    <3>2. /\ \A a \in User : a # u => open'[a] = open[a] /\ resendDue'[a] = resendDue[a]
          /\ open'[u] = open[u] \cup {v} /\ resendDue'[u] = resendDue[u] \cup {v}
      BY <3>1 DEF TypeOK
    <3>3. \A a, b \in User : Working(a, b)' => Working(a, b)
      BY <3>1, <3>2 DEF Working
    <3>4. QED BY <3>1, <3>3
  <2>3. CASE LinkBreaks(u, v)
    <3>1. /\ link' = link \ {{u, v}} /\ UNCHANGED <<open, resendDue>>
          /\ wire' = [wire EXCEPT ![<<u, v>>] = <<>>, ![<<v, u>>] = <<>>]
      BY <2>3 DEF LinkBreaks, tasks
    <3>2. \A a, b \in User :
            wire'[<<a, b>>] = IF (a = u /\ b = v) \/ (a = v /\ b = u)
                              THEN <<>> ELSE wire[<<a, b>>]
      BY <3>1 DEF TypeOK
    <3>3. \A a, b \in User : Working(a, b)' => Working(a, b) /\ {a, b} # {u, v}
      BY <3>1 DEF Working
    <3>4. {u, v} = {v, u}
      OBVIOUS
    <3>5. QED BY <3>2, <3>3, <3>4
  <2>4. CASE ChannelCloses(u, v)
    <3>1. /\ link' = link \ {{u, v}} /\ UNCHANGED resendDue
          /\ open' = [open EXCEPT ![u] = @ \ {v}]
          /\ wire' = Unread(wire, u, v)
      BY <2>4 DEF ChannelCloses, tasks
    <3>2. \A a, b \in User :
            wire'[<<a, b>>] = IF (a = v /\ b = u) \/ (a = u /\ b = v /\ u \notin open[v])
                              THEN <<>> ELSE wire[<<a, b>>]
      BY <3>1 DEF Unread
    <3>3. \A a \in User : open'[a] \subseteq open[a]
      BY <3>1 DEF TypeOK
    <3>4. \A a, b \in User : Working(a, b)' => Working(a, b) /\ {a, b} # {u, v}
      BY <3>1, <3>3 DEF Working
    <3>5. {u, v} = {v, u}
      OBVIOUS
    <3>6. QED BY <3>2, <3>4, <3>5
  <2>5. CASE Restart(u)
    <3>1. /\ open' = [open EXCEPT ![u] = {}]
          /\ link' = {l \in link : u \notin l}
          /\ resendDue' = [resendDue EXCEPT ![u] = {}]
      BY <2>5 DEF Restart
    <3>2. \A a, b \in User :
            wire'[<<a, b>>] = IF b = u \/ (a = u /\ u \notin open[b])
                              THEN <<>> ELSE wire[<<a, b>>]
      BY <2>5 DEF Restart
    <3>3. \A a \in User : a # u => open'[a] = open[a] /\ resendDue'[a] = resendDue[a]
      BY <3>1 DEF TypeOK
    <3>4. \A a, b \in User : Working(a, b)' => {a, b} \in link /\ a # u /\ b # u
      BY <3>1 DEF Working
    <3>5. \A a, b \in User : Working(a, b)' => Working(a, b)
      BY <3>3, <3>4 DEF Working
    <3>6. QED BY <3>2, <3>4, <3>5
  <2>6. QED BY <2>1, <2>2, <2>3, <2>4, <2>5
<1>3. \A m \in Msg : Sender[m] \in User /\ Receiver[m] \in User
  BY EndpointsAssumption
<1>4. \A m \in Msg : Working(Sender[m], Receiver[m])' =>
        InFlight(Sender[m], Receiver[m])' = InFlight(Sender[m], Receiver[m])
  BY <1>2, <1>3 DEF InFlight
<1>5. \A a, b \in User : InFlight(a, b)' \subseteq InFlight(a, b)
  <2>1. ToSet(<<>>) = {}
    BY DEF ToSet
  <2>2. QED BY <1>2, <2>1 DEF InFlight
<1>6. QED BY <1>1, <1>2, <1>4, <1>5, StrandKeep

\* Deleting a conversation takes no payload away: what was in flight still is.
LEMMA StrandDelete ==
  ASSUME IInv, StrandInv, NEW u \in User, NEW v \in User, DeleteConversation(u, v)
  PROVE  StrandInv'
<1>1. /\ stage' = [m \in Msg |-> IF m \in Between(u, v) \cap Saved
                                 THEN "deleted" ELSE stage[m]]
      /\ rows' = [m \in Msg |-> IF m \in Between(v, u) THEN 0 ELSE rows[m]]
      /\ sealed' = sealed \ Between(u, v)
      /\ erased' = erased \cup {m \in Between(v, u) : rows[m] > 0}
      /\ UNCHANGED <<open, link, resendDue, wire>>
  BY DEF DeleteConversation, tasks, channels
<1>2. Received \subseteq Received'
  BY <1>1 DEF Received
<1>3. \A a, b \in User : InFlight(a, b)' = InFlight(a, b)
  BY <1>1 DEF InFlight
<1>4. \A a, b \in User : Working(a, b)' => Working(a, b)
  BY <1>1, WorkingKeep
<1>5. \A m \in Msg : stage'[m] = "saved" => stage[m] = "saved" /\ m \notin Between(u, v)
  BY <1>1 DEF Saved
<1>6. \A m \in Msg : Sender[m] \in User /\ Receiver[m] \in User
  BY EndpointsAssumption
<1>7. WasSealed \subseteq WasSealed' /\ sealed' \subseteq Saved'
  BY <1>1 DEF WasSealed, Saved, StrandInv, SealedInv
<1>8. QED BY <1>2, <1>3, <1>4, <1>5, <1>6, <1>7, StrandKeep DEF IInv

LEMMA StrandInit == Init => StrandInv
<1> SUFFICES ASSUME Init PROVE StrandInv
  OBVIOUS
<1>1. \A a, b \in User : InFlight(a, b) = {}
  BY DEF Init, InFlight, ToSet
<1>2. QED BY <1>1 DEF Init, StrandInv, NoneStranded, SealedInv, Saved

LEMMA StrandNext == IInv /\ StrandInv /\ [Next]_vars => StrandInv'
<1> SUFFICES ASSUME IInv, StrandInv, [Next]_vars PROVE StrandInv'
  OBVIOUS
<1>0. TypeOK
  BY DEF IInv
<1>1. CASE UNCHANGED vars
  <2>1. UNCHANGED <<stage, rows, erased, sealed, open, link, resendDue, wire>>
    BY <1>1 DEF vars, history, erasures, tasks, channels
  <2>2. \A a, b \in User : InFlight(a, b)' = InFlight(a, b)
    BY <2>1 DEF InFlight
  <2>3. QED
    BY <2>1, <2>2 DEF StrandInv, NoneStranded, SealedInv, OnItsWay, Working, InFlight,
                      Received, WasSealed, Saved
<1>2. CASE Next
  BY <1>0, <1>2, StrandSending, StrandHandle, StrandBackground, StrandChannel,
     StrandDelete DEF Next
<1>3. QED BY <1>1, <1>2

\* No message of a sender's history is forgotten on a connection that works:
\* it is stored, on its way, or was sealed.
THEOREM NothingStranded == Spec => []NoneStranded
<1>1. StrandInv => NoneStranded
  BY DEF StrandInv
<1>2. QED BY <1>1, StrandInit, StrandNext, Safe, PTL DEF Spec

=============================================================================
