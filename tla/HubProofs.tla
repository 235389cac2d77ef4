----------------------------- MODULE HubProofs ------------------------------
(***************************************************************************)
(* Theorems about Hub, for any users, sockets, queue limit and events.     *)
(***************************************************************************)
EXTENDS Hub, TLAPS

-----------------------------------------------------------------------------
(* A handler at work has its message at the head of the chain. *)

AtWork(s) ==
  /\ step[s] # "idle" => inbound[s] # <<>>
  /\ step[s] = "broadcast" => Is(s, "status")
  /\ step[s] = "check" => Is(s, "relay")

StepInv == \A s \in Socket : AtWork(s)

\* A socket with a user and an id stays in both maps until its close event.
TrackInv ==
  \A s \in claimed \cap Identified :
    sock[s] # "closed" => s \in connections[Owner[s]] /\ s \in registry

-----------------------------------------------------------------------------
(* Messages and events *)

LEMMA TailType ==
  ASSUME NEW S, NEW q \in Seq(S), q # <<>>
  PROVE  Tail(q) \in Seq(S)
OBVIOUS

LEMMA SingleType ==
  ASSUME NEW S, NEW m \in S
  PROVE  <<m>> \in Seq(S)
OBVIOUS

LEMMA AppendType ==
  ASSUME NEW S, NEW q \in Seq(S), NEW m \in S
  PROVE  /\ Append(q, m) \in Seq(S) /\ Append(q, m) # <<>>
         /\ q # <<>> => Head(Append(q, m)) = Head(q)
<1>1. Append(q, m) \in Seq(S) /\ Len(Append(q, m)) = Len(q) + 1 /\ Len(q) \in Nat
  OBVIOUS
<1>2. ASSUME q # <<>>
      PROVE  Append(q, m)[1] = q[1]
  BY <1>2
<1>3. QED BY <1>1, <1>2

LEMMA Read ==
  ASSUME NEW m \in Message
  PROVE  /\ m.type = "status" => m.status \in Status
         /\ m.type = "relay" => m.to \in User /\ m.n \in 1..MaxEvents
BY DEF Message

QueuesTyped == queue \in [User -> Seq(Event)] /\ \A v \in User : Len(queue[v]) <= MaxQueued

\* A full queue forgets its oldest event.
LEMMA EnqueueType ==
  ASSUME NEW q \in Seq(Event), NEW e \in Event
  PROVE  Enqueue(q, e) \in Seq(Event) /\ Len(Enqueue(q, e)) <= MaxQueued
<1> DEFINE all == Append(q, e)
<1>1. all \in Seq(Event) /\ Len(all) \in Nat
  OBVIOUS
<1>2. MaxQueued \in Nat
  BY BoundAssumption
<1>3. ASSUME Len(all) > MaxQueued
      PROVE  /\ SubSeq(all, Len(all) - MaxQueued + 1, Len(all)) \in Seq(Event)
             /\ Len(SubSeq(all, Len(all) - MaxQueued + 1, Len(all))) = MaxQueued
  <2> HIDE DEF all
  <2> DEFINE first == Len(all) - MaxQueued + 1
  <2>1. first \in 1..(Len(all) + 1)
    BY <1>1, <1>2, <1>3
  <2> HIDE DEF first
  <2>2. /\ SubSeq(all, first, Len(all)) \in Seq(Event)
        /\ Len(SubSeq(all, first, Len(all))) = Len(all) - first + 1
    BY <1>1, <2>1
  <2>3. Len(all) - first + 1 = MaxQueued
    BY <1>1, <1>2 DEF first
  <2>4. QED BY <2>2, <2>3 DEF first
<1> HIDE DEF all
<1>4. ASSUME ~(Len(all) > MaxQueued) PROVE Len(all) <= MaxQueued
  BY <1>1, <1>2, <1>4
<1>5. Enqueue(q, e) = IF Len(all) > MaxQueued
                      THEN SubSeq(all, Len(all) - MaxQueued + 1, Len(all)) ELSE all
  BY DEF Enqueue, all
<1>6. QED BY <1>1, <1>2, <1>3, <1>4, <1>5

LEMMA QueueType ==
  ASSUME TypeOK, NEW users, NEW e \in Event, Queue(users, e)
  PROVE  QueuesTyped'
<1>1. QueuesTyped
  BY DEF TypeOK, QueuesTyped
<1>2. \A v \in User : /\ Enqueue(queue[v], e) \in Seq(Event)
                      /\ Len(Enqueue(queue[v], e)) <= MaxQueued
  BY <1>1, EnqueueType DEF QueuesTyped
<1>3. QED BY <1>1, <1>2 DEF Queue, QueuesTyped

LEMMA BroadcastType ==
  ASSUME TypeOK, NEW u \in User, NEW st \in Status, Broadcast(u, st)
  PROVE  /\ QueuesTyped'
         /\ heard' \in [Socket -> [User -> Status \cup {"nothing"}]]
         /\ UNCHANGED <<ready, told>>
<1>1. QueuesTyped'
  <2>1. PICK e \in Event : e = [type |-> "presence", from |-> u, status |-> st]
    BY DEF Event
  <2>2. Queue(FriendsOf(u), e)
    BY <2>1 DEF Broadcast
  <2>3. QED BY <2>1, <2>2, QueueType
<1>2. heard' \in [Socket -> [User -> Status \cup {"nothing"}]]
  <2>1. \A s \in Socket : heard[s] \in [User -> Status \cup {"nothing"}]
    BY DEF TypeOK
  <2>2. \A s \in Socket : [heard[s] EXCEPT ![u] = st] \in [User -> Status \cup {"nothing"}]
    BY <2>1
  <2>3. QED BY <2>1, <2>2 DEF Broadcast
<1>3. QED BY <1>1, <1>2 DEF Broadcast

LEMMA RelayType ==
  ASSUME TypeOK, NEW s \in Socket, NEW m, m.to \in User, m.n \in 1..MaxEvents, Relay(s, m)
  PROVE  /\ QueuesTyped'
         /\ told' \in [Socket -> Seq(Told)]
         /\ UNCHANGED <<ready, heard>>
<1>1. QueuesTyped'
  <2>1. PICK e \in Event : e = [type |-> "relay", from |-> s, n |-> m.n]
    BY DEF Event
  <2>2. Queue({m.to}, e)
    BY <2>1 DEF Relay
  <2>3. QED BY <2>1, <2>2, QueueType
<1>2. told' \in [Socket -> Seq(Told)]
  <2>1. PICK e \in Event : e = [type |-> "relay", from |-> s, n |-> m.n]
    BY DEF Event
  <2>2. PICK t \in Told : t = [event |-> e, late |-> FALSE]
    BY DEF Told
  <2>3. \A r \in Socket : told[r] \in Seq(Told) /\ Append(told[r], t) \in Seq(Told)
    BY DEF TypeOK
  <2>4. QED BY <2>1, <2>2, <2>3 DEF Relay
<1>3. QED BY <1>1, <1>2 DEF Relay

-----------------------------------------------------------------------------
(* Steps of a handler *)

\* The socket whose handler moves is the only one with another message or stage.
LEMMA Stepped ==
  ASSUME TypeOK, StepInv, NEW s \in Socket, NEW q \in Seq(Message), NEW stage \in Stage,
         inbound' = [inbound EXCEPT ![s] = q], step' = [step EXCEPT ![s] = stage],
         stage # "idle" => q # <<>>,
         stage = "broadcast" => Head(q).type = "status",
         stage = "check" => Head(q).type = "relay"
  PROVE  /\ inbound' \in [Socket -> Seq(Message)] /\ step' \in [Socket -> Stage]
         /\ StepInv'
<1>1. inbound' \in [Socket -> Seq(Message)] /\ step' \in [Socket -> Stage]
  BY DEF TypeOK
<1>2. inbound'[s] = q /\ step'[s] = stage
  BY DEF TypeOK
<1>3. ASSUME NEW r \in Socket
      PROVE  AtWork(r)'
  <2>1. CASE r = s
    BY <1>2, <2>1 DEF AtWork, Is
  <2>2. CASE r # s
    <3>1. inbound'[r] = inbound[r] /\ step'[r] = step[r]
      BY <2>2 DEF TypeOK
    <3>2. QED BY <3>1 DEF StepInv, AtWork, Is
  <2>3. QED BY <2>1, <2>2
<1>4. QED BY <1>1, <1>3 DEF StepInv

\* A handler that ends drops its message.
LEMMA Finished ==
  ASSUME TypeOK, StepInv, NEW s \in Socket, step[s] # "idle", Done(s)
  PROVE  /\ inbound' \in [Socket -> Seq(Message)] /\ step' \in [Socket -> Stage]
         /\ StepInv'
<1>1. inbound[s] \in Seq(Message) /\ inbound[s] # <<>>
  BY DEF TypeOK, StepInv, AtWork
<1>2. PICK q \in Seq(Message) : q = Tail(inbound[s])
  BY <1>1, TailType
<1>3. inbound' = [inbound EXCEPT ![s] = q] /\ step' = [step EXCEPT ![s] = "idle"]
  BY <1>2 DEF Done, Goes
<1>4. "idle" \in Stage
  BY DEF Stage
<1>5. QED BY <1>3, <1>4, Stepped

\* A handler that goes on keeps its message.
LEMMA WentOn ==
  ASSUME TypeOK, StepInv, NEW s \in Socket, NEW stage \in Stage,
         Goes(s, stage), UNCHANGED inbound, inbound[s] # <<>>,
         stage = "broadcast" => Is(s, "status"), stage = "check" => Is(s, "relay")
  PROVE  /\ inbound' \in [Socket -> Seq(Message)] /\ step' \in [Socket -> Stage]
         /\ StepInv'
<1>1. PICK q \in Seq(Message) : q = inbound[s]
  BY DEF TypeOK
<1>2. inbound' = [inbound EXCEPT ![s] = q] /\ step' = [step EXCEPT ![s] = stage]
  BY <1>1 DEF Goes, TypeOK
<1>3. QED BY <1>1, <1>2, Stepped DEF Is

LEMMA Rested ==
  ASSUME TypeOK, StepInv, UNCHANGED <<inbound, step>>
  PROVE  /\ inbound' \in [Socket -> Seq(Message)] /\ step' \in [Socket -> Stage]
         /\ StepInv'
BY DEF TypeOK, StepInv, AtWork, Is

-----------------------------------------------------------------------------
(* Types, and the handlers' messages *)

IInv == TypeOK /\ StepInv

LEMMA StartsTyped == Init => IInv
<1>1. ASSUME Init
      PROVE  TypeOK
  BY <1>1, StatusAssumption, BoundAssumption
  DEF Init, TypeOK, State, Stage, NothingHeard, Message, Event, Told
<1>2. ASSUME Init
      PROVE  StepInv
  BY <1>2 DEF Init, StepInv, AtWork
<1>3. QED BY <1>1, <1>2 DEF IInv

LEMMA BecomesType ==
  ASSUME IInv, NEW s \in Socket, NEW state \in State, Becomes(s, state),
         inbound' \in [Socket -> Seq(Message)], step' \in [Socket -> Stage],
         events' \in 0..MaxEvents
  PROVE  TypeOK'
<1>1. sock' \in [Socket -> State] /\ ready' \in SUBSET Socket
  BY DEF IInv, TypeOK, Becomes
<1>2. told' \in [Socket -> Seq(Told)]
  <2>1. told' = [told EXCEPT ![s] = <<>>] /\ <<>> \in Seq(Told)
    BY DEF Becomes
  <2>2. QED BY <2>1 DEF IInv, TypeOK
<1>3. heard' \in [Socket -> [User -> Status \cup {"nothing"}]]
  <2>1. heard' = [heard EXCEPT ![s] = NothingHeard]
    BY DEF Becomes
  <2>2. NothingHeard \in [User -> Status \cup {"nothing"}]
    BY DEF NothingHeard
  <2>3. QED BY <2>1, <2>2 DEF IInv, TypeOK
<1>4. QED BY <1>1, <1>2, <1>3 DEF IInv, TypeOK, Becomes, tracking

LEMMA OpenKeeps ==
  ASSUME IInv, NEW s \in Socket, Open(s) \/ Hangup(s) \/ AuthTimeout(s) \/ Heartbeat(s)
  PROVE  IInv'
<1>1. PICK state \in State : Becomes(s, state)
  BY DEF Open, Hangup, AuthTimeout, Heartbeat, State
<1>2. UNCHANGED <<inbound, step, events>>
  BY DEF Open, Hangup, AuthTimeout, Heartbeat
<1>3. /\ inbound' \in [Socket -> Seq(Message)] /\ step' \in [Socket -> Stage]
      /\ StepInv'
  BY <1>2, Rested DEF IInv
<1>4. events' \in 0..MaxEvents
  BY <1>2 DEF IInv, TypeOK
<1>5. QED BY <1>1, <1>3, <1>4, BecomesType DEF IInv

LEMMA AuthenticateKeeps ==
  ASSUME IInv, NEW s \in Socket, Authenticate(s)
  PROVE  IInv'
<1>1. "user" \in Stage /\ "open" \in State
  BY DEF Stage, State
<1>2. PICK q \in Seq(Message) : q = <<[type |-> "auth"]>>
  <2>1. [type |-> "auth"] \in Message
    BY DEF Message
  <2>2. QED BY <2>1, SingleType
<1>3. inbound' = [inbound EXCEPT ![s] = q] /\ step' = [step EXCEPT ![s] = "user"]
  BY <1>2 DEF Authenticate, Goes
<1>4. q # <<>>
  BY <1>2
<1>5. /\ inbound' \in [Socket -> Seq(Message)] /\ step' \in [Socket -> Stage]
      /\ StepInv'
  BY <1>1, <1>3, <1>4, Stepped DEF IInv
<1>6. Becomes(s, "open") /\ events' \in 0..MaxEvents
  BY DEF Authenticate, IInv, TypeOK
<1>7. QED BY <1>1, <1>5, <1>6, BecomesType DEF IInv

LEMMA SendKeeps ==
  ASSUME IInv, NEW s \in Socket, NEW m \in Message, Send(s, m)
  PROVE  IInv'
<1>1. inbound[s] \in Seq(Message) /\ step[s] \in Stage
  BY DEF IInv, TypeOK
<1>2. PICK q \in Seq(Message) : q = Append(inbound[s], m)
  BY <1>1, AppendType
<1>3. q # <<>> /\ (inbound[s] # <<>> => Head(q) = Head(inbound[s]))
  BY <1>1, <1>2, AppendType
<1>4. inbound' = [inbound EXCEPT ![s] = q] /\ step' = [step EXCEPT ![s] = step[s]]
  BY <1>2 DEF Send, IInv, TypeOK
<1>5. /\ step[s] = "broadcast" => Head(q).type = "status"
      /\ step[s] = "check" => Head(q).type = "relay"
  BY <1>3 DEF IInv, StepInv, AtWork, Is
<1>6. /\ inbound' \in [Socket -> Seq(Message)] /\ step' \in [Socket -> Stage]
      /\ StepInv'
  BY <1>1, <1>3, <1>4, <1>5, Stepped DEF IInv
<1>7. events' \in 0..MaxEvents
  BY BoundAssumption DEF Send, IInv, TypeOK
<1>8. QED BY <1>6, <1>7 DEF Send, IInv, TypeOK, tracking, clients

LEMMA SendsKeep ==
  ASSUME IInv, NEW s \in Socket, SendStatus(s) \/ SendRelay(s)
  PROVE  IInv'
<1>1. CASE SendStatus(s)
  <2>1. PICK st \in Status : Send(s, [type |-> "status", status |-> st])
    BY <1>1 DEF SendStatus
  <2>2. [type |-> "status", status |-> st] \in Message
    BY DEF Message
  <2>3. QED BY <2>1, <2>2, SendKeeps
<1>2. CASE SendRelay(s)
  <2>1. PICK v \in User : Send(s, [type |-> "relay", to |-> v, n |-> events + 1])
    BY <1>2 DEF SendRelay
  <2>2. PICK n \in 1..MaxEvents : n = events + 1
    BY <2>1, BoundAssumption DEF Send, IInv, TypeOK
  <2>3. [type |-> "relay", to |-> v, n |-> n] \in Message
    BY DEF Message
  <2>4. QED BY <2>1, <2>2, <2>3, SendKeeps
<1>3. QED BY <1>1, <1>2

\* What a broken connection loses is the end of what was sent.
LEMMA FrontType ==
  ASSUME NEW S, NEW q \in Seq(S), NEW n \in 0..Len(q)
  PROVE  /\ SubSeq(q, 1, n) \in Seq(S)
         /\ n > 0 => SubSeq(q, 1, n) # <<>> /\ Head(SubSeq(q, 1, n)) = Head(q)
OBVIOUS

LEMMA BreakKeeps ==
  ASSUME IInv, NEW s \in Socket, Break(s)
  PROVE  IInv'
<1>1. inbound[s] \in Seq(Message) /\ step[s] \in Stage /\ "broken" \in State
  BY DEF IInv, TypeOK, State
<1>2. PICK n \in 0..Len(inbound[s]) :
        /\ step[s] # "idle" => n > 0
        /\ inbound' = [inbound EXCEPT ![s] = SubSeq(@, 1, n)]
  BY DEF Break
<1>3. PICK q \in Seq(Message) : q = SubSeq(inbound[s], 1, n)
  BY <1>1, FrontType
<1>4. inbound' = [inbound EXCEPT ![s] = q] /\ step' = [step EXCEPT ![s] = step[s]]
  BY <1>2, <1>3 DEF Break, IInv, TypeOK
<1>5. step[s] # "idle" => q # <<>> /\ Head(q) = Head(inbound[s])
  BY <1>1, <1>2, <1>3, FrontType
<1>6. /\ step[s] = "broadcast" => Head(q).type = "status"
      /\ step[s] = "check" => Head(q).type = "relay"
  BY <1>5 DEF IInv, StepInv, AtWork, Is
<1>7. /\ inbound' \in [Socket -> Seq(Message)] /\ step' \in [Socket -> Stage]
      /\ StepInv'
  BY <1>1, <1>4, <1>5, <1>6, Stepped DEF IInv
<1>8. Becomes(s, "broken") /\ events' \in 0..MaxEvents
  BY BoundAssumption DEF Break, IInv, TypeOK
<1>9. QED BY <1>1, <1>7, <1>8, BecomesType DEF IInv

LEMMA AddConnectionKeeps ==
  ASSUME IInv, NEW s \in Socket, AddConnection(s)
  PROVE  IInv'
<1> DEFINE u == Owner[s]
<1>1. u \in User /\ {"friends", "announce"} \subseteq Stage /\ "online" \in Status
  BY OwnerAssumption, StatusAssumption DEF Stage
<1>2. step[s] = "user" /\ inbound[s] # <<>>
  BY DEF AddConnection, IInv, StepInv, AtWork
<1> HIDE DEF u
<1>3. /\ inbound' \in [Socket -> Seq(Message)] /\ step' \in [Socket -> Stage]
      /\ StepInv'
  <2>1. CASE s \notin Identified
    <3>1. Done(s)
      BY <2>1 DEF AddConnection
    <3>2. QED BY <1>2, <3>1, Finished DEF IInv
  <2>2. CASE s \in Identified
    <3>1. PICK stage \in {"friends", "announce"} : Goes(s, stage)
      BY <2>2 DEF AddConnection
    <3>2. UNCHANGED inbound
      BY <2>2 DEF AddConnection
    <3>3. QED BY <1>1, <1>2, <3>1, <3>2, WentOn DEF IInv
  <2>3. QED BY <2>1, <2>2
<1>4. /\ claimed' \in SUBSET Socket /\ registry' \in SUBSET Socket
      /\ connections' \in [User -> SUBSET Socket]
  <2>1. connections[u] \cup ({s} \cap Identified) \in SUBSET Socket
    BY <1>1 DEF IInv, TypeOK
  <2>2. QED BY <2>1 DEF AddConnection, IInv, TypeOK, u
<1>5. status' \in [User -> Status] /\ unsure' \in [User -> BOOLEAN]
  <2>1. status' = status \/ status' = [status EXCEPT ![u] = "online"]
    BY DEF AddConnection, u
  <2>2. unsure' = unsure \/ unsure' = [unsure EXCEPT ![u] = @ \/ Underway(u)]
    BY DEF AddConnection, Announces, u
  <2>3. unsure' \in [User -> BOOLEAN]
    BY <2>2, Zenon DEF IInv, TypeOK
  <2>4. QED BY <1>1, <2>1, <2>3 DEF IInv, TypeOK
<1>6. UNCHANGED <<sock, leaving, queue, ready, told, heard, events>>
  BY DEF AddConnection, clients
<1>7. QED BY <1>3, <1>4, <1>5, <1>6 DEF IInv, TypeOK

LEMMA AnnounceKeeps ==
  ASSUME IInv, NEW s \in Socket, Announce(s)
  PROVE  IInv'
<1>1. Owner[s] \in User /\ "friends" \in Stage /\ "online" \in Status
  BY OwnerAssumption, StatusAssumption DEF Stage
<1>2. inbound[s] # <<>> /\ Goes(s, "friends") /\ UNCHANGED inbound
  BY DEF Announce, IInv, StepInv, AtWork
<1>3. /\ inbound' \in [Socket -> Seq(Message)] /\ step' \in [Socket -> Stage]
      /\ StepInv'
  BY <1>1, <1>2, WentOn DEF IInv
<1>4. Broadcast(Owner[s], "online")
  BY DEF Announce
<1>5. /\ QueuesTyped'
      /\ heard' \in [Socket -> [User -> Status \cup {"nothing"}]]
      /\ UNCHANGED <<ready, told>>
  BY <1>1, <1>4, BroadcastType DEF IInv
<1>6. UNCHANGED <<sock, claimed, registry, connections, status, leaving, unsure, events>>
  BY DEF Announce, tracking
<1>7. QED BY <1>3, <1>5, <1>6 DEF IInv, TypeOK, QueuesTyped

LEMMA SubSeqType ==
  ASSUME NEW S, NEW q \in Seq(S), NEW n \in 0..Len(q)
  PROVE  SubSeq(q, n + 1, Len(q)) \in Seq(S)
OBVIOUS

LEMMA LateType ==
  ASSUME NEW t \in Seq(Told), NEW q \in Seq(Event)
  PROVE  t \o Late(q) \in Seq(Told)
<1>1. \A k \in DOMAIN q : [event |-> q[k], late |-> TRUE] \in Told
  <2>1. ASSUME NEW k \in DOMAIN q
        PROVE  [event |-> q[k], late |-> TRUE] \in Told
    <3>1. q[k] \in Event
      OBVIOUS
    <3>2. QED BY <3>1 DEF Told
  <2>2. QED BY <2>1
<1>2. DOMAIN q = 1..Len(q) /\ Len(q) \in Nat
  OBVIOUS
<1>3. Late(q) \in [1..Len(q) -> Told]
  BY <1>1, <1>2 DEF Late
<1>4. Late(q) \in Seq(Told)
  BY <1>2, <1>3
<1>5. QED BY <1>4

LEMMA AuthOkKeeps ==
  ASSUME IInv, NEW s \in Socket, AuthOk(s)
  PROVE  IInv'
<1> DEFINE u == Owner[s]
<1>1. u \in User
  BY OwnerAssumption
<1>2. step[s] # "idle" /\ Done(s)
  BY DEF AuthOk
<1> HIDE DEF u
<1>3. /\ inbound' \in [Socket -> Seq(Message)] /\ step' \in [Socket -> Stage]
      /\ StepInv'
  BY <1>2, Finished DEF IInv
<1>4. queue[u] \in Seq(Event) /\ told \in [Socket -> Seq(Told)]
  BY <1>1 DEF IInv, TypeOK
<1>5. told' \in [Socket -> Seq(Told)]
  <2>1. PICK old \in 0..Len(queue[u]) :
          told' = [r \in Socket |->
            IF Owner[r] = u /\ Reached(r)
            THEN told[r] \o Late(SubSeq(queue[u], old + 1, Len(queue[u]))) ELSE told[r]]
    BY DEF AuthOk, u
  <2>2. PICK q \in Seq(Event) : q = SubSeq(queue[u], old + 1, Len(queue[u]))
    BY <1>4, SubSeqType
  <2>3. \A r \in Socket : told[r] \in Seq(Told) /\ told[r] \o Late(q) \in Seq(Told)
    BY <1>4, LateType
  <2>4. QED BY <2>1, <2>2, <2>3
<1>6. QueuesTyped'
  <2>1. /\ queue' = [queue EXCEPT ![u] = <<>>]
        /\ <<>> \in Seq(Event) /\ Len(<<>>) <= MaxQueued
    BY BoundAssumption DEF AuthOk, Drained, u
  <2>2. QED BY <2>1 DEF IInv, TypeOK, QueuesTyped
<1>7. ready' \in SUBSET Socket
  BY DEF AuthOk, IInv, TypeOK
<1>8. UNCHANGED <<sock, claimed, registry, connections, status, leaving, heard, unsure, events>>
  BY DEF AuthOk, tracking
<1>9. QED BY <1>3, <1>5, <1>6, <1>7, <1>8 DEF IInv, TypeOK, QueuesTyped

LEMMA UpdateStatusKeeps ==
  ASSUME IInv, NEW s \in Socket, UpdateStatus(s)
  PROVE  IInv'
<1>1. /\ Owner[s] \in User /\ "broadcast" \in Stage
      /\ inbound[s] \in Seq(Message) /\ inbound[s] # <<>> /\ Is(s, "status")
  BY OwnerAssumption DEF UpdateStatus, Is, Stage, IInv, TypeOK
<1>2. PICK st \in Status : st = Head(inbound[s]).status
  <2>1. Head(inbound[s]) \in Message /\ Head(inbound[s]).type = "status"
    BY <1>1 DEF Is
  <2>2. QED BY <2>1, Read
<1>3. /\ inbound' \in [Socket -> Seq(Message)] /\ step' \in [Socket -> Stage]
      /\ StepInv'
  BY <1>1, WentOn DEF UpdateStatus, IInv
<1>4. status' \in [User -> Status]
  BY <1>2 DEF UpdateStatus, IInv, TypeOK
<1>5. unsure' \in [User -> BOOLEAN]
  BY Zenon DEF UpdateStatus, Announces, IInv, TypeOK
<1>6. UNCHANGED <<sock, claimed, registry, connections, leaving, queue, ready, told, heard, events>>
  BY DEF UpdateStatus, tracking, clients
<1>7. QED BY <1>3, <1>4, <1>5, <1>6 DEF IInv, TypeOK

LEMMA StatusUpdatedKeeps ==
  ASSUME IInv, NEW s \in Socket, StatusUpdated(s)
  PROVE  IInv'
<1>1. /\ Owner[s] \in User /\ inbound[s] \in Seq(Message) /\ Is(s, "status")
      /\ step[s] # "idle" /\ Done(s)
  BY OwnerAssumption DEF StatusUpdated, IInv, TypeOK, StepInv, AtWork
<1>2. PICK st \in Status : st = Head(inbound[s]).status
  <2>1. Head(inbound[s]) \in Message /\ Head(inbound[s]).type = "status"
    BY <1>1 DEF Is
  <2>2. QED BY <2>1, Read
<1>3. /\ inbound' \in [Socket -> Seq(Message)] /\ step' \in [Socket -> Stage]
      /\ StepInv'
  BY <1>1, Finished DEF IInv
<1>4. Broadcast(Owner[s], st)
  BY <1>2 DEF StatusUpdated
<1>5. /\ QueuesTyped'
      /\ heard' \in [Socket -> [User -> Status \cup {"nothing"}]]
      /\ UNCHANGED <<ready, told>>
  BY <1>1, <1>4, BroadcastType DEF IInv
<1>6. UNCHANGED <<sock, claimed, registry, connections, status, leaving, unsure, events>>
  BY DEF StatusUpdated, tracking
<1>7. QED BY <1>3, <1>5, <1>6 DEF IInv, TypeOK, QueuesTyped

LEMMA BeginRelayKeeps ==
  ASSUME IInv, NEW s \in Socket, BeginRelay(s)
  PROVE  IInv'
<1>1. "check" \in Stage /\ inbound[s] # <<>> /\ Is(s, "relay")
  BY DEF BeginRelay, Is, Stage
<1>2. /\ inbound' \in [Socket -> Seq(Message)] /\ step' \in [Socket -> Stage]
      /\ StepInv'
  BY <1>1, WentOn DEF BeginRelay, IInv
<1>3. QED BY <1>2 DEF BeginRelay, IInv, TypeOK, tracking, clients

LEMMA CheckedKeeps ==
  ASSUME IInv, NEW s \in Socket, Checked(s)
  PROVE  IInv'
<1>1. inbound[s] \in Seq(Message) /\ Is(s, "relay") /\ step[s] # "idle" /\ Done(s)
  BY DEF Checked, IInv, TypeOK, StepInv, AtWork
<1>2. PICK m \in Message : m = Head(inbound[s]) /\ m.to \in User /\ m.n \in 1..MaxEvents
  <2>1. Head(inbound[s]) \in Message /\ Head(inbound[s]).type = "relay"
    BY <1>1 DEF Is
  <2>2. QED BY <2>1, Read
<1>3. /\ inbound' \in [Socket -> Seq(Message)] /\ step' \in [Socket -> Stage]
      /\ StepInv'
  BY <1>1, Finished DEF IInv
<1>4. /\ QueuesTyped' /\ told' \in [Socket -> Seq(Told)]
      /\ UNCHANGED <<ready, heard>>
  <2>1. CASE m.to \in FriendsOf(Owner[s])
    <3>1. Relay(s, m)
      BY <1>2, <2>1 DEF Checked
    <3>2. QED BY <1>2, <3>1, RelayType DEF IInv
  <2>2. CASE m.to \notin FriendsOf(Owner[s])
    BY <1>2, <2>2 DEF Checked, clients, IInv, TypeOK, QueuesTyped
  <2>3. QED BY <2>1, <2>2
<1>5. UNCHANGED <<sock, claimed, registry, connections, status, leaving, unsure, events>>
  BY DEF Checked, tracking
<1>6. QED BY <1>3, <1>4, <1>5 DEF IInv, TypeOK, QueuesTyped

LEMMA FailsKeeps ==
  ASSUME IInv, NEW s \in Socket, Fails(s)
  PROVE  IInv'
<1>1. /\ inbound' \in [Socket -> Seq(Message)] /\ step' \in [Socket -> Stage]
      /\ StepInv'
  <2>1. CASE step[s] # "idle" /\ Done(s)
    BY <2>1, Finished DEF IInv
  <2>2. CASE UNCHANGED <<inbound, step>>
    BY <2>2, Rested DEF IInv
  <2>3. QED BY <2>1, <2>2 DEF Fails
<1>2. leaving' \in SUBSET Socket /\ events' \in 0..MaxEvents
  BY BoundAssumption DEF Fails, IInv, TypeOK
<1>3. unsure' \in [User -> BOOLEAN]
  <2>1. PICK b \in BOOLEAN : unsure' = [unsure EXCEPT ![Owner[s]] = b]
    <3>1. CASE unsure' = [unsure EXCEPT ![Owner[s]] = @ \/ step[s] \in {"announce", "broadcast"}]
      BY <3>1, OwnerAssumption, Zenon DEF IInv, TypeOK
    <3>2. CASE unsure' = [unsure EXCEPT ![Owner[s]] = TRUE]
      BY <3>2
    <3>3. QED BY <3>1, <3>2 DEF Fails
  <2>2. QED BY <2>1 DEF IInv, TypeOK
<1>4. UNCHANGED <<sock, claimed, registry, connections, status, queue, ready, told, heard>>
  BY DEF Fails, tracking, clients
<1>5. QED BY <1>1, <1>2, <1>3, <1>4 DEF IInv, TypeOK

LEMMA CloseKeeps ==
  ASSUME IInv, NEW s \in Socket, Close(s)
  PROVE  IInv'
<1> DEFINE u == Owner[s]
<1>1. u \in User /\ "offline" \in Status /\ "closed" \in State
  BY OwnerAssumption, StatusAssumption DEF State
<1> HIDE DEF u
<1>2. /\ inbound' \in [Socket -> Seq(Message)] /\ step' \in [Socket -> Stage]
      /\ StepInv'
  BY Rested DEF Close, IInv
<1>3. sock' \in [Socket -> State] /\ registry' \in SUBSET Socket
  BY <1>1 DEF Close, IInv, TypeOK
<1>4. connections' \in [User -> SUBSET Socket]
  <2>1. Remaining(s) \in SUBSET Socket
    BY <1>1 DEF Remaining, IInv, TypeOK, u
  <2>2. PICK c \in SUBSET Socket :
          connections' = connections \/ connections' = [connections EXCEPT ![u] = c]
    BY <2>1 DEF Close, u
  <2>3. QED BY <2>2 DEF IInv, TypeOK
<1>5. status' \in [User -> Status] /\ leaving' \in SUBSET Socket
  BY <1>1 DEF Close, IInv, TypeOK
<1>6. unsure' \in [User -> BOOLEAN]
  <2>1. unsure' = unsure \/ unsure' = [unsure EXCEPT ![u] = @ \/ Underway(u)]
    BY DEF Close, Announces, u
  <2>2. QED BY <2>1, Zenon DEF IInv, TypeOK
<1>7. UNCHANGED <<claimed, queue, ready, told, heard, events>>
  BY DEF Close, clients
<1>8. QED BY <1>2, <1>3, <1>4, <1>5, <1>6, <1>7 DEF IInv, TypeOK

LEMMA LeftKeeps ==
  ASSUME IInv, NEW s \in Socket, Left(s)
  PROVE  IInv'
<1>1. Owner[s] \in User /\ "offline" \in Status
  BY OwnerAssumption, StatusAssumption
<1>2. /\ inbound' \in [Socket -> Seq(Message)] /\ step' \in [Socket -> Stage]
      /\ StepInv'
  BY Rested DEF Left, IInv
<1>3. Broadcast(Owner[s], "offline") /\ leaving' \in SUBSET Socket
  BY DEF Left, IInv, TypeOK
<1>4. /\ QueuesTyped'
      /\ heard' \in [Socket -> [User -> Status \cup {"nothing"}]]
      /\ UNCHANGED <<ready, told>>
  BY <1>1, <1>3, BroadcastType DEF IInv
<1>5. UNCHANGED <<sock, claimed, registry, connections, status, unsure, events>>
  BY DEF Left, tracking
<1>6. QED BY <1>2, <1>3, <1>4, <1>5 DEF IInv, TypeOK, QueuesTyped

LEMMA NextKeeps == IInv /\ [Next]_vars => IInv'
<1> SUFFICES ASSUME IInv, [Next]_vars
             PROVE  IInv'
  OBVIOUS
<1>1. CASE Next
  <2>1. PICK s \in Socket : Client(s) \/ Handles(s) \/ Ends(s) \/ Fails(s)
    BY <1>1 DEF Next
  <2>2. CASE Client(s)
    BY <2>2, OpenKeeps, AuthenticateKeeps, SendsKeep, BreakKeeps DEF Client
  <2>3. CASE Handles(s)
    BY <2>3, AddConnectionKeeps, AnnounceKeeps, AuthOkKeeps, UpdateStatusKeeps,
       StatusUpdatedKeeps, BeginRelayKeeps, CheckedKeeps DEF Handles
  <2>4. CASE Ends(s)
    BY <2>4, OpenKeeps, CloseKeeps, LeftKeeps DEF Ends
  <2>5. QED BY <2>1, <2>2, <2>3, <2>4, FailsKeeps
<1>2. CASE UNCHANGED vars
  BY <1>2 DEF vars, tracking, clients, IInv, TypeOK, StepInv, AtWork, Is
<1>3. QED BY <1>1, <1>2

\* The server's maps, queues and message chains keep their types: nothing is
\* taken from an empty chain, no handler reads another message's fields, and no more
\* than MAX_QUEUED_EVENTS wait for anybody.
THEOREM TypeCorrect == Spec => []TypeOK
<1>1. Init => IInv
  BY StartsTyped
<1>2. IInv /\ [Next]_vars => IInv'
  BY NextKeeps
<1>3. IInv => TypeOK
  BY DEF IInv
<1>4. QED BY <1>1, <1>2, <1>3, PTL DEF Spec

-----------------------------------------------------------------------------
(* Tracking *)

\* Only addConnection and a close event touch the maps.
LEMMA MapsRest ==
  ASSUME TrackInv, UNCHANGED <<claimed, registry, connections>>,
         \A s \in claimed : sock[s] = "closed" => sock'[s] = "closed"
  PROVE  TrackInv'
BY DEF TrackInv

LEMMA AddConnectionTracks ==
  ASSUME IInv, TrackInv, NEW s \in Socket, AddConnection(s)
  PROVE  TrackInv'
<1>1. /\ claimed' = claimed \cup {s} /\ registry' = registry \cup ({s} \cap Identified)
      /\ connections' = [connections EXCEPT ![Owner[s]] = @ \cup ({s} \cap Identified)]
      /\ UNCHANGED sock
  BY DEF AddConnection
<1>2. SUFFICES ASSUME NEW r \in claimed' \cap Identified, sock[r] # "closed"
               PROVE  r \in connections'[Owner[r]] /\ r \in registry'
  BY <1>1 DEF TrackInv
<1>3. Owner[s] \in User /\ connections \in [User -> SUBSET Socket]
  BY OwnerAssumption DEF IInv, TypeOK
<1>4. CASE r = s
  BY <1>1, <1>2, <1>3, <1>4
<1>5. CASE r # s
  <2>1. r \in claimed \cap Identified /\ r \in Socket
    BY <1>1, <1>2, <1>5 DEF IInv, TypeOK
  <2>2. r \in connections[Owner[r]] /\ r \in registry
    BY <1>2, <2>1 DEF TrackInv
  <2>3. QED BY <1>1, <1>3, <2>1, <2>2
<1>6. QED BY <1>4, <1>5

\* The last socket of a user that closes leaves none behind.
LEMMA CloseTracks ==
  ASSUME IInv, TrackInv, NEW s \in Socket, Close(s)
  PROVE  TrackInv'
<1>1. /\ sock' = [sock EXCEPT ![s] = "closed"] /\ UNCHANGED claimed
      /\ registry' = registry \ {s}
      /\ Owner[s] \in User /\ connections \in [User -> SUBSET Socket]
      /\ sock \in [Socket -> State]
  BY OwnerAssumption DEF Close, IInv, TypeOK
<1>2. SUFFICES ASSUME NEW r \in claimed \cap Identified, sock'[r] # "closed"
               PROVE  r \in connections'[Owner[r]] /\ r \in registry'
  BY <1>1 DEF TrackInv
<1>3. r \in Socket /\ r # s /\ sock[r] # "closed"
  BY <1>1, <1>2 DEF IInv, TypeOK
<1>4. r \in connections[Owner[r]] /\ r \in registry
  BY <1>3 DEF TrackInv
<1>5. CASE Owner[r] = Owner[s]
  <2>1. r \in Remaining(s)
    BY <1>3, <1>4, <1>5 DEF Remaining
  <2>2. connections' = connections \/ connections' = [connections EXCEPT ![Owner[s]] = Remaining(s)]
    BY <2>1 DEF Close
  <2>3. QED BY <1>1, <1>3, <1>4, <1>5, <2>1, <2>2
<1>6. CASE Owner[r] # Owner[s]
  <2>1. PICK c : connections' = connections \/ connections' = [connections EXCEPT ![Owner[s]] = c]
    BY DEF Close
  <2>2. Owner[r] \in User
    BY <1>3, OwnerAssumption
  <2>3. connections'[Owner[r]] = connections[Owner[r]]
    BY <1>1, <1>6, <2>1, <2>2
  <2>4. QED BY <1>1, <1>3, <1>4, <2>3
<1>7. QED BY <1>5, <1>6

LEMMA NextTracks ==
  ASSUME IInv, TrackInv, [Next]_vars
  PROVE  TrackInv'
<1>1. CASE UNCHANGED vars
  BY <1>1, MapsRest DEF vars, tracking
<1>2. CASE Next
  <2>1. PICK s \in Socket : Client(s) \/ Handles(s) \/ Ends(s) \/ Fails(s)
    BY <1>2 DEF Next
  <2>2. ASSUME NEW state \in State, Becomes(s, state), sock[s] # "closed"
        PROVE  TrackInv'
    <3>1. UNCHANGED <<claimed, registry, connections>> /\ sock' = [sock EXCEPT ![s] = state]
      BY <2>2 DEF Becomes, tracking
    <3>2. \A r \in claimed : sock[r] = "closed" => sock'[r] = "closed"
      BY <2>2, <3>1 DEF IInv, TypeOK
    <3>3. QED BY <3>1, <3>2, MapsRest
  <2>3. CASE Client(s) \/ AuthTimeout(s) \/ Heartbeat(s)
    <3>1. CASE SendStatus(s) \/ SendRelay(s)
      BY <3>1, MapsRest DEF SendStatus, SendRelay, Send, tracking
    <3>2. CASE \/ Open(s) \/ Authenticate(s) \/ Hangup(s) \/ Break(s)
               \/ AuthTimeout(s) \/ Heartbeat(s)
      <4>1. PICK state \in State : Becomes(s, state) /\ sock[s] # "closed"
        BY <3>2 DEF Open, Authenticate, Hangup, Break, AuthTimeout, Heartbeat, State
      <4>2. QED BY <2>2, <4>1
    <3>3. QED BY <2>3, <3>1, <3>2 DEF Client
  <2>4. CASE Handles(s)
    <3>1. CASE AddConnection(s)
      BY <3>1, AddConnectionTracks
    <3>2. CASE \/ Announce(s) \/ AuthOk(s) \/ UpdateStatus(s) \/ StatusUpdated(s)
               \/ BeginRelay(s) \/ Checked(s)
      <4>1. UNCHANGED <<sock, claimed, registry, connections>>
        BY <3>2 DEF Announce, AuthOk, UpdateStatus, StatusUpdated, BeginRelay, Checked, tracking
      <4>2. QED BY <4>1, MapsRest
    <3>3. QED BY <2>4, <3>1, <3>2 DEF Handles
  <2>5. CASE Close(s)
    BY <2>5, CloseTracks
  <2>6. CASE Left(s) \/ Fails(s)
    BY <2>6, MapsRest DEF Left, Fails, tracking
  <2>7. QED BY <2>1, <2>3, <2>4, <2>5, <2>6 DEF Ends
<1>3. QED BY <1>1, <1>2

\* presence.js: a socket that has an id and a user is in both maps until its close
\* event, whatever sockets come, go and fail, and also while handlers are at work.
THEOREM IdentifiedAreTracked == Spec => []TrackInv
<1> DEFINE I == IInv /\ TrackInv
<1>1. Init => I
  BY StartsTyped DEF Init, TrackInv
<1>2. I /\ [Next]_vars => I'
  BY NextKeeps, NextTracks
<1>3. QED BY <1>1, <1>2, PTL DEF Spec

-----------------------------------------------------------------------------
(* The order of what is relayed *)

RelaysOf(q) == {q[i].n : i \in {j \in DOMAIN q : q[j].type = "relay"}}

Increasing(q) ==
  \A i, k \in DOMAIN q : i < k /\ q[i].type = "relay" /\ q[k].type = "relay" => q[i].n < q[k].n

\* A socket's relays wait in the order of their numbers, which are all taken.
SentInv ==
  \A s \in Socket : Increasing(inbound[s]) /\ \A n \in RelaysOf(inbound[s]) : n <= events

\* What has been relayed comes before all that its sender's chain still holds.
Behind(e, top, chains) ==
  e.type = "relay" => e.n <= top /\ \A n \in RelaysOf(chains[e.from]) : e.n < n

InOrder(q) ==
  \A i, k \in DOMAIN q :
    i < k /\ q[i].type = "relay" /\ q[k].type = "relay" /\ q[i].from = q[k].from => q[i].n < q[k].n

QueueInv ==
  \A v \in User :
    InOrder(queue[v]) /\ \A i \in DOMAIN queue[v] : Behind(queue[v][i], events, inbound)

\* What a client was told is not what is queued, and what it was told late was
\* queued earlier.
Precedes(t, e) ==
  t.event.type = "relay" /\ e.type = "relay" =>
    t.event # e /\ (t.late /\ t.event.from = e.from => t.event.n < e.n)

ToldInv ==
  \A r \in Socket : \A i \in DOMAIN told[r] :
    /\ Behind(told[r][i].event, events, inbound)
    /\ \A k \in DOMAIN queue[Owner[r]] : Precedes(told[r][i], queue[Owner[r]][k])

OrderInv == SentInv /\ QueueInv /\ ToldInv /\ RelayedOnceInOrder

\* A chain that only loses messages.
Thins(q, r) == (Increasing(q) => Increasing(r)) /\ RelaysOf(r) \subseteq RelaysOf(q)

\* A queue that loses its oldest events, and gets none to relay.
Ages(q, r) ==
  \E d \in Nat : \A i \in DOMAIN r : r[i].type = "relay" => i + d \in DOMAIN q /\ r[i] = q[i + d]

\* r is the end of q with e behind it.
Takes(q, e, r) ==
  \E d \in Nat : \A i \in DOMAIN r :
    /\ i \in Nat
    /\ \/ i + d = Len(q) + 1 /\ r[i] = e
       \/ i + d \in 1 .. Len(q) /\ r[i] = q[i + d]

LEMMA OrderInit == Init => OrderInv
BY DEF Init, OrderInv, SentInv, QueueInv, ToldInv, RelayedOnceInOrder, Increasing, RelaysOf, InOrder

LEMMA AppendAt ==
  ASSUME NEW S, NEW q \in Seq(S), NEW m \in S, NEW p, p = Append(q, m)
  PROVE  /\ DOMAIN q = 1 .. Len(q) /\ DOMAIN p = 1 .. Len(q) + 1 /\ Len(q) \in Nat
         /\ p[Len(q) + 1] = m /\ \A i \in DOMAIN q : p[i] = q[i]
OBVIOUS

LEMMA TailThins ==
  ASSUME NEW q \in Seq(Message), q # <<>>
  PROVE  Thins(q, Tail(q))
<1> DEFINE r == Tail(q)
<1>1. /\ \A i \in DOMAIN r : i \in Nat /\ i + 1 \in DOMAIN q /\ r[i] = q[i + 1]
  OBVIOUS
<1> HIDE DEF r
<1>2. Thins(q, r)
  BY <1>1 DEF Thins, Increasing, RelaysOf
<1>3. QED BY <1>2 DEF r

LEMMA FrontThins ==
  ASSUME NEW q \in Seq(Message), NEW n \in 0..Len(q)
  PROVE  Thins(q, SubSeq(q, 1, n))
<1> DEFINE r == SubSeq(q, 1, n)
<1>1. \A i \in DOMAIN r : i \in DOMAIN q /\ r[i] = q[i]
  OBVIOUS
<1> HIDE DEF r
<1>2. Thins(q, r)
  BY <1>1 DEF Thins, Increasing, RelaysOf
<1>3. QED BY <1>2 DEF r

\* A full queue forgets its oldest event: what is left is the end of what there was.
LEMMA EnqueueAt ==
  ASSUME NEW q \in Seq(Event), NEW e \in Event, NEW r, r = Enqueue(q, e)
  PROVE  Takes(q, e, r)
<1> DEFINE all == Append(q, e)
<1>1. /\ all \in Seq(Event) /\ Len(all) = Len(q) + 1 /\ Len(q) \in Nat
      /\ DOMAIN all = 1 .. Len(q) + 1 /\ DOMAIN q = 1 .. Len(q)
      /\ \A i \in DOMAIN all : all[i] = IF i = Len(q) + 1 THEN e ELSE q[i]
  OBVIOUS
<1>2. MaxQueued \in Nat
  BY BoundAssumption
<1>3. r = IF Len(all) > MaxQueued THEN SubSeq(all, Len(all) - MaxQueued + 1, Len(all)) ELSE all
  BY DEF Enqueue
<1> HIDE DEF all
<1>4. CASE Len(all) > MaxQueued
  <2> DEFINE d == Len(all) - MaxQueued
  <2>1. d \in Nat /\ r = SubSeq(all, d + 1, Len(all))
    BY <1>1, <1>2, <1>3, <1>4
  <2> HIDE DEF d
  <2>2. \A i \in DOMAIN r : i \in Nat /\ i + d \in DOMAIN all /\ r[i] = all[i + d]
    BY <1>1, <2>1
  <2>3. \A i \in DOMAIN r :
          /\ i \in Nat
          /\ \/ i + d = Len(q) + 1 /\ r[i] = e
             \/ i + d \in 1 .. Len(q) /\ r[i] = q[i + d]
    BY <1>1, <2>2
  <2>4. QED BY <2>1, <2>3 DEF Takes
<1>5. CASE ~(Len(all) > MaxQueued)
  <2>1. r = all
    BY <1>3, <1>5
  <2>2. \A i \in DOMAIN r :
          /\ i \in Nat
          /\ \/ i + 0 = Len(q) + 1 /\ r[i] = e
             \/ i + 0 \in 1 .. Len(q) /\ r[i] = q[i + 0]
    BY <1>1, <2>1
  <2>3. 0 \in Nat
    OBVIOUS
  <2>4. QED BY <2>2, <2>3 DEF Takes
<1>6. QED BY <1>4, <1>5

LEMMA EnqueueAges ==
  ASSUME NEW q \in Seq(Event), NEW e \in Event, e.type # "relay"
  PROVE  Ages(q, q) /\ Ages(q, Enqueue(q, e))
<1>1. DOMAIN q = 1 .. Len(q) /\ Len(q) \in Nat
  OBVIOUS
<1>2. Ages(q, q)
  <2>1. \A i \in DOMAIN q : i + 0 \in DOMAIN q /\ q[i] = q[i + 0]
    BY <1>1
  <2>2. 0 \in Nat
    OBVIOUS
  <2>3. QED BY <2>1, <2>2 DEF Ages
<1>3. ASSUME NEW r, r = Enqueue(q, e) PROVE Ages(q, r)
  <2>1. Takes(q, e, r)
    BY <1>3, EnqueueAt
  <2>2. PICK d \in Nat : \A i \in DOMAIN r :
           /\ i \in Nat
           /\ \/ i + d = Len(q) + 1 /\ r[i] = e
              \/ i + d \in 1 .. Len(q) /\ r[i] = q[i + d]
    BY <2>1 DEF Takes
  <2>3. \A i \in DOMAIN r : r[i].type = "relay" => i + d \in DOMAIN q /\ r[i] = q[i + d]
    BY <1>1, <2>2
  <2>4. QED BY <2>3 DEF Ages
<1>4. QED BY <1>2, <1>3

LEMMA PresenceAges ==
  ASSUME TypeOK, NEW u \in User, NEW st \in Status, Broadcast(u, st), NEW v \in User
  PROVE  Ages(queue[v], queue'[v])
<1>1. PICK e \in Event : e = [type |-> "presence", from |-> u, status |-> st]
  BY DEF Event
<1>2. queue'[v] = queue[v] \/ queue'[v] = Enqueue(queue[v], e)
  BY <1>1 DEF Broadcast, Queue
<1>3. queue[v] \in Seq(Event) /\ e.type # "relay"
  BY <1>1 DEF TypeOK
<1>4. Ages(queue[v], queue[v]) /\ Ages(queue[v], Enqueue(queue[v], e))
  BY <1>3, EnqueueAges
<1>5. QED BY <1>2, <1>4

\* A step that relays nothing, but may send something new, keeps the order.
LEMMA OrderRests ==
  ASSUME IInv, OrderInv, IInv', events <= events',
         \A s \in Socket : /\ Increasing(inbound'[s])
                           /\ \A n \in RelaysOf(inbound'[s]) :
                                n <= events' /\ (n \in RelaysOf(inbound[s]) \/ n > events),
         \A v \in User : Ages(queue[v], queue'[v]),
         \A r \in Socket : told'[r] = told[r] \/ told'[r] = <<>>
  PROVE  OrderInv'
<1>1. SentInv'
  BY DEF SentInv
<1>2. ASSUME NEW e \in Event, Behind(e, events, inbound) PROVE Behind(e, events', inbound')
  <2>1. SUFFICES ASSUME e.type = "relay"
                 PROVE  e.n <= events' /\ \A n \in RelaysOf(inbound'[e.from]) : e.n < n
    BY DEF Behind
  <2>2. e.from \in Socket /\ e.n \in Nat /\ {events, events'} \subseteq Nat
    BY <2>1 DEF Event, IInv, TypeOK
  <2>3. e.n <= events'
    BY <1>2, <2>1, <2>2 DEF Behind
  <2>4. ASSUME NEW n \in RelaysOf(inbound'[e.from]) PROVE e.n < n
    <3>1. n \in Nat
      <4>1. inbound'[e.from] \in Seq(Message)
        BY <2>2 DEF IInv, TypeOK
      <4>2. QED BY <4>1, Read DEF RelaysOf
    <3>2. QED BY <1>2, <2>1, <2>2, <3>1 DEF Behind
  <2>5. QED BY <2>3, <2>4
<1>3. ASSUME NEW v \in User
      PROVE  \E d \in Nat : \A i \in DOMAIN queue'[v] :
               /\ i \in Nat /\ queue'[v][i] \in Event
               /\ queue'[v][i].type = "relay" =>
                    /\ i + d \in DOMAIN queue[v] /\ queue'[v][i] = queue[v][i + d]
                    /\ Behind(queue'[v][i], events', inbound')
  <2>1. PICK d \in Nat : \A i \in DOMAIN queue'[v] : queue'[v][i].type = "relay" =>
                           i + d \in DOMAIN queue[v] /\ queue'[v][i] = queue[v][i + d]
    BY DEF Ages
  <2>2. queue'[v] \in Seq(Event)
    BY DEF IInv, TypeOK
  <2>3. \A i \in DOMAIN queue'[v] : i \in Nat /\ queue'[v][i] \in Event
    BY <2>2
  <2>4. ASSUME NEW i \in DOMAIN queue'[v], queue'[v][i].type = "relay"
        PROVE  Behind(queue'[v][i], events', inbound')
    <3>1. Behind(queue[v][i + d], events, inbound) /\ queue'[v][i] = queue[v][i + d]
      BY <2>1, <2>4 DEF OrderInv, QueueInv
    <3>2. QED BY <1>2, <2>3, <3>1
  <2>5. QED BY <2>1, <2>3, <2>4
<1>4. QueueInv'
  <2>1. SUFFICES ASSUME NEW v \in User
                 PROVE  /\ InOrder(queue'[v])
                        /\ \A i \in DOMAIN queue'[v] : Behind(queue'[v][i], events', inbound')
    BY DEF QueueInv
  <2>2. PICK d \in Nat : \A i \in DOMAIN queue'[v] :
               /\ i \in Nat /\ queue'[v][i] \in Event
               /\ queue'[v][i].type = "relay" =>
                    /\ i + d \in DOMAIN queue[v] /\ queue'[v][i] = queue[v][i + d]
                    /\ Behind(queue'[v][i], events', inbound')
    BY <1>3
  <2>3. InOrder(queue[v])
    BY DEF OrderInv, QueueInv
  <2>4. InOrder(queue'[v])
    BY <2>2, <2>3 DEF InOrder
  <2>5. QED BY <2>2, <2>4 DEF Behind
<1>5. ToldInv'
  <2>1. SUFFICES ASSUME NEW r \in Socket, NEW i \in DOMAIN told'[r]
                 PROVE  /\ Behind(told'[r][i].event, events', inbound')
                        /\ \A k \in DOMAIN queue'[Owner[r]] :
                             Precedes(told'[r][i], queue'[Owner[r]][k])
    BY DEF ToldInv
  <2>2. told'[r] = told[r]
    BY <2>1
  <2>3. Behind(told[r][i].event, events, inbound) /\ told[r][i].event \in Event
    <3>1. told[r][i] \in Told
      BY <2>2 DEF IInv, TypeOK
    <3>2. QED BY <2>2, <3>1 DEF OrderInv, ToldInv, Told
  <2>4. \A k \in DOMAIN queue[Owner[r]] : Precedes(told[r][i], queue[Owner[r]][k])
    BY <2>2 DEF OrderInv, ToldInv
  <2>5. PICK d \in Nat : \A k \in DOMAIN queue'[Owner[r]] :
               queue'[Owner[r]][k].type = "relay" =>
                 k + d \in DOMAIN queue[Owner[r]] /\ queue'[Owner[r]][k] = queue[Owner[r]][k + d]
    BY <1>3, OwnerAssumption
  <2>6. \A k \in DOMAIN queue'[Owner[r]] : Precedes(told[r][i], queue'[Owner[r]][k])
    BY <2>4, <2>5 DEF Precedes
  <2>7. QED BY <1>2, <2>2, <2>3, <2>6
<1>6. RelayedOnceInOrder'
  BY DEF OrderInv, RelayedOnceInOrder
<1>7. QED BY <1>1, <1>4, <1>5, <1>6 DEF OrderInv

\* The same of a step that sends nothing.
LEMMA OrderThins ==
  ASSUME IInv, OrderInv, IInv', events <= events',
         \A s \in Socket : Thins(inbound[s], inbound'[s]),
         \A v \in User : Ages(queue[v], queue'[v]),
         \A r \in Socket : told'[r] = told[r] \/ told'[r] = <<>>
  PROVE  OrderInv'
<1>1. ASSUME NEW s \in Socket
      PROVE  /\ Increasing(inbound'[s])
             /\ \A n \in RelaysOf(inbound'[s]) :
                  n <= events' /\ (n \in RelaysOf(inbound[s]) \/ n > events)
  <2>1. Increasing(inbound[s]) /\ \A n \in RelaysOf(inbound[s]) : n <= events
    BY DEF OrderInv, SentInv
  <2>2. ASSUME NEW n \in RelaysOf(inbound'[s])
        PROVE  n <= events' /\ n \in RelaysOf(inbound[s])
    <3>1. n \in RelaysOf(inbound[s]) /\ n <= events
      BY <2>1 DEF Thins
    <3>2. n \in Nat /\ {events, events'} \subseteq Nat
      <4>1. inbound[s] \in Seq(Message) /\ {events, events'} \subseteq Nat
        BY BoundAssumption DEF IInv, TypeOK
      <4>2. QED BY <3>1, <4>1, Read DEF RelaysOf
    <3>3. QED BY <3>1, <3>2
  <2>3. QED BY <2>1, <2>2 DEF Thins
<1>2. QED BY <1>1, OrderRests

LEMMA Stays == \A q : Thins(q, q)
BY DEF Thins

\* A handler that ends takes the first message from its chain.
LEMMA DoneThins ==
  ASSUME IInv, NEW s \in Socket, step[s] # "idle", Done(s), NEW r \in Socket
  PROVE  Thins(inbound[r], inbound'[r])
<1>1. inbound[s] \in Seq(Message) /\ inbound[s] # <<>> /\ inbound \in [Socket -> Seq(Message)]
  BY DEF IInv, TypeOK, StepInv, AtWork
<1>2. inbound'[r] = IF r = s THEN Tail(inbound[s]) ELSE inbound[r]
  BY <1>1 DEF Done
<1>3. QED BY <1>1, <1>2, TailThins, Stays

LEMMA QueueRests ==
  ASSUME IInv, UNCHANGED queue, NEW v \in User
  PROVE  Ages(queue[v], queue'[v])
<1>1. DOMAIN queue[v] = 1 .. Len(queue[v]) /\ Len(queue[v]) \in Nat
  <2>1. queue[v] \in Seq(Event)
    BY DEF IInv, TypeOK
  <2>2. QED BY <2>1
<1>2. \A i \in DOMAIN queue[v] : i + 0 \in DOMAIN queue[v] /\ queue[v][i] = queue[v][i + 0]
  BY <1>1
<1>3. 0 \in Nat
  OBVIOUS
<1>4. QED BY <1>2, <1>3 DEF Ages

LEMMA BroadcastOrder ==
  ASSUME IInv, OrderInv, IInv', NEW u \in User, NEW st \in Status, Broadcast(u, st),
         events' = events, \A s \in Socket : Thins(inbound[s], inbound'[s])
  PROVE  OrderInv'
<1>1. events <= events'
  BY DEF IInv, TypeOK
<1>2. \A v \in User : Ages(queue[v], queue'[v])
  BY PresenceAges DEF IInv
<1>3. told' = told
  BY DEF Broadcast
<1>4. QED BY <1>1, <1>2, <1>3, OrderThins

\* No step of these queues anything, and what clients were told they keep or lose.
LEMMA QuietOrder ==
  ASSUME IInv, OrderInv, IInv', UNCHANGED queue, events' \in {events, events + 1},
         \A s \in Socket : Thins(inbound[s], inbound'[s]),
         \A r \in Socket : told'[r] = told[r] \/ told'[r] = <<>>
  PROVE  OrderInv'
<1>1. events <= events'
  BY DEF IInv, TypeOK
<1>2. \A v \in User : Ages(queue[v], queue'[v])
  BY QueueRests
<1>3. QED BY <1>1, <1>2, OrderThins

LEMMA SendOrder ==
  ASSUME IInv, OrderInv, IInv', NEW s \in Socket, NEW m \in Message, Send(s, m),
         m.type = "relay" => m.n = events + 1
  PROVE  OrderInv'
<1>1. /\ events \in Nat /\ events' = events + 1 /\ UNCHANGED <<queue, told>>
      /\ inbound \in [Socket -> Seq(Message)] /\ inbound' = [inbound EXCEPT ![s] = Append(@, m)]
  BY DEF Send, IInv, TypeOK, clients
<1>2. ASSUME NEW r \in Socket
      PROVE  /\ Increasing(inbound'[r])
             /\ \A n \in RelaysOf(inbound'[r]) :
                  n <= events' /\ (n \in RelaysOf(inbound[r]) \/ n > events)
  <2>1. Increasing(inbound[r]) /\ \A n \in RelaysOf(inbound[r]) : n <= events
    BY DEF OrderInv, SentInv
  <2>2. \A n \in RelaysOf(inbound[r]) : n \in Nat
    <3>1. inbound[r] \in Seq(Message)
      BY <1>1
    <3>2. QED BY <3>1, Read DEF RelaysOf
  <2>3. CASE r # s
    <3>1. inbound'[r] = inbound[r]
      BY <1>1, <2>3
    <3>2. QED BY <1>1, <2>1, <2>2, <3>1
  <2>4. CASE r = s
    <3>1. PICK q \in Seq(Message) : q = inbound[s]
      BY <1>1
    <3>2. PICK p : p = Append(q, m) /\ p = inbound'[s]
      BY <1>1, <3>1
    <3>3. /\ DOMAIN q = 1 .. Len(q) /\ DOMAIN p = 1 .. Len(q) + 1 /\ Len(q) \in Nat
          /\ p[Len(q) + 1] = m /\ \A i \in DOMAIN q : p[i] = q[i]
      <4>1. q \in Seq(Message) /\ m \in Message /\ p = Append(q, m)
        BY <3>1, <3>2
      <4>2. QED BY <4>1, AppendAt
    <3>4. \A i \in DOMAIN q : q[i].type = "relay" => q[i].n <= events /\ q[i].n \in Nat
      BY <2>1, <2>2, <2>4, <3>1 DEF RelaysOf
    <3>5. Increasing(p)
      BY <1>1, <2>1, <2>4, <3>1, <3>3, <3>4 DEF Increasing
    <3>6. \A n \in RelaysOf(p) : n \in RelaysOf(q) \/ n = events + 1
      BY <3>3 DEF RelaysOf
    <3>7. QED BY <1>1, <2>1, <2>2, <2>4, <3>1, <3>2, <3>5, <3>6
  <2>5. QED BY <2>3, <2>4
<1>3. events <= events'
  BY <1>1
<1>4. QED BY <1>1, <1>2, <1>3, QueueRests, OrderRests

\* What a handler relays next is behind nothing but the rest of its chain.
LEMMA NextRelay ==
  ASSUME IInv, OrderInv, NEW s \in Socket, NEW m, inbound[s] # <<>>, m = Head(inbound[s]),
         m.type = "relay", Done(s), events' = events
  PROVE  /\ \A n \in RelaysOf(inbound'[s]) : m.n < n
         /\ m.n \in Nat /\ m.n <= events
         /\ \A e \in Event :
              e.type = "relay" /\ e.from = s /\ Behind(e, events, inbound) => e.n < m.n
         /\ \A e \in Event : Behind(e, events, inbound) => Behind(e, events', inbound')
         /\ \A r \in Socket : Thins(inbound[r], inbound'[r])
<1>1. PICK q \in Seq(Message) : q = inbound[s] /\ q # <<>>
  BY DEF IInv, TypeOK
<1>2. /\ 1 \in DOMAIN q /\ q[1] = m /\ m \in Message
      /\ DOMAIN q = 1 .. Len(q) /\ Len(q) \in Nat \ {0}
  BY <1>1
<1>3. m.n \in Nat /\ m.n \in RelaysOf(inbound[s])
  BY <1>1, <1>2, Read DEF RelaysOf
<1>4. Increasing(q) /\ m.n <= events
  BY <1>1, <1>3 DEF OrderInv, SentInv
<1>5. PICK p : p = Tail(q) /\ p = inbound'[s]
  BY <1>1 DEF Done, IInv, TypeOK
<1>6. \A i \in DOMAIN p : i \in Nat \ {0} /\ i + 1 \in DOMAIN q /\ p[i] = q[i + 1]
  BY <1>1, <1>5
<1>7. \A n \in RelaysOf(p) : m.n < n
  <2>1. ASSUME NEW i \in DOMAIN p, p[i].type = "relay" PROVE m.n < p[i].n
    <3>1. 1 < i + 1 /\ i + 1 \in DOMAIN q /\ q[i + 1] = p[i]
      BY <1>6
    <3>2. QED BY <1>2, <1>4, <2>1, <3>1 DEF Increasing
  <2>2. QED BY <2>1 DEF RelaysOf
<1>8. \A r \in Socket : Thins(inbound[r], inbound'[r])
  <2>1. ASSUME NEW r \in Socket PROVE Thins(inbound[r], inbound'[r])
    <3>1. inbound'[r] = IF r = s THEN Tail(q) ELSE inbound[r]
      BY <1>1 DEF Done, IInv, TypeOK
    <3>2. QED BY <1>1, <3>1, TailThins, Stays
  <2>2. QED BY <2>1
<1>9. ASSUME NEW e \in Event, Behind(e, events, inbound) PROVE Behind(e, events', inbound')
  <2>1. e.type = "relay" => e.from \in Socket
    BY DEF Event
  <2>2. QED BY <1>8, <1>9, <2>1 DEF Behind, Thins
<1>10. QED BY <1>3, <1>4, <1>5, <1>7, <1>8, <1>9 DEF Behind

LEMMA RelayOrder ==
  ASSUME IInv, OrderInv, IInv', NEW s \in Socket, NEW m, inbound[s] # <<>>,
         m = Head(inbound[s]), m.type = "relay", m.to \in User, m.n \in 1..MaxEvents,
         Done(s), events' = events, UNCHANGED connections, Relay(s, m)
  PROVE  OrderInv'
<1>1. PICK e \in Event : e = [type |-> "relay", from |-> s, n |-> m.n]
  BY DEF Event
<1>2. PICK t \in Told : t = [event |-> e, late |-> FALSE]
  BY DEF Told
<1>3. /\ \A v \in User : queue'[v] = IF v = m.to /\ connections[v] = {}
                                      THEN Enqueue(queue[v], e) ELSE queue[v]
      /\ \A r \in Socket : told'[r] = IF Owner[r] = m.to /\ Reached(r)
                                      THEN Append(told[r], t) ELSE told[r]
  BY <1>1, <1>2 DEF Relay, Queue
<1>4. /\ e.type = "relay" /\ e.from = s /\ e.n = m.n /\ t.event = e /\ t.late = FALSE
      /\ \A f \in Event : f.type = "relay" /\ f.from = s /\ Behind(f, events, inbound) =>
           f.n < e.n
      /\ \A f \in Event : Behind(f, events, inbound) => Behind(f, events', inbound')
      /\ Behind(e, events', inbound')
  BY <1>1, <1>2, NextRelay DEF Behind
<1>5. SentInv'
  <2>1. \A r \in Socket : Thins(inbound[r], inbound'[r])
    BY NextRelay
  <2>2. QED BY <2>1 DEF Thins, OrderInv, SentInv
<1>6. ASSUME NEW v \in User, queue'[v] # queue[v]
      PROVE  /\ v = m.to /\ connections[v] = {}
             /\ Takes(queue[v], e, queue'[v])
  <2>1. v = m.to /\ connections[v] = {} /\ queue'[v] = Enqueue(queue[v], e)
    BY <1>3, <1>6
  <2>2. queue[v] \in Seq(Event)
    BY DEF IInv, TypeOK
  <2>3. QED BY <2>1, <2>2, EnqueueAt
<1>7. ASSUME NEW v \in User
      PROVE  /\ DOMAIN queue[v] = 1 .. Len(queue[v]) /\ Len(queue[v]) \in Nat
             /\ \A i \in DOMAIN queue[v] :
                  queue[v][i] \in Event /\ Behind(queue[v][i], events, inbound)
             /\ InOrder(queue[v])
  <2>1. queue[v] \in Seq(Event)
    BY DEF IInv, TypeOK
  <2>2. QED BY <2>1 DEF OrderInv, QueueInv
<1>8. QueueInv'
  <2>1. SUFFICES ASSUME NEW v \in User
                 PROVE  /\ InOrder(queue'[v])
                        /\ \A i \in DOMAIN queue'[v] : Behind(queue'[v][i], events', inbound')
    BY DEF QueueInv
  <2>2. CASE queue'[v] = queue[v]
    BY <1>4, <1>7, <2>2
  <2>3. CASE queue'[v] # queue[v]
    <3>1. PICK d \in Nat : \A i \in DOMAIN queue'[v] :
                  /\ i \in Nat
                  /\ \/ i + d = Len(queue[v]) + 1 /\ queue'[v][i] = e
                     \/ i + d \in 1 .. Len(queue[v]) /\ queue'[v][i] = queue[v][i + d]
      BY <1>6, <2>3 DEF Takes
    <3>2. ASSUME NEW i \in DOMAIN queue'[v], NEW k \in DOMAIN queue'[v], i < k,
                 queue'[v][i].type = "relay", queue'[v][k].type = "relay",
                 queue'[v][i].from = queue'[v][k].from
          PROVE  queue'[v][i].n < queue'[v][k].n
      <4>1. /\ i \in Nat /\ k \in Nat /\ i + d < k + d
            /\ i + d \in 1 .. Len(queue[v]) /\ queue'[v][i] = queue[v][i + d]
        BY <1>7, <3>1, <3>2
      <4>2. CASE queue'[v][k] = e
        BY <1>4, <1>7, <3>2, <4>1, <4>2
      <4>3. CASE k + d \in 1 .. Len(queue[v]) /\ queue'[v][k] = queue[v][k + d]
        BY <1>7, <3>2, <4>1, <4>3 DEF InOrder
      <4>4. QED BY <3>1, <4>2, <4>3
    <3>3. \A i \in DOMAIN queue'[v] : Behind(queue'[v][i], events', inbound')
      BY <1>4, <1>7, <3>1
    <3>4. QED BY <3>2, <3>3 DEF InOrder
  <2>4. QED BY <2>2, <2>3
<1>9. ASSUME NEW r \in Socket
      PROVE  /\ DOMAIN told[r] = 1 .. Len(told[r]) /\ Len(told[r]) \in Nat
             /\ \A i \in DOMAIN told[r] :
                  /\ told[r][i].event \in Event /\ Behind(told[r][i].event, events, inbound)
                  /\ \A k \in DOMAIN queue[Owner[r]] : Precedes(told[r][i], queue[Owner[r]][k])
  <2>1. told[r] \in Seq(Told)
    BY DEF IInv, TypeOK
  <2>2. DOMAIN told[r] = 1 .. Len(told[r]) /\ Len(told[r]) \in Nat
    BY <2>1
  <2>3. \A i \in DOMAIN told[r] : told[r][i] \in Told
    BY <2>1
  <2>4. \A i \in DOMAIN told[r] : told[r][i].event \in Event
    BY <2>3 DEF Told
  <2>5. QED BY <2>2, <2>4 DEF OrderInv, ToldInv
<1>10. ASSUME NEW r \in Socket, told'[r] # told[r]
       PROVE  /\ queue'[Owner[r]] = queue[Owner[r]]
              /\ DOMAIN told'[r] = 1 .. Len(told[r]) + 1
              /\ told'[r][Len(told[r]) + 1] = t
              /\ \A i \in DOMAIN told[r] : told'[r][i] = told[r][i]
  <2>1. Owner[r] = m.to /\ Reached(r) /\ told'[r] = Append(told[r], t)
    BY <1>3, <1>10
  <2>2. queue'[Owner[r]] = queue[Owner[r]]
    BY <1>3, <2>1 DEF Reached
  <2>3. PICK q \in Seq(Told) : q = told[r]
    BY DEF IInv, TypeOK
  <2>4. /\ DOMAIN told'[r] = 1 .. Len(q) + 1 /\ told'[r][Len(q) + 1] = t
        /\ \A i \in DOMAIN q : told'[r][i] = q[i]
    BY <2>1, <2>3, AppendAt
  <2>5. QED BY <2>2, <2>3, <2>4
<1>11. ToldInv'
  <2>1. SUFFICES ASSUME NEW r \in Socket, NEW i \in DOMAIN told'[r]
                 PROVE  /\ Behind(told'[r][i].event, events', inbound')
                        /\ \A k \in DOMAIN queue'[Owner[r]] :
                             Precedes(told'[r][i], queue'[Owner[r]][k])
    BY DEF ToldInv
  <2>2. Owner[r] \in User
    BY OwnerAssumption
  <2>3. CASE told'[r] = told[r]
    <3>1. told[r][i].event \in Event /\ Behind(told[r][i].event, events, inbound)
      BY <1>9, <2>3
    <3>2. ASSUME NEW k \in DOMAIN queue'[Owner[r]]
          PROVE  Precedes(told[r][i], queue'[Owner[r]][k])
      <4>1. CASE queue'[Owner[r]] = queue[Owner[r]]
        BY <1>9, <2>3, <4>1
      <4>2. CASE queue'[Owner[r]][k] = e
        <5>1. told[r][i].event.type = "relay" /\ told[r][i].event.from = s =>
                told[r][i].event.n < e.n
          BY <1>4, <3>1
        <5>2. told[r][i].event # e
          BY <1>4, <5>1, NextRelay
        <5>3. QED BY <1>4, <4>2, <5>1, <5>2 DEF Precedes
      <4>3. CASE \E j \in DOMAIN queue[Owner[r]] : queue'[Owner[r]][k] = queue[Owner[r]][j]
        BY <1>9, <2>3, <4>3
      <4>4. QED BY <1>6, <1>7, <2>2, <4>1, <4>2, <4>3 DEF Takes
    <3>3. QED BY <1>4, <2>3, <3>1, <3>2
  <2>4. CASE told'[r] # told[r]
    <3>1. CASE i \in DOMAIN told[r]
      BY <1>4, <1>9, <1>10, <2>4, <3>1
    <3>2. CASE i \notin DOMAIN told[r]
      <4>1. told'[r][i] = t
        BY <1>9, <1>10, <2>4, <3>2
      <4>2. \A k \in DOMAIN queue[Owner[r]] : queue[Owner[r]][k] # e
        <5>1. \A k \in DOMAIN queue[Owner[r]] :
                queue[Owner[r]][k] \in Event /\ Behind(queue[Owner[r]][k], events, inbound)
          BY <1>7, <2>2
        <5>2. ~(e.n < e.n)
          BY <1>4, NextRelay
        <5>3. QED BY <1>4, <5>1, <5>2
      <4>3. QED BY <1>4, <1>10, <2>4, <4>1, <4>2 DEF Precedes
    <3>3. QED BY <3>1, <3>2
  <2>5. QED BY <2>3, <2>4
<1>12. RelayedOnceInOrder'
  <2>1. SUFFICES ASSUME NEW r \in Socket, NEW i \in DOMAIN told'[r], NEW k \in DOMAIN told'[r],
                        i < k, told'[r][i].event.type = "relay", told'[r][k].event.type = "relay"
                 PROVE  /\ told'[r][i].event # told'[r][k].event
                        /\ told'[r][i].late = told'[r][k].late
                           /\ told'[r][i].event.from = told'[r][k].event.from =>
                             told'[r][i].event.n < told'[r][k].event.n
    BY DEF RelayedOnceInOrder
  <2>2. CASE told'[r] = told[r]
    BY <2>1, <2>2 DEF OrderInv, RelayedOnceInOrder
  <2>3. CASE told'[r] # told[r] /\ k \in DOMAIN told[r]
    <3>1. i \in DOMAIN told[r] /\ told'[r][i] = told[r][i] /\ told'[r][k] = told[r][k]
      BY <1>9, <1>10, <2>1, <2>3
    <3>2. QED BY <2>1, <2>3, <3>1 DEF OrderInv, RelayedOnceInOrder
  <2>4. CASE told'[r] # told[r] /\ k \notin DOMAIN told[r]
    <3>1. i \in DOMAIN told[r] /\ told'[r][i] = told[r][i] /\ told'[r][k] = t
      BY <1>9, <1>10, <2>1, <2>4
    <3>2. told[r][i].event.from = s => told[r][i].event.n < e.n
      BY <1>4, <1>9, <2>1, <3>1
    <3>3. ~(e.n < e.n)
      BY <1>4, NextRelay
    <3>4. QED BY <1>4, <3>1, <3>2, <3>3
  <2>5. QED BY <2>2, <2>3, <2>4
<1>13. QED BY <1>5, <1>8, <1>11, <1>12 DEF OrderInv

\* p is t, and behind it the end of q as what comes late.
Drains(t, q, p) ==
  \E d \in Int : \A i \in DOMAIN p :
    /\ i \in Nat
    /\ \/ i \in 1 .. Len(t) /\ p[i] = t[i]
       \/ i > Len(t) /\ i + d \in DOMAIN q /\ p[i].event = q[i + d] /\ p[i].late

LEMMA LateDrains ==
  ASSUME NEW t \in Seq(Told), NEW q \in Seq(Event), NEW old \in 0 .. Len(q)
  PROVE  Drains(t, q, t \o Late(SubSeq(q, old + 1, Len(q))))
<1>1. PICK b \in Seq(Event) : b = SubSeq(q, old + 1, Len(q))
  BY SubSeqType
<1>2. \A i \in DOMAIN b : i \in Nat /\ i + old \in DOMAIN q /\ b[i] = q[i + old]
  BY <1>1
<1>3. /\ DOMAIN b = 1 .. Len(b) /\ Len(b) \in Nat
      /\ Late(b) \in [1 .. Len(b) -> Told]
      /\ \A i \in DOMAIN b : Late(b)[i].event = b[i] /\ Late(b)[i].late
  <2>1. DOMAIN b = 1 .. Len(b) /\ Len(b) \in Nat /\ \A i \in DOMAIN b : b[i] \in Event
    OBVIOUS
  <2>2. \A i \in DOMAIN b : [event |-> b[i], late |-> TRUE] \in Told
    BY <2>1 DEF Told
  <2>3. QED BY <2>1, <2>2 DEF Late
<1>4. PICK l \in Seq(Told) : l = Late(b) /\ Len(l) = Len(b)
  <2>1. Late(b) \in Seq(Told)
    BY <1>3
  <2>2. QED BY <1>3, <2>1
<1>5. PICK p : p = t \o l
  OBVIOUS
<1>6. \A i \in DOMAIN p : /\ i \in Nat
                          /\ \/ i \in 1 .. Len(t) /\ p[i] = t[i]
                             \/ i > Len(t) /\ i - Len(t) \in 1 .. Len(l) /\ p[i] = l[i - Len(t)]
  BY <1>4, <1>5
<1>7. \A i \in DOMAIN p :
        /\ i \in Nat
        /\ \/ i \in 1 .. Len(t) /\ p[i] = t[i]
           \/ /\ i > Len(t) /\ i + (old - Len(t)) \in DOMAIN q
              /\ p[i].event = q[i + (old - Len(t))] /\ p[i].late
  <2>1. ASSUME NEW i \in DOMAIN p, i > Len(t), i - Len(t) \in 1 .. Len(l), p[i] = l[i - Len(t)]
        PROVE  /\ i + (old - Len(t)) \in DOMAIN q
               /\ p[i].event = q[i + (old - Len(t))] /\ p[i].late
    <3>1. PICK j \in DOMAIN b : j = i - Len(t)
      BY <1>3, <1>4, <2>1
    <3>2. j + old = i + (old - Len(t))
      <4>1. i \in Nat /\ Len(t) \in Nat
        BY <1>6
      <4>2. QED BY <3>1, <4>1
    <3>3. QED BY <1>2, <1>3, <1>4, <2>1, <3>1, <3>2
  <2>2. QED BY <1>6, <2>1
<1>8. old - Len(t) \in Int
  OBVIOUS
<1>9. QED BY <1>1, <1>4, <1>5, <1>7, <1>8 DEF Drains

LEMMA AuthOkOrder ==
  ASSUME IInv, OrderInv, IInv', NEW s \in Socket, AuthOk(s)
  PROVE  OrderInv'
<1>1. PICK u \in User : u = Owner[s]
  BY OwnerAssumption
<1>2. /\ \A v \in User : queue'[v] = IF v = u THEN <<>> ELSE queue[v]
      /\ events' = events /\ \A r \in Socket : Thins(inbound[r], inbound'[r])
  BY <1>1, DoneThins DEF AuthOk, Drained, IInv, TypeOK
<1>3. ASSUME NEW r \in Socket, told'[r] # told[r]
      PROVE  Owner[r] = u /\ Drains(told[r], queue[u], told'[r])
  <2>1. PICK old \in 0 .. Len(queue[u]) :
          told' = [c \in Socket |->
            IF Owner[c] = u /\ Reached(c)
            THEN told[c] \o Late(SubSeq(queue[u], old + 1, Len(queue[u]))) ELSE told[c]]
    BY <1>1 DEF AuthOk
  <2>2. Owner[r] = u /\ told'[r] = told[r] \o Late(SubSeq(queue[u], old + 1, Len(queue[u])))
    BY <1>3, <2>1
  <2>3. told[r] \in Seq(Told) /\ queue[u] \in Seq(Event)
    BY DEF IInv, TypeOK
  <2>4. QED BY <2>2, <2>3, LateDrains
<1>4. \A e \in Event : Behind(e, events, inbound) => Behind(e, events', inbound')
  <2>1. \A e \in Event : e.type = "relay" => e.from \in Socket
    BY DEF Event
  <2>2. QED BY <1>2, <2>1 DEF Behind, Thins
<1>5. SentInv'
  BY <1>2 DEF Thins, OrderInv, SentInv
<1>6. ASSUME NEW v \in User
      PROVE  /\ \A i \in DOMAIN queue[v] :
                  queue[v][i] \in Event /\ Behind(queue[v][i], events, inbound)
             /\ InOrder(queue[v])
  <2>1. queue[v] \in Seq(Event)
    BY DEF IInv, TypeOK
  <2>2. QED BY <2>1 DEF OrderInv, QueueInv
<1>7. QueueInv'
  <2>1. ASSUME NEW v \in User
        PROVE  /\ InOrder(queue'[v])
               /\ \A i \in DOMAIN queue'[v] : Behind(queue'[v][i], events', inbound')
    BY <1>2, <1>4, <1>6 DEF InOrder
  <2>2. QED BY <2>1 DEF QueueInv
<1>8. ASSUME NEW r \in Socket
      PROVE  /\ DOMAIN told[r] = 1 .. Len(told[r]) /\ Len(told[r]) \in Nat
             /\ \A i \in DOMAIN told[r] :
                  /\ told[r][i].event \in Event /\ Behind(told[r][i].event, events, inbound)
                  /\ \A k \in DOMAIN queue[Owner[r]] : Precedes(told[r][i], queue[Owner[r]][k])
  <2>1. told[r] \in Seq(Told)
    BY DEF IInv, TypeOK
  <2>2. DOMAIN told[r] = 1 .. Len(told[r]) /\ Len(told[r]) \in Nat
    BY <2>1
  <2>3. \A i \in DOMAIN told[r] : told[r][i] \in Told
    BY <2>1
  <2>4. \A i \in DOMAIN told[r] : told[r][i].event \in Event
    BY <2>3 DEF Told
  <2>5. QED BY <2>2, <2>4 DEF OrderInv, ToldInv
<1>9. ToldInv'
  <2>1. SUFFICES ASSUME NEW r \in Socket, NEW i \in DOMAIN told'[r]
                 PROVE  /\ Behind(told'[r][i].event, events', inbound')
                        /\ \A k \in DOMAIN queue'[Owner[r]] :
                             Precedes(told'[r][i], queue'[Owner[r]][k])
    BY DEF ToldInv
  <2>2. Owner[r] \in User
    BY OwnerAssumption
  <2>3. CASE told'[r] = told[r]
    <3>1. told[r][i].event \in Event /\ Behind(told[r][i].event, events, inbound)
      BY <1>8, <2>3
    <3>2. Behind(told'[r][i].event, events', inbound')
      BY <1>4, <2>3, <3>1
    <3>3. queue'[Owner[r]] = queue[Owner[r]] \/ queue'[Owner[r]] = <<>>
      BY <1>2, <2>2
    <3>4. \A k \in DOMAIN queue[Owner[r]] : Precedes(told'[r][i], queue[Owner[r]][k])
      BY <1>8, <2>3
    <3>5. \A k \in DOMAIN queue'[Owner[r]] : Precedes(told'[r][i], queue'[Owner[r]][k])
      BY <3>3, <3>4
    <3>6. QED BY <3>2, <3>5
  <2>4. CASE told'[r] # told[r]
    <3>1. queue'[Owner[r]] = <<>>
      BY <1>2, <1>3, <2>4
    <3>2. Drains(told[r], queue[u], told'[r])
      BY <1>3, <2>4
    <3>3. Behind(told'[r][i].event, events, inbound) /\ told'[r][i].event \in Event
      BY <1>6, <1>8, <3>2 DEF Drains
    <3>4. QED BY <1>4, <3>1, <3>3
  <2>5. QED BY <2>3, <2>4
<1>10. RelayedOnceInOrder'
  <2>1. SUFFICES ASSUME NEW r \in Socket, NEW i \in DOMAIN told'[r], NEW k \in DOMAIN told'[r],
                        i < k, told'[r][i].event.type = "relay", told'[r][k].event.type = "relay"
                 PROVE  /\ told'[r][i].event # told'[r][k].event
                        /\ told'[r][i].late = told'[r][k].late
                           /\ told'[r][i].event.from = told'[r][k].event.from =>
                             told'[r][i].event.n < told'[r][k].event.n
    BY DEF RelayedOnceInOrder
  <2>2. CASE told'[r] = told[r]
    BY <2>1, <2>2 DEF OrderInv, RelayedOnceInOrder
  <2>3. CASE told'[r] # told[r]
    <3>1. Owner[r] = u
      BY <1>3, <2>3
    <3>2. PICK d \in Int : \A j \in DOMAIN told'[r] :
            /\ j \in Nat
            /\ \/ j \in 1 .. Len(told[r]) /\ told'[r][j] = told[r][j]
               \/ /\ j > Len(told[r]) /\ j + d \in DOMAIN queue[u]
                  /\ told'[r][j].event = queue[u][j + d] /\ told'[r][j].late
      BY <1>3, <2>3 DEF Drains
    <3>3. CASE k \in 1 .. Len(told[r]) /\ told'[r][k] = told[r][k]
      <4>1. i \in DOMAIN told[r] /\ k \in DOMAIN told[r] /\ told'[r][i] = told[r][i]
        BY <1>8, <2>1, <3>2, <3>3
      <4>2. QED BY <2>1, <3>3, <4>1 DEF OrderInv, RelayedOnceInOrder
    <3>4. CASE /\ k > Len(told[r]) /\ k + d \in DOMAIN queue[u]
               /\ told'[r][k].event = queue[u][k + d] /\ told'[r][k].late
      <4>1. CASE i \in 1 .. Len(told[r]) /\ told'[r][i] = told[r][i]
        <5>1. Precedes(told[r][i], queue[u][k + d])
          BY <1>8, <3>1, <3>4, <4>1
        <5>2. QED BY <2>1, <3>4, <4>1, <5>1 DEF Precedes
      <4>2. CASE /\ i > Len(told[r]) /\ i + d \in DOMAIN queue[u]
                 /\ told'[r][i].event = queue[u][i + d] /\ told'[r][i].late
        <5>1. InOrder(queue[u]) /\ i + d < k + d
          BY <1>6, <2>1, <3>2
        <5>2. queue[u][i + d].from = queue[u][k + d].from =>
                queue[u][i + d].n < queue[u][k + d].n
          BY <2>1, <3>4, <4>2, <5>1 DEF InOrder
        <5>3. queue[u][k + d].n \in Nat
          BY <1>6, <2>1, <3>4 DEF Event
        <5>4. QED BY <3>4, <4>2, <5>2, <5>3
      <4>3. QED BY <3>2, <4>1, <4>2
    <3>5. QED BY <3>2, <3>3, <3>4
  <2>4. QED BY <2>2, <2>3
<1>11. QED BY <1>5, <1>7, <1>9, <1>10 DEF OrderInv

LEMMA BecomesOrder ==
  ASSUME IInv, OrderInv, IInv', NEW s \in Socket, NEW state, Becomes(s, state),
         events' \in {events, events + 1}, \A r \in Socket : Thins(inbound[r], inbound'[r])
  PROVE  OrderInv'
<1>1. told' = [told EXCEPT ![s] = <<>>] /\ UNCHANGED queue
  BY DEF Becomes
<1>2. \A r \in Socket : told'[r] = told[r] \/ told'[r] = <<>>
  BY <1>1 DEF IInv, TypeOK
<1>3. QED BY <1>1, <1>2, QuietOrder

LEMMA ClientOrder ==
  ASSUME IInv, OrderInv, IInv', NEW s \in Socket,
         Client(s) \/ AuthTimeout(s) \/ Heartbeat(s)
  PROVE  OrderInv'
<1>1. CASE Open(s) \/ Hangup(s) \/ AuthTimeout(s) \/ Heartbeat(s)
  <2>1. PICK state : Becomes(s, state)
    BY <1>1 DEF Open, Hangup, AuthTimeout, Heartbeat
  <2>2. UNCHANGED <<inbound, events>>
    BY <1>1 DEF Open, Hangup, AuthTimeout, Heartbeat
  <2>3. QED BY <2>1, <2>2, BecomesOrder, Stays
<1>2. CASE Authenticate(s)
  <2>1. Becomes(s, "open") /\ events' = events
        /\ inbound' = [inbound EXCEPT ![s] = <<[type |-> "auth"]>>]
    BY <1>2 DEF Authenticate
  <2>2. \A q : Thins(q, <<[type |-> "auth"]>>)
    BY DEF Thins, Increasing, RelaysOf
  <2>3. \A r \in Socket : Thins(inbound[r], inbound'[r])
    BY <2>1, <2>2, Stays DEF IInv, TypeOK
  <2>4. QED BY <2>1, <2>3, BecomesOrder
<1>3. CASE SendStatus(s)
  <2>1. PICK st \in Status : Send(s, [type |-> "status", status |-> st])
    BY <1>3 DEF SendStatus
  <2>2. PICK m \in Message : m = [type |-> "status", status |-> st]
    BY DEF Message
  <2>3. QED BY <2>1, <2>2, SendOrder
<1>4. CASE SendRelay(s)
  <2>1. PICK v \in User : Send(s, [type |-> "relay", to |-> v, n |-> events + 1])
    BY <1>4 DEF SendRelay
  <2>2. events + 1 \in 1..MaxEvents
    BY <2>1, BoundAssumption DEF Send, IInv, TypeOK
  <2>3. PICK m \in Message : m = [type |-> "relay", to |-> v, n |-> events + 1]
    BY <2>2 DEF Message
  <2>4. QED BY <2>1, <2>3, SendOrder
<1>5. CASE Break(s)
  <2>1. Becomes(s, "broken") /\ events' = events + 1
    BY <1>5 DEF Break
  <2>2. PICK n \in 0..Len(inbound[s]) : inbound' = [inbound EXCEPT ![s] = SubSeq(@, 1, n)]
    BY <1>5 DEF Break
  <2>3. inbound[s] \in Seq(Message) /\ inbound \in [Socket -> Seq(Message)]
    BY DEF IInv, TypeOK
  <2>4. Thins(inbound[s], SubSeq(inbound[s], 1, n))
    BY <2>3, FrontThins
  <2>5. \A r \in Socket : Thins(inbound[r], inbound'[r])
    BY <2>2, <2>3, <2>4, Stays
  <2>6. QED BY <2>1, <2>5, BecomesOrder
<1>6. QED BY <1>1, <1>2, <1>3, <1>4, <1>5 DEF Client

LEMMA NextOrder ==
  ASSUME IInv, OrderInv, IInv', [Next]_vars
  PROVE  OrderInv'
<1>1. ASSUME UNCHANGED <<inbound, queue, told, events>> PROVE OrderInv'
  <2>1. \A r \in Socket : Thins(inbound[r], inbound'[r])
    BY <1>1, Stays
  <2>2. QED BY <1>1, <2>1, QuietOrder
<1>2. CASE UNCHANGED vars
  BY <1>1, <1>2 DEF vars, clients
<1>3. CASE Next
  <2>1. PICK s \in Socket : Client(s) \/ Handles(s) \/ Ends(s) \/ Fails(s)
    BY <1>3 DEF Next
  <2>2. Owner[s] \in User /\ {"online", "offline"} \subseteq Status
    BY OwnerAssumption, StatusAssumption
  <2>3. ASSUME step[s] # "idle", Done(s), UNCHANGED <<queue, told>>,
               events' \in {events, events + 1}
        PROVE  OrderInv'
    <3>1. \A r \in Socket : Thins(inbound[r], inbound'[r])
      BY <2>3, DoneThins
    <3>2. QED BY <2>3, <3>1, QuietOrder
  <2>4. CASE AddConnection(s)
    <3>1. UNCHANGED <<queue, told, events>>
      BY <2>4 DEF AddConnection, clients
    <3>2. UNCHANGED inbound \/ (step[s] # "idle" /\ Done(s))
      BY <2>4 DEF AddConnection
    <3>3. QED BY <1>1, <2>3, <3>1, <3>2
  <2>5. CASE Announce(s) \/ Left(s)
    <3>1. PICK st \in Status : Broadcast(Owner[s], st)
      BY <2>2, <2>5 DEF Announce, Left
    <3>2. UNCHANGED <<inbound, events>>
      BY <2>5 DEF Announce, Left
    <3>3. QED BY <2>2, <3>1, <3>2, BroadcastOrder, Stays
  <2>6. CASE StatusUpdated(s)
    <3>1. inbound[s] \in Seq(Message) /\ Is(s, "status") /\ inbound[s] # <<>>
          /\ step[s] # "idle" /\ Done(s)
      BY <2>6 DEF StatusUpdated, IInv, TypeOK, StepInv, AtWork
    <3>2. Head(inbound[s]) \in Message /\ Head(inbound[s]).type = "status"
      BY <3>1 DEF Is
    <3>3. PICK st \in Status : Broadcast(Owner[s], st)
      BY <2>6, <3>2, Read DEF StatusUpdated
    <3>4. \A r \in Socket : Thins(inbound[r], inbound'[r])
      BY <3>1, DoneThins
    <3>5. events' = events
      BY <2>6 DEF StatusUpdated
    <3>6. QED BY <2>2, <3>3, <3>4, <3>5, BroadcastOrder
  <2>7. CASE UpdateStatus(s) \/ BeginRelay(s) \/ Close(s)
    BY <1>1, <2>7 DEF UpdateStatus, BeginRelay, Close, clients
  <2>8. CASE Checked(s)
    <3>1. inbound[s] \in Seq(Message) /\ Is(s, "relay") /\ inbound[s] # <<>>
          /\ step[s] # "idle" /\ Done(s) /\ events' = events /\ UNCHANGED connections
      BY <2>8 DEF Checked, IInv, TypeOK, StepInv, AtWork, Is, tracking
    <3>2. PICK m : m = Head(inbound[s]) /\ m.type = "relay" /\ m.to \in User
                   /\ m.n \in 1..MaxEvents
      <4>1. Head(inbound[s]) \in Message /\ Head(inbound[s]).type = "relay"
        BY <3>1 DEF Is
      <4>2. QED BY <4>1, Read
    <3>3. CASE Relay(s, m)
      BY <3>1, <3>2, <3>3, RelayOrder
    <3>4. CASE UNCHANGED <<queue, clients>>
      BY <2>3, <3>1, <3>4 DEF clients
    <3>5. QED BY <2>8, <3>2, <3>3, <3>4 DEF Checked
  <2>9. CASE Fails(s)
    <3>1. events' = events + 1 /\ UNCHANGED <<queue, told>>
      BY <2>9 DEF Fails, clients
    <3>2. \/ step[s] # "idle" /\ Done(s)
          \/ UNCHANGED inbound
      BY <2>9 DEF Fails
    <3>3. CASE UNCHANGED inbound
      BY <3>1, <3>3, QuietOrder, Stays
    <3>4. QED BY <2>3, <3>1, <3>2, <3>3
  <2>10. QED BY <2>1, <2>4, <2>5, <2>6, <2>7, <2>8, <2>9, ClientOrder, AuthOkOrder
         DEF Handles, Ends
<1>4. QED BY <1>2, <1>3

\* No relayed event comes twice over a socket, and those of a sender come in order,
\* directly and from the queue, however sockets come, go and fail.
THEOREM RelaysInOrder == Spec => []RelayedOnceInOrder
<1> DEFINE I == IInv /\ OrderInv
<1>1. Init => I
  BY StartsTyped, OrderInit
<1>2. I /\ [Next]_vars => I'
  BY NextKeeps, NextOrder
<1>3. I => RelayedOnceInOrder
  BY DEF OrderInv
<1>4. QED BY <1>1, <1>2, <1>3, PTL DEF Spec

-----------------------------------------------------------------------------
(* What the friends were told of a user's status *)

\* A client that was sent auth_ok has an open socket which the server can reach,
\* and nothing is at work for a socket that has sent nothing.
ReadyInv ==
  /\ \A s \in Socket : sock[s] \in {"new", "silent"} => step[s] = "idle" /\ inbound[s] = <<>>
  /\ \A s \in Socket : step[s] \in {"announce", "friends"} => s \in claimed \cap Identified
  /\ ready \subseteq {s \in claimed \cap Identified : sock[s] = "open"}

\* What waits for a list of friends, to tell them the News: a handler or a close event.
Job == Socket \X {"close", "handler"}

Active(j) ==
  IF j[2] = "close" THEN j[1] \in leaving ELSE step[j[1]] \in {"announce", "broadcast"}

News(j) ==
  IF j[2] = "close" THEN "offline"
  ELSE IF step[j[1]] = "announce" THEN "online" ELSE Head(inbound[j[1]]).status

Pending(u) == {j \in Job : Owner[j[1]] = u /\ Active(j)}

\* Unless broadcasts overlapped, one is under way and brings the status, or none
\* is and all who were told know it.
Settles(v) ==
  ~unsure[v] =>
    /\ \A j, k \in Pending(v) : j = k
    /\ \A j \in Pending(v) : News(j) = status[v]
    /\ Pending(v) = {} => \A s \in Socket : heard[s][v] \in {"nothing", status[v]}

SettleInv == \A v \in User : Settles(v)

HeardInv ==
  \A s \in Socket, v \in User :
    heard[s][v] # "nothing" => s \in ready /\ Owner[s] \in FriendsOf(v)

Informed == ReadyInv /\ SettleInv /\ HeardInv

LEMMA InformedInit == Init => Informed
<1> SUFFICES ASSUME Init PROVE Informed
  OBVIOUS
<1>1. \A j \in Job : j[1] \in Socket /\ ~Active(j)
  BY DEF Init, Job, Active
<1>2. \A s \in Socket, v \in User : heard[s][v] = "nothing"
  BY DEF Init, NothingHeard
<1>3. SettleInv
  BY <1>1, <1>2 DEF SettleInv, Settles, Pending
<1>4. HeardInv
  BY <1>2 DEF HeardInv
<1>5. ReadyInv
  BY DEF Init, ReadyInv
<1>6. QED BY <1>3, <1>4, <1>5 DEF Informed

\* Job j is what it was.
Same(j) == (Active(j)' <=> Active(j)) /\ (Active(j) => News(j)' = News(j))

\* Nothing happens that concerns v.
LEMMA Elsewhere ==
  ASSUME NEW v \in User, Settles(v), \A j \in Job : Owner[j[1]] = v => Same(j),
         unsure'[v] = unsure[v], status'[v] = status[v],
         \A s \in Socket : heard'[s][v] \in {heard[s][v], "nothing"}
  PROVE  Settles(v)'
<1>1. Pending(v)' = Pending(v) /\ \A j \in Pending(v) : News(j)' = News(j)
  BY DEF Pending, Same
<1>2. QED BY <1>1 DEF Settles

\* A broadcast about u begins, and waits for u's friends as job j.
LEMMA Begins ==
  ASSUME TypeOK, SettleInv, NEW j \in Job, NEW u \in User, u = Owner[j[1]],
         \A k \in Job \ {j} : Same(k), Active(j)', News(j)' = status'[u],
         \A v \in User \ {u} : status'[v] = status[v], Announces(u), UNCHANGED heard
  PROVE  SettleInv'
<1>1. /\ ~unsure'[u] => ~unsure[u] /\ ~Underway(u)
      /\ \A v \in User \ {u} : unsure'[v] = unsure[v]
  BY Zenon DEF Announces, TypeOK
<1>2. ASSUME NEW v \in User \ {u} PROVE Settles(v)'
  <2>1. \A k \in Job : Owner[k[1]] = v => Same(k)
    OBVIOUS
  <2>2. Settles(v) /\ unsure'[v] = unsure[v] /\ status'[v] = status[v]
    BY <1>1 DEF SettleInv
  <2>3. QED BY <2>1, <2>2, Elsewhere
<1>3. ASSUME ~Underway(u) PROVE Pending(u)' \subseteq {j}
  <2>1. ASSUME NEW k \in Job \ {j}, Owner[k[1]] = u PROVE ~Active(k)
    <3>1. k[1] \in Socket
      BY DEF Job
    <3>2. QED BY <1>3, <2>1, <3>1 DEF Underway, Active
  <2>2. QED BY <2>1 DEF Pending, Same
<1>4. Settles(u)'
  <2>1. SUFFICES ASSUME ~unsure'[u]
                 PROVE  /\ \A k, l \in Pending(u)' : k = l
                        /\ \A k \in Pending(u)' : News(k)' = status'[u]
                        /\ Pending(u)' = {} =>
                             \A s \in Socket : heard'[s][u] \in {"nothing", status'[u]}
    BY DEF Settles
  <2>2. Pending(u)' = {j}
    BY <1>1, <1>3, <2>1 DEF Pending
  <2>3. QED BY <2>2
<1>5. QED BY <1>2, <1>4 DEF SettleInv

\* Who is told of a friend's status: every client that was sent auth_ok.
LEMMA AllHear ==
  ASSUME TypeOK, TrackInv, ReadyInv, HeardInv, NEW u \in User, NEW st, Broadcast(u, st),
         NEW s \in Socket
  PROVE  /\ heard'[s][u] \in {"nothing", st}
         /\ \A v \in User \ {u} : heard'[s][v] = heard[s][v]
         /\ heard'[s] = heard[s] \/ (s \in ready /\ Owner[s] \in FriendsOf(u))
<1>1. heard'[s] = IF Owner[s] \in FriendsOf(u) /\ Reached(s) /\ s \in ready
                  THEN [heard[s] EXCEPT ![u] = st] ELSE heard[s]
  BY DEF Broadcast
<1>2. heard[s] \in [User -> Status \cup {"nothing"}]
  BY DEF TypeOK
<1>3. CASE Owner[s] \in FriendsOf(u) /\ s \in ready
  <2>1. Reached(s)
    BY <1>3 DEF ReadyInv, TrackInv, Reached
  <2>2. QED BY <1>1, <1>2, <1>3, <2>1
<1>4. CASE ~(Owner[s] \in FriendsOf(u) /\ s \in ready)
  <2>1. heard'[s] = heard[s] /\ heard[s][u] = "nothing"
    BY <1>1, <1>4 DEF HeardInv
  <2>2. QED BY <2>1
<1>5. QED BY <1>3, <1>4

\* The broadcast about u that job j waited for.
LEMMA Finishes ==
  ASSUME TypeOK, TrackInv, ReadyInv, SettleInv, HeardInv,
         NEW j \in Job, NEW u \in User, u = Owner[j[1]], Active(j), ~Active(j)',
         \A k \in Job \ {j} : Same(k), Broadcast(u, News(j)), UNCHANGED <<status, unsure>>
  PROVE  SettleInv'
<1>1. ASSUME NEW v \in User \ {u} PROVE Settles(v)'
  <2>1. \A k \in Job : Owner[k[1]] = v => Same(k)
    OBVIOUS
  <2>2. \A s \in Socket : heard'[s][v] = heard[s][v]
    BY AllHear
  <2>3. Settles(v)
    BY DEF SettleInv
  <2>4. QED BY <2>1, <2>2, <2>3, Elsewhere
<1>2. Settles(u)'
  <2>1. SUFFICES ASSUME ~unsure[u]
                 PROVE  /\ \A k, l \in Pending(u)' : k = l
                        /\ \A k \in Pending(u)' : News(k)' = status[u]
                        /\ Pending(u)' = {} =>
                             \A s \in Socket : heard'[s][u] \in {"nothing", status[u]}
    BY DEF Settles
  <2>2. j \in Pending(u) /\ Settles(u)
    BY DEF Pending, SettleInv
  <2>3. Pending(u) = {j} /\ News(j) = status[u]
    BY <2>1, <2>2 DEF Settles
  <2>4. Pending(u)' = {}
    BY <2>3 DEF Pending, Same
  <2>5. \A s \in Socket : heard'[s][u] \in {"nothing", status[u]}
    BY <2>3, AllHear
  <2>6. QED BY <2>4, <2>5
<1>3. QED BY <1>1, <1>2 DEF SettleInv

\* A broadcast about u fails before it was sent.
LEMMA FallsAway ==
  ASSUME SettleInv, NEW j \in Job, NEW u \in User, u = Owner[j[1]],
         \A k \in Job \ {j} : Same(k), unsure'[u],
         \A v \in User \ {u} : unsure'[v] = unsure[v], UNCHANGED <<status, heard>>
  PROVE  SettleInv'
<1>1. ASSUME NEW v \in User \ {u} PROVE Settles(v)'
  <2>1. \A k \in Job : Owner[k[1]] = v => Same(k)
    OBVIOUS
  <2>2. Settles(v)
    BY DEF SettleInv
  <2>3. QED BY <2>1, <2>2, Elsewhere
<1>2. Settles(u)'
  BY DEF Settles
<1>3. QED BY <1>1, <1>2 DEF SettleInv

\* No broadcast begins or ends.
LEMMA Unconcerned ==
  ASSUME SettleInv, \A k \in Job : Same(k), UNCHANGED <<status, unsure>>,
         \A s \in Socket, v \in User : heard'[s][v] \in {heard[s][v], "nothing"}
  PROVE  SettleInv'
BY Elsewhere DEF SettleInv

-----------------------------------------------------------------------------
(* Which jobs a step concerns *)

LEMMA JobOf ==
  ASSUME NEW s \in Socket, NEW w \in {"close", "handler"}
  PROVE  <<s, w>> \in Job /\ <<s, w>>[1] = s /\ <<s, w>>[2] = w
BY DEF Job

\* Only the handler of s goes on.
LEMMA OtherJobs ==
  ASSUME TypeOK, NEW s \in Socket, NEW stage, step' = [step EXCEPT ![s] = stage],
         \A r \in Socket \ {s} : inbound'[r] = inbound[r], UNCHANGED leaving,
         NEW k \in Job, k # <<s, "handler">>
  PROVE  Same(k)
<1>1. PICK r \in Socket, w \in {"close", "handler"} : k = <<r, w>>
  BY DEF Job
<1>2. k[1] = r /\ k[2] = w
  BY <1>1
<1>3. CASE w = "close"
  BY <1>2, <1>3 DEF Same, Active, News
<1>4. CASE w = "handler"
  <2>1. r # s
    BY <1>1, <1>4
  <2>2. step'[r] = step[r] /\ inbound'[r] = inbound[r]
    BY <2>1 DEF TypeOK
  <2>3. QED BY <1>2, <1>4, <2>2 DEF Same, Active, News
<1>5. QED BY <1>3, <1>4

\* The handlers and close events go on as they were, but for those of s.
LEMMA HandlerRests ==
  ASSUME TypeOK, NEW s \in Socket, NEW stage, step' = [step EXCEPT ![s] = stage],
         \A r \in Socket \ {s} : inbound'[r] = inbound[r], UNCHANGED leaving,
         \/ step[s] \notin {"announce", "broadcast"} /\ stage \notin {"announce", "broadcast"}
         \/ stage = step[s] /\ Head(inbound'[s]) = Head(inbound[s]),
         NEW k \in Job
  PROVE  Same(k)
<1>1. CASE k # <<s, "handler">>
  BY <1>1, OtherJobs
<1>2. CASE k = <<s, "handler">>
  <2>1. k[1] = s /\ k[2] = "handler" /\ step'[s] = stage
    BY <1>2 DEF TypeOK
  <2>2. QED BY <2>1 DEF Same, Active, News
<1>3. QED BY <1>1, <1>2

LEMMA AllRest ==
  ASSUME UNCHANGED <<step, leaving>>, NEW k \in Job,
         \A r \in Socket : Head(inbound'[r]) = Head(inbound[r]) \/ step[r] = "idle"
  PROVE  Same(k)
<1>1. k[1] \in Socket
  BY DEF Job
<1>2. QED BY <1>1 DEF Same, Active, News

\* The other jobs when a close event's job comes or goes.
LEMMA OtherCloses ==
  ASSUME NEW s \in Socket, UNCHANGED <<inbound, step>>,
         leaving' = leaving \cup {s} \/ leaving' = leaving \ {s},
         NEW k \in Job, k # <<s, "close">>
  PROVE  Same(k)
<1>1. PICK r \in Socket, w \in {"close", "handler"} : k = <<r, w>>
  BY DEF Job
<1>2. k[1] = r /\ k[2] = w /\ (w = "close" => r # s)
  BY <1>1
<1>3. QED BY <1>2 DEF Same, Active, News

LEMMA QuietSettles ==
  ASSUME IInv, Informed, NEW s \in Socket,
         Client(s) \/ AuthTimeout(s) \/ Heartbeat(s)
  PROVE  SettleInv'
<1>1. inbound \in [Socket -> Seq(Message)] /\ step \in [Socket -> Stage]
  BY DEF IInv, TypeOK
<1>2. UNCHANGED <<status, unsure, leaving>>
  BY DEF Client, Open, Authenticate, SendStatus, SendRelay, Send, Hangup, Break, AuthTimeout,
         Heartbeat, Becomes
<1>3. \A r \in Socket, v \in User : heard'[r][v] \in {heard[r][v], "nothing"}
  <2>1. heard' = heard \/ heard' = [heard EXCEPT ![s] = NothingHeard]
    BY DEF Client, Open, Authenticate, SendStatus, SendRelay, Send, Hangup, Break, AuthTimeout,
           Heartbeat, Becomes, clients
  <2>2. QED BY <2>1 DEF IInv, TypeOK, NothingHeard
<1>4. CASE Open(s) \/ Hangup(s) \/ AuthTimeout(s) \/ Heartbeat(s)
  <2>1. UNCHANGED <<inbound, step>>
    BY <1>4 DEF Open, Hangup, AuthTimeout, Heartbeat
  <2>2. \A k \in Job : Same(k)
    BY <1>2, <2>1, AllRest
  <2>3. QED BY <1>2, <1>3, <2>2, Unconcerned DEF Informed
<1>5. CASE Authenticate(s)
  <2>1. /\ step[s] = "idle" /\ step' = [step EXCEPT ![s] = "user"]
        /\ \A r \in Socket \ {s} : inbound'[r] = inbound[r]
    BY <1>1, <1>5 DEF Authenticate, Goes, Informed, ReadyInv
  <2>2. \A k \in Job : Same(k)
    BY <1>2, <2>1, HandlerRests DEF IInv
  <2>3. QED BY <1>2, <1>3, <2>2, Unconcerned DEF Informed
<1>6. ASSUME step[s] # "idle" => Head(inbound'[s]) = Head(inbound[s]), UNCHANGED step,
             \A r \in Socket \ {s} : inbound'[r] = inbound[r]
      PROVE  SettleInv'
  <2>1. \A k \in Job : Same(k)
    BY <1>2, <1>6, AllRest
  <2>2. QED BY <1>2, <1>3, <2>1, Unconcerned DEF Informed
<1>7. ASSUME NEW m \in Message, Send(s, m) PROVE SettleInv'
  <2>1. inbound[s] \in Seq(Message) /\ inbound' = [inbound EXCEPT ![s] = Append(@, m)]
    BY <1>1, <1>7 DEF Send
  <2>2. inbound[s] # <<>> => Head(Append(inbound[s], m)) = Head(inbound[s])
    BY <2>1, AppendType
  <2>3. step[s] # "idle" => inbound[s] # <<>>
    BY DEF IInv, StepInv, AtWork
  <2>4. UNCHANGED step
    BY <1>7 DEF Send
  <2>5. QED BY <1>1, <1>6, <2>1, <2>2, <2>3, <2>4
<1>8. CASE SendStatus(s)
  <2>1. PICK st \in Status : Send(s, [type |-> "status", status |-> st])
    BY <1>8 DEF SendStatus
  <2>2. [type |-> "status", status |-> st] \in Message
    BY DEF Message
  <2>3. QED BY <1>7, <2>1, <2>2
<1>9. CASE SendRelay(s)
  <2>1. PICK v \in User : Send(s, [type |-> "relay", to |-> v, n |-> events + 1])
    BY <1>9 DEF SendRelay
  <2>2. events + 1 \in 1..MaxEvents
    BY <2>1, BoundAssumption DEF Send, IInv, TypeOK
  <2>3. [type |-> "relay", to |-> v, n |-> events + 1] \in Message
    BY <2>2 DEF Message
  <2>4. QED BY <1>7, <2>1, <2>3
<1>10. CASE Break(s)
  <2>1. PICK n \in 0..Len(inbound[s]) :
          /\ step[s] # "idle" => n > 0
          /\ inbound' = [inbound EXCEPT ![s] = SubSeq(@, 1, n)]
    BY <1>10 DEF Break
  <2>2. n > 0 => Head(SubSeq(inbound[s], 1, n)) = Head(inbound[s])
    BY <1>1, FrontType
  <2>3. UNCHANGED step
    BY <1>10 DEF Break
  <2>4. QED BY <1>1, <1>6, <2>1, <2>2, <2>3
<1>11. QED BY <1>4, <1>5, <1>8, <1>9, <1>10 DEF Client

\* A handler that does not wait to tell friends goes on or ends.
LEMMA HandlerSettles ==
  ASSUME IInv, Informed, NEW s \in Socket, NEW stage, step' = [step EXCEPT ![s] = stage],
         step[s] \notin {"announce", "broadcast"}, stage \notin {"announce", "broadcast"},
         \A r \in Socket \ {s} : inbound'[r] = inbound[r],
         UNCHANGED <<leaving, status, unsure, heard>>
  PROVE  SettleInv'
<1>1. \A k \in Job : Same(k)
  BY HandlerRests DEF IInv
<1>2. QED BY <1>1, Unconcerned DEF Informed

LEMMA DoneAt ==
  ASSUME IInv, NEW s \in Socket, Done(s)
  PROVE  /\ step' = [step EXCEPT ![s] = "idle"] /\ step'[s] = "idle"
         /\ \A r \in Socket \ {s} : inbound'[r] = inbound[r]
BY DEF Done, Goes, IInv, TypeOK

LEMMA BeginsSettle ==
  ASSUME IInv, Informed, NEW s \in Socket, AddConnection(s) \/ UpdateStatus(s)
  PROVE  SettleInv'
<1> DEFINE j == <<s, "handler">>
<1>1. j \in Job /\ j[1] = s /\ j[2] = "handler"
  BY JobOf
<1> HIDE DEF j
<1>2. PICK u \in User : u = Owner[s]
  BY OwnerAssumption
<1>3. status \in [User -> Status] /\ step \in [Socket -> Stage]
  BY DEF IInv, TypeOK
<1>4. UNCHANGED <<leaving, heard>>
  BY DEF AddConnection, UpdateStatus, clients
<1>5. CASE AddConnection(s) /\ s \in Identified /\ connections[u] = {} /\ Goes(s, "announce")
  <2>1. /\ step' = [step EXCEPT ![s] = "announce"] /\ UNCHANGED inbound
        /\ status' = [status EXCEPT ![u] = "online"] /\ Announces(u)
    BY <1>2, <1>5 DEF AddConnection, Goes
  <2>2. \A k \in Job \ {j} : Same(k)
    BY <1>4, <2>1, OtherJobs DEF j, IInv
  <2>3. Active(j)' /\ News(j)' = status'[u]
    BY <1>1, <1>3, <2>1 DEF Active, News
  <2>4. \A v \in User \ {u} : status'[v] = status[v]
    BY <1>3, <2>1
  <2>5. QED BY <1>1, <1>2, <1>4, <2>1, <2>2, <2>3, <2>4, Begins DEF IInv, Informed
<1>6. CASE AddConnection(s) /\ ~(s \in Identified /\ connections[u] = {} /\ Goes(s, "announce"))
  <2>1. step[s] = "user" /\ UNCHANGED <<status, unsure>>
    BY <1>2, <1>6 DEF AddConnection
  <2>2. PICK stage \in {"friends", "idle"} :
          /\ step' = [step EXCEPT ![s] = stage]
          /\ \A r \in Socket \ {s} : inbound'[r] = inbound[r]
    BY <1>2, <1>6, DoneAt DEF AddConnection, Goes
  <2>3. QED BY <1>4, <2>1, <2>2, HandlerSettles
<1>7. CASE UpdateStatus(s)
  <2>1. /\ step' = [step EXCEPT ![s] = "broadcast"] /\ UNCHANGED inbound
        /\ status' = [status EXCEPT ![u] = Head(inbound[s]).status] /\ Announces(u)
    BY <1>2, <1>7 DEF UpdateStatus, Goes
  <2>2. \A k \in Job \ {j} : Same(k)
    BY <1>4, <2>1, OtherJobs DEF j, IInv
  <2>3. Active(j)' /\ News(j)' = status'[u]
    BY <1>1, <1>3, <2>1 DEF Active, News
  <2>4. \A v \in User \ {u} : status'[v] = status[v]
    BY <1>3, <2>1
  <2>5. QED BY <1>1, <1>2, <1>4, <2>1, <2>2, <2>3, <2>4, Begins DEF IInv, Informed
<1>8. QED BY <1>5, <1>6, <1>7

LEMMA FinishesSettle ==
  ASSUME IInv, TrackInv, Informed, NEW s \in Socket, Announce(s) \/ StatusUpdated(s)
  PROVE  SettleInv'
<1> DEFINE j == <<s, "handler">>
<1>1. j \in Job /\ j[1] = s /\ j[2] = "handler"
  BY JobOf
<1> HIDE DEF j
<1>2. PICK u \in User : u = Owner[s]
  BY OwnerAssumption
<1>3. PICK stage \in {"friends", "idle"} :
        /\ step' = [step EXCEPT ![s] = stage] /\ step'[s] = stage
        /\ \A r \in Socket \ {s} : inbound'[r] = inbound[r]
  BY DoneAt DEF Announce, StatusUpdated, Goes, IInv, TypeOK
<1>4. UNCHANGED <<leaving, status, unsure>>
  BY DEF Announce, StatusUpdated
<1>5. \A k \in Job \ {j} : Same(k)
  BY <1>3, <1>4, OtherJobs DEF j, IInv
<1>6. Active(j) /\ ~Active(j)' /\ Broadcast(u, News(j))
  BY <1>1, <1>2, <1>3 DEF Announce, StatusUpdated, Active, News
<1>7. QED BY <1>1, <1>2, <1>4, <1>5, <1>6, Finishes DEF IInv, Informed

LEMMA RestSettle ==
  ASSUME IInv, Informed, NEW s \in Socket, AuthOk(s) \/ BeginRelay(s) \/ Checked(s)
  PROVE  SettleInv'
<1>1. UNCHANGED <<leaving, status, unsure, heard>>
  BY DEF AuthOk, BeginRelay, Checked, clients, Relay
<1>2. step[s] \notin {"announce", "broadcast"}
  BY DEF AuthOk, BeginRelay, Checked
<1>3. PICK stage \in {"check", "idle"} :
        /\ step' = [step EXCEPT ![s] = stage]
        /\ \A r \in Socket \ {s} : inbound'[r] = inbound[r]
  BY DoneAt DEF AuthOk, BeginRelay, Checked, Goes
<1>4. QED BY <1>1, <1>2, <1>3, HandlerSettles

LEMMA FailsSettle ==
  ASSUME IInv, Informed, NEW s \in Socket, Fails(s)
  PROVE  SettleInv'
<1>1. PICK u \in User : u = Owner[s]
  BY OwnerAssumption
<1>2. UNCHANGED <<status, heard>>
  BY DEF Fails, clients
<1>3. CASE Done(s) /\ step[s] \in {"announce", "broadcast"} /\ UNCHANGED leaving
           /\ unsure' = [unsure EXCEPT ![Owner[s]] = @ \/ step[s] \in {"announce", "broadcast"}]
  <2>1. <<s, "handler">> \in Job /\ <<s, "handler">>[1] = s
    BY JobOf
  <2>2. \A k \in Job \ {<<s, "handler">>} : Same(k)
    BY <1>3, DoneAt, OtherJobs DEF IInv
  <2>3. unsure'[u] /\ \A v \in User \ {u} : unsure'[v] = unsure[v]
    BY <1>1, <1>3, Zenon DEF IInv, TypeOK
  <2>4. QED BY <1>1, <1>2, <2>1, <2>2, <2>3, FallsAway DEF Informed
<1>4. CASE Done(s) /\ step[s] \notin {"announce", "broadcast"} /\ UNCHANGED leaving
           /\ unsure' = [unsure EXCEPT ![Owner[s]] = @ \/ step[s] \in {"announce", "broadcast"}]
  <2>1. \A k \in Job : Same(k)
    BY <1>4, DoneAt, HandlerRests DEF IInv
  <2>2. \A v \in User : unsure'[v] = unsure[v]
    BY <1>4, Zenon DEF IInv, TypeOK
  <2>3. QED BY <1>2, <2>1, <2>2, Elsewhere DEF Informed, SettleInv
<1>5. CASE s \in leaving /\ leaving' = leaving \ {s} /\ UNCHANGED <<inbound, step>>
           /\ unsure' = [unsure EXCEPT ![Owner[s]] = TRUE]
  <2>1. <<s, "close">> \in Job /\ <<s, "close">>[1] = s
    BY JobOf
  <2>2. \A k \in Job \ {<<s, "close">>} : Same(k)
    BY <1>5, OtherCloses
  <2>3. unsure'[u] /\ \A v \in User \ {u} : unsure'[v] = unsure[v]
    BY <1>1, <1>5 DEF IInv, TypeOK
  <2>4. QED BY <1>1, <1>2, <2>1, <2>2, <2>3, FallsAway DEF Informed
<1>6. QED BY <1>3, <1>4, <1>5 DEF Fails

LEMMA CloseSettles ==
  ASSUME IInv, TrackInv, Informed, NEW s \in Socket, Close(s) \/ Left(s)
  PROVE  SettleInv'
<1> DEFINE j == <<s, "close">>
<1>1. j \in Job /\ j[1] = s /\ j[2] = "close"
  BY JobOf
<1> HIDE DEF j
<1>2. PICK u \in User : u = Owner[s]
  BY OwnerAssumption
<1>3. UNCHANGED <<inbound, step>>
  BY DEF Close, Left
<1>4. CASE Close(s) /\ leaving' = leaving \cup {s} /\ Announces(u)
           /\ status' = [status EXCEPT ![u] = "offline"]
  <2>1. \A k \in Job \ {j} : Same(k)
    BY <1>3, <1>4, OtherCloses DEF j
  <2>2. Active(j)' /\ News(j)' = status'[u]
    BY <1>1, <1>4 DEF Active, News, IInv, TypeOK
  <2>3. \A v \in User \ {u} : status'[v] = status[v]
    BY <1>4 DEF IInv, TypeOK
  <2>4. UNCHANGED heard
    BY <1>4 DEF Close, clients
  <2>5. QED BY <1>1, <1>2, <1>4, <2>1, <2>2, <2>3, <2>4, Begins DEF IInv, Informed
<1>5. CASE Close(s) /\ UNCHANGED <<status, leaving, unsure>>
  <2>1. \A k \in Job : Same(k)
    BY <1>3, <1>5, AllRest
  <2>2. UNCHANGED heard
    BY <1>5 DEF Close, clients
  <2>3. QED BY <1>5, <2>1, <2>2, Unconcerned DEF Informed
<1>6. CASE Left(s)
  <2>1. \A k \in Job \ {j} : Same(k)
    BY <1>3, <1>6, OtherCloses DEF j, Left
  <2>2. Active(j) /\ ~Active(j)' /\ Broadcast(u, News(j))
    BY <1>1, <1>2, <1>6 DEF Left, Active, News
  <2>3. UNCHANGED <<status, unsure>>
    BY <1>6 DEF Left
  <2>4. QED BY <1>1, <1>2, <2>1, <2>2, <2>3, Finishes DEF IInv, Informed
<1>7. QED BY <1>2, <1>4, <1>5, <1>6 DEF Close

\* Clients that are told something are ready, and their sockets are open.
LEMMA NextHeard ==
  ASSUME IInv, TrackInv, Informed, [Next]_vars
  PROVE  HeardInv'
<1>1. ASSUME UNCHANGED heard, ready \subseteq ready' PROVE HeardInv'
  BY <1>1 DEF Informed, HeardInv
<1>2. ASSUME NEW u \in User, NEW st, Broadcast(u, st) PROVE HeardInv'
  <2>1. ready' = ready
    BY <1>2 DEF Broadcast
  <2>2. SUFFICES ASSUME NEW s \in Socket, NEW v \in User, heard'[s][v] # "nothing"
                 PROVE  s \in ready /\ Owner[s] \in FriendsOf(v)
    BY <2>1 DEF HeardInv
  <2>3. CASE v = u
    <3>1. heard'[s] = heard[s] \/ (s \in ready /\ Owner[s] \in FriendsOf(u))
      BY <1>2, AllHear DEF IInv, Informed
    <3>2. QED BY <2>2, <2>3, <3>1 DEF Informed, HeardInv
  <2>4. CASE v # u
    <3>1. heard'[s][v] = heard[s][v]
      BY <1>2, <2>4, AllHear DEF IInv, Informed
    <3>2. QED BY <2>2, <3>1 DEF Informed, HeardInv
  <2>5. QED BY <2>3, <2>4
<1>3. ASSUME NEW s \in Socket, NEW state, Becomes(s, state) PROVE HeardInv'
  <2>1. /\ ready' = ready \ {s} /\ heard \in [Socket -> [User -> Status \cup {"nothing"}]]
        /\ heard' = [heard EXCEPT ![s] = NothingHeard]
    BY <1>3 DEF Becomes, IInv, TypeOK
  <2>2. QED BY <2>1 DEF Informed, HeardInv, NothingHeard
<1>4. CASE UNCHANGED vars
  BY <1>1, <1>4 DEF vars, clients
<1>5. CASE Next
  <2>1. PICK s \in Socket : Client(s) \/ Handles(s) \/ Ends(s) \/ Fails(s)
    BY <1>5 DEF Next
  <2>2. CASE SendStatus(s) \/ SendRelay(s)
    BY <1>1, <2>2 DEF SendStatus, SendRelay, Send, clients
  <2>3. CASE \/ Open(s) \/ Authenticate(s) \/ Hangup(s) \/ Break(s)
             \/ AuthTimeout(s) \/ Heartbeat(s)
    <3>1. PICK state : Becomes(s, state)
      BY <2>3 DEF Open, Authenticate, Hangup, Break, AuthTimeout, Heartbeat
    <3>2. QED BY <1>3, <3>1
  <2>4. CASE Announce(s) \/ StatusUpdated(s) \/ Left(s)
    <3>1. PICK st : Broadcast(Owner[s], st)
      BY <2>4 DEF Announce, StatusUpdated, Left
    <3>2. QED BY <1>2, <3>1, OwnerAssumption
  <2>5. CASE \/ AddConnection(s) \/ AuthOk(s) \/ UpdateStatus(s) \/ BeginRelay(s)
             \/ Checked(s) \/ Close(s) \/ Fails(s)
    BY <1>1, <2>5 DEF AddConnection, AuthOk, UpdateStatus, BeginRelay, Checked, Relay, Close,
                      Fails, clients
  <2>6. QED BY <2>1, <2>2, <2>3, <2>4, <2>5 DEF Client, Handles, Ends
<1>6. QED BY <1>4, <1>5

LEMMA NextReady ==
  ASSUME IInv, Informed, [Next]_vars
  PROVE  ReadyInv'
<1>1. /\ sock \in [Socket -> State] /\ step \in [Socket -> Stage]
      /\ inbound \in [Socket -> Seq(Message)]
  BY DEF IInv, TypeOK
<1>2. CASE UNCHANGED vars
  BY <1>2 DEF vars, clients, Informed, ReadyInv
<1>3. CASE Next
  <2>1. PICK s \in Socket : Client(s) \/ Handles(s) \/ Ends(s) \/ Fails(s)
    BY <1>3 DEF Next
  <2>2. ASSUME UNCHANGED <<sock, ready>>, claimed \subseteq claimed', step[s] # "idle",
               NEW stage, step' = [step EXCEPT ![s] = stage],
               \A r \in Socket \ {s} : inbound'[r] = inbound[r],
               stage \in {"announce", "friends"} => s \in claimed' \cap Identified
        PROVE  ReadyInv'
    BY <1>1, <2>2 DEF Informed, ReadyInv
  <2>3. CASE Open(s) \/ Hangup(s) \/ AuthTimeout(s) \/ Heartbeat(s)
    <3>1. PICK state \in {"silent", "closing"} :
            Becomes(s, state) /\ (state = "silent" => sock[s] = "new")
      BY <2>3 DEF Open, Hangup, AuthTimeout, Heartbeat
    <3>2. UNCHANGED <<inbound, step>>
      BY <2>3 DEF Open, Hangup, AuthTimeout, Heartbeat
    <3>3. sock' = [sock EXCEPT ![s] = state] /\ ready' = ready \ {s} /\ UNCHANGED claimed
      BY <3>1 DEF Becomes
    <3>4. QED BY <1>1, <3>1, <3>2, <3>3 DEF Informed, ReadyInv
  <2>4. CASE Authenticate(s)
    BY <1>1, <2>4 DEF Authenticate, Becomes, Goes, Informed, ReadyInv
  <2>5. CASE Break(s)
    BY <1>1, <2>5 DEF Break, Becomes, Informed, ReadyInv
  <2>6. CASE SendStatus(s) \/ SendRelay(s)
    <3>1. PICK m : Send(s, m)
      BY <2>6 DEF SendStatus, SendRelay
    <3>2. QED BY <1>1, <3>1 DEF Send, clients, Informed, ReadyInv
  <2>7. CASE AddConnection(s)
    <3>1. PICK stage \in {"announce", "friends", "idle"} :
            /\ step' = [step EXCEPT ![s] = stage]
            /\ \A r \in Socket \ {s} : inbound'[r] = inbound[r]
            /\ stage \in {"announce", "friends"} => s \in Identified
      BY <2>7, DoneAt DEF AddConnection, Goes
    <3>2. UNCHANGED <<sock, ready>> /\ claimed' = claimed \cup {s} /\ step[s] # "idle"
      BY <2>7 DEF AddConnection, clients
    <3>3. QED BY <2>2, <3>1, <3>2
  <2>8. CASE Announce(s) \/ StatusUpdated(s) \/ Checked(s)
    <3>1. PICK stage \in {"friends", "idle"} :
            /\ step' = [step EXCEPT ![s] = stage]
            /\ \A r \in Socket \ {s} : inbound'[r] = inbound[r]
            /\ stage = "friends" => step[s] = "announce"
      BY <2>8, DoneAt DEF Announce, StatusUpdated, Checked, Goes
    <3>2. UNCHANGED <<sock, ready, claimed>> /\ step[s] # "idle"
      BY <2>8 DEF Announce, StatusUpdated, Checked, Broadcast, Relay, clients
    <3>3. QED BY <2>2, <3>1, <3>2 DEF Informed, ReadyInv
  <2>9. CASE AuthOk(s)
    <3>1. /\ step' = [step EXCEPT ![s] = "idle"] /\ step[s] = "friends"
          /\ \A r \in Socket \ {s} : inbound'[r] = inbound[r]
          /\ UNCHANGED <<sock, claimed>>
          /\ ready' = IF sock[s] = "open" THEN ready \cup {s} ELSE ready
      BY <2>9, DoneAt DEF AuthOk
    <3>2. QED BY <1>1, <3>1 DEF Informed, ReadyInv
  <2>10. CASE UpdateStatus(s) \/ BeginRelay(s)
    <3>1. PICK stage \in {"broadcast", "check"} : step' = [step EXCEPT ![s] = stage]
      BY <2>10 DEF UpdateStatus, BeginRelay, Goes
    <3>2. UNCHANGED <<sock, ready, claimed, inbound>> /\ inbound[s] # <<>>
      BY <2>10 DEF UpdateStatus, BeginRelay, Is, clients
    <3>3. QED BY <1>1, <3>1, <3>2 DEF Informed, ReadyInv
  <2>11. CASE Close(s)
    BY <1>1, <2>11 DEF Close, clients, Informed, ReadyInv
  <2>12. CASE Left(s)
    BY <1>1, <2>12 DEF Left, Broadcast, Informed, ReadyInv
  <2>13. CASE Fails(s)
    <3>1. UNCHANGED <<sock, ready, claimed>>
      BY <2>13 DEF Fails, clients
    <3>2. CASE UNCHANGED <<inbound, step>>
      BY <3>1, <3>2 DEF Informed, ReadyInv
    <3>3. CASE step[s] # "idle" /\ Done(s)
      BY <2>2, <3>1, <3>3, DoneAt
    <3>4. QED BY <2>13, <3>2, <3>3 DEF Fails
  <2>14. QED BY <2>1, <2>3, <2>4, <2>5, <2>6, <2>7, <2>8, <2>9, <2>10, <2>11, <2>12, <2>13
         DEF Client, Handles, Ends
<1>4. QED BY <1>2, <1>3

LEMMA NextSettles ==
  ASSUME IInv, TrackInv, Informed, [Next]_vars
  PROVE  SettleInv'
<1>1. CASE UNCHANGED vars
  BY <1>1, AllRest, Unconcerned DEF vars, clients, Informed
<1>2. CASE Next
  <2>1. PICK s \in Socket : Client(s) \/ Handles(s) \/ Ends(s) \/ Fails(s)
    BY <1>2 DEF Next
  <2>2. QED BY <2>1, QuietSettles, BeginsSettle, FinishesSettle, RestSettle, FailsSettle,
               CloseSettles DEF Client, Handles, Ends
<1>3. QED BY <1>1, <1>2

LEMMA InformedSettles == Informed => PresenceSettles
<1> SUFFICES ASSUME Informed, NEW s \in ready, NEW v \in FriendsOf(Owner[s]),
                    heard[s][v] # "nothing", ~Underway(v), ~unsure[v]
             PROVE  heard[s][v] = status[v]
  BY DEF PresenceSettles
<1>1. v \in User /\ s \in Socket
  BY IdentifiedAssumption DEF FriendsOf, Informed, ReadyInv
<1>2. Pending(v) = {}
  <2>1. ASSUME NEW j \in Job, Owner[j[1]] = v PROVE ~Active(j)
    <3>1. j[1] \in Socket
      BY DEF Job
    <3>2. QED BY <2>1, <3>1 DEF Active, Underway
  <2>2. QED BY <2>1 DEF Pending
<1>3. QED BY <1>1, <1>2 DEF Informed, SettleInv, Settles

\* A client that was told of a friend knows how the server sees the friend, unless
\* broadcasts about the friend overlap, one is under way or one failed; for any
\* friendships, one way round or both, and whether sockets have ids or not.
THEOREM StatusesSettle == Spec => []PresenceSettles
<1> DEFINE I == IInv /\ TrackInv /\ Informed
<1>1. Init => I
  BY StartsTyped, InformedInit DEF Init, TrackInv
<1>2. I /\ [Next]_vars => I'
  BY NextKeeps, NextTracks, NextHeard, NextReady, NextSettles DEF Informed
<1>3. I => PresenceSettles
  BY InformedSettles
<1>4. QED BY <1>1, <1>2, <1>3, PTL DEF Spec

=============================================================================
