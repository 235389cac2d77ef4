---------------------------- MODULE CallsProofs -----------------------------
(***************************************************************************)
(* Theorems about Calls, for any number of users, calls and connections.   *)
(***************************************************************************)
EXTENDS Calls, TLAPS

-----------------------------------------------------------------------------
(* Type correctness *)

\* What _send_json leaves on the wires.
LEMMA SentType ==
  ASSUME NEW w \in [User \X User -> Seq(Message)], NEW u \in User, NEW v \in User,
         NEW type \in {"call_invite", "call_answer", "call_reject", "call_end"},
         NEW id \in CallId
  PROVE  Sent(w, u, v, type, id) \in [User \X User -> Seq(Message)]
<1>1. [type |-> type, id |-> id] \in Message
  BY DEF Message
<1>2. Append(w[<<u, v>>], [type |-> type, id |-> id]) \in Seq(Message)
  BY <1>1
<1>3. QED BY <1>2 DEF Sent

\* What is taken from a wire is a message.
LEMMA TakenType ==
  ASSUME TypeOK, NEW u \in User, NEW v \in User, wire[<<v, u>>] # <<>>
  PROVE  /\ Taken(u, v) \in [User \X User -> Seq(Message)]
         /\ Head(wire[<<v, u>>]).id \in CallId
<1>1. wire[<<v, u>>] \in Seq(Message)
  BY DEF TypeOK
<1>2. Head(wire[<<v, u>>]) \in Message /\ Tail(wire[<<v, u>>]) \in Seq(Message)
  BY <1>1
<1>3. QED BY <1>2 DEF Taken, Message, TypeOK

LEMMA NoCallType == NoCall \in CallId
BY BoundsAssumption DEF NoCall, CallId

LEMMA NoPopupType == NoPopup \in Popup
BY NoCallType DEF NoPopup, Popup

LEMMA TypeInit == Init => TypeOK
<1> SUFFICES ASSUME Init PROVE TypeOK
  OBVIOUS
<1>1. <<>> \in Seq(Message)
  OBVIOUS
<1>2. 0 \in 0..MaxCalls /\ 0 \in 0..MaxLinks
  BY BoundsAssumption
<1>3. QED BY <1>1, <1>2, NoCallType, NoPopupType DEF Init, TypeOK, State, Reader

\* Ending a call, whoever does it.
LEMMA HangUpType ==
  ASSUME TypeOK, NEW u \in User, HangUp(u)
  PROVE  /\ state' \in [User -> State] /\ callId' \in [User -> CallId]
         /\ peer' \in [User -> User \cup {Nobody}] /\ popup' \in [User -> Popup]
         /\ muted' \in [User -> BOOLEAN] /\ capturing' \in [User -> BOOLEAN]
         /\ ringTimer' \in [User -> BOOLEAN] /\ mediaTimer' \in [User -> BOOLEAN]
         /\ reader' \in [User -> Reader]
<1>1. /\ callId' \in [User -> CallId] /\ popup' \in [User -> Popup]
  BY NoCallType, NoPopupType DEF HangUp, Cleanup, TypeOK
<1>2. QED BY <1>1 DEF HangUp, Cleanup, TypeOK, State, Reader

LEMMA BeginOfferType ==
  ASSUME TypeOK, NEW u \in User, NEW v \in User, NEW rest \in SUBSET Job,
         BeginOffer(u, v, rest), popup' \in [User -> Popup]
  PROVE  TypeOK'
<1>1. calls + 1 \in CallId /\ calls + 1 \in 0..MaxCalls
  BY BoundsAssumption DEF BeginOffer, TypeOK, CallId
<1>2. PICK c \in CallId : c = calls + 1
  BY <1>1
<1>3. [op |-> "offer", with |-> v, id |-> c] \in Job
  BY DEF Job
<1>4. /\ callId' = [callId EXCEPT ![u] = c]
      /\ jobs' = [jobs EXCEPT ![u] = rest \cup {[op |-> "offer", with |-> v, id |-> c]}]
      /\ calls' = c /\ c \in 0..MaxCalls
  BY <1>1, <1>2 DEF BeginOffer
<1>5. PICK k \in Job : k = [op |-> "offer", with |-> v, id |-> c]
  BY <1>3
<1>6. jobs' = [jobs EXCEPT ![u] = rest \cup {k}]
  BY <1>4, <1>5
<1>7. jobs' \in [User -> SUBSET Job] /\ callId' \in [User -> CallId]
  BY <1>4, <1>6 DEF TypeOK
<1>8. QED BY <1>4, <1>7 DEF BeginOffer, TypeOK, Reader, timers, net

LEMMA TypeNext == TypeOK /\ [Next]_vars => TypeOK'
<1> SUFFICES ASSUME TypeOK, [Next]_vars PROVE TypeOK'
  OBVIOUS
<1>w. wire \in [User \X User -> Seq(Message)]
  BY DEF TypeOK
<1>1. ASSUME NEW u \in User, NEW v \in User, StartCall(u, v) PROVE TypeOK'
  <2>1. popup' \in [User -> Popup]
    BY <1>1, NoPopupType DEF StartCall, TypeOK
  <2>2. jobs[u] \in SUBSET Job
    BY DEF TypeOK
  <2>3. CASE BeginOffer(u, v, jobs[u])
    BY <2>1, <2>2, <2>3, BeginOfferType
  <2>4. CASE /\ Start(u, [op |-> "connect", with |-> v, id |-> NoCall])
             /\ UNCHANGED <<call, audio, timers, net, calls>>
    <3>1. [op |-> "connect", with |-> v, id |-> NoCall] \in Job
      BY NoCallType DEF Job
    <3>2. jobs' \in [User -> SUBSET Job]
      BY <2>4, <3>1 DEF Start, TypeOK
    <3>3. QED BY <2>1, <2>4, <3>2 DEF TypeOK, call, audio, timers, net
  <2>5. CASE UNCHANGED <<call, audio, timers, jobs, net, calls>>
    BY <2>1, <2>5 DEF TypeOK, call, audio, timers, net
  <2>6. QED BY <1>1, <2>3, <2>4, <2>5 DEF StartCall
<1>2. ASSUME NEW u \in User, NEW j \in jobs[u], Continue(u, j) PROVE TypeOK'
  <2>0. j \in Job /\ jobs[u] \ {j} \in SUBSET Job
    BY DEF TypeOK
  <2>c. callId[u] \in CallId /\ j.id \in CallId /\ j.with \in User \cup {Nobody}
    BY <2>0 DEF TypeOK, Job
  <2>d. Done(u, j) => jobs' \in [User -> SUBSET Job]
    BY DEF Done, TypeOK
  <2>1. CASE CallConnected(u, j)
    <3>1. j.with \in User
      BY <2>1 DEF CallConnected, TypeOK
    <3>2. popup' \in [User -> Popup]
      BY <2>1 DEF CallConnected, TypeOK
    <3>3. QED BY <2>0, <2>1, <3>1, <3>2, BeginOfferType DEF CallConnected
  <2>2. CASE Fails(u, j)
    BY <2>2, <2>d DEF Fails, TypeOK, call, audio, timers, net
  <2>3. CASE OfferReady(u, j)
    <3>1. CASE j.with \in User
      <4>1. wire' \in [User \X User -> Seq(Message)]
        BY <1>w, <2>3, <2>c, <3>1, SentType DEF OfferReady
      <4>2. QED BY <2>3, <2>d, <4>1 DEF OfferReady, TypeOK, State, audio
    <3>2. CASE j.with \notin User
      <4>1. j.with \notin open[u]
        BY <3>2 DEF TypeOK
      <4>2. wire' = wire
        BY <2>3, <4>1 DEF OfferReady, Sent
      <4>3. QED BY <2>3, <2>d, <4>2 DEF OfferReady, TypeOK, State, audio
    <3>3. QED BY <3>1, <3>2
  <2>4. CASE ApplyDone(u, j)
    BY <2>4, <2>d DEF ApplyDone, SetActive, TypeOK, State, net
  <2>5. CASE AnswerReady(u, j)
    <3>1. wire' \in [User \X User -> Seq(Message)]
      BY <1>w, <2>5, <2>c, SentType DEF AnswerReady
    <3>2. QED BY <2>5, <2>d, <3>1 DEF AnswerReady, TypeOK, State, audio
  <2>6. QED
    BY <1>2, <2>1, <2>2, <2>3, <2>4, <2>5
    DEF Continue, CallUnreachable, OfferFails, ApplyFails, AnswerFails
<1>3. ASSUME NEW u \in User, AcceptCall(u) PROVE TypeOK'
  <2>1. PICK id \in CallId, from \in User \cup {Nobody} :
          id = popup[u].id /\ from = popup[u].from
    BY DEF TypeOK, Popup
  <2>2. popup' \in [User -> Popup]
    BY <1>3, NoPopupType DEF AcceptCall, TypeOK
  <2>3. CASE state[u] \in {"idle", "ringing_in", "ended"}
    <3>1. [op |-> "answer", with |-> from, id |-> id] \in Job
      BY DEF Job
    <3>2. jobs' \in [User -> SUBSET Job]
      BY <1>3, <2>1, <2>3, <3>1 DEF AcceptCall, Start, TypeOK
    <3>3. QED BY <1>3, <2>1, <2>2, <2>3, <3>2
               DEF AcceptCall, TypeOK, Reader, timers, net
  <2>4. CASE state[u] \notin {"idle", "ringing_in", "ended"}
    <3>1. wire' = Sent(wire, u, from, "call_reject", id)
      BY <1>3, <2>1, <2>4 DEF AcceptCall
    <3>2. wire' \in [User \X User -> Seq(Message)]
      <4>1. CASE from \in User
        BY <1>w, <3>1, <4>1, SentType
      <4>2. CASE from \notin User
        BY <1>w, <3>1, <4>2 DEF Sent, TypeOK
      <4>3. QED BY <4>1, <4>2
    <3>3. QED BY <1>3, <2>2, <2>4, <3>2 DEF AcceptCall, TypeOK, call, audio, timers
  <2>5. QED BY <2>3, <2>4
<1>4. ASSUME NEW u \in User, RejectCall(u) PROVE TypeOK'
  <2>1. PICK id \in CallId, from \in User \cup {Nobody} :
          id = popup[u].id /\ from = popup[u].from
    BY DEF TypeOK, Popup
  <2>2. wire' = Sent(wire, u, from, "call_reject", id)
    BY <1>4, <2>1 DEF RejectCall
  <2>3. wire' \in [User \X User -> Seq(Message)]
    <3>1. CASE from \in User
      BY <1>w, <2>2, <3>1, SentType
    <3>2. CASE from \notin User
      BY <1>w, <2>2, <3>2 DEF Sent, TypeOK
    <3>3. QED BY <3>1, <3>2
  <2>4. QED BY <1>4, <2>3, HangUpType DEF RejectCall, TypeOK
<1>5. ASSUME NEW u \in User, End(u) PROVE TypeOK'
  <2>1. wire' \in [User \X User -> Seq(Message)]
    <3>1. callId[u] \in CallId
      BY DEF TypeOK
    <3>2. QED BY <1>w, <1>5, <3>1, SentType DEF End
  <2>2. QED BY <1>5, <2>1, HangUpType DEF End, TypeOK
<1>6. ASSUME NEW u \in User, ToggleMute(u) \/ TrackArrives(u) PROVE TypeOK'
  <2>1. CASE ToggleMute(u)
    <3>1. /\ UNCHANGED <<call, reader, timers, jobs, popup, net, calls>>
          /\ muted' = [muted EXCEPT ![u] = ~@]
          /\ \E b \in BOOLEAN : UNCHANGED capturing \/ capturing' = [capturing EXCEPT ![u] = b]
      BY <2>1 DEF ToggleMute
    <3>2. muted' \in [User -> BOOLEAN] /\ capturing' \in [User -> BOOLEAN]
      BY <3>1 DEF TypeOK
    <3>3. QED BY <3>1, <3>2 DEF TypeOK, call, timers, net
  <2>2. CASE TrackArrives(u)
    BY <2>2 DEF TrackArrives, TypeOK, Reader, call, timers, net
  <2>3. QED BY <1>6, <2>1, <2>2
<1>7. ASSUME NEW u \in User, PlayFrame(u) PROVE TypeOK'
  <2>1. CASE UNCHANGED <<mediaTimer, state, capturing>>
             /\ reader' = [reader EXCEPT ![u] = "played"]
    BY <1>7, <2>1 DEF PlayFrame, TypeOK, Reader, net
  <2>2. CASE /\ reader' = [reader EXCEPT ![u] = "first"]
             /\ mediaTimer' = [mediaTimer EXCEPT ![u] = FALSE]
             /\ SetActive(u)
    <3>1. /\ state' \in [User -> State] /\ capturing' \in [User -> BOOLEAN]
      BY <2>2 DEF SetActive, TypeOK, State
    <3>2. /\ reader' \in [User -> Reader] /\ mediaTimer' \in [User -> BOOLEAN]
      BY <2>2 DEF TypeOK, Reader
    <3>3. UNCHANGED <<callId, peer, muted, ringTimer, jobs, popup, net, calls>>
      BY <1>7 DEF PlayFrame
    <3>4. QED BY <3>1, <3>2, <3>3 DEF TypeOK, net
  <2>3. QED BY <1>7, <2>1, <2>2 DEF PlayFrame
<1>8. ASSUME NEW u \in User, NEW v \in User, OnInvite(u, v) PROVE TypeOK'
  <2>1. wire[<<v, u>>] # <<>>
    BY <1>8 DEF OnInvite, Incoming
  <2>2. PICK id \in CallId : id = Head(wire[<<v, u>>]).id
    BY <2>1, TakenType
  <2>3. Taken(u, v) \in [User \X User -> Seq(Message)]
    BY <2>1, TakenType
  <2>4. Sent(Taken(u, v), u, v, "call_reject", id) \in [User \X User -> Seq(Message)]
    BY <2>3, SentType
  <2>5. PICK p \in Popup : p = [id |-> id, from |-> v]
    BY DEF Popup
  <2>6. wire' \in [User \X User -> Seq(Message)]
    BY <1>8, <2>2, <2>3, <2>4 DEF OnInvite
  <2>7. UNCHANGED popup \/ popup' = [popup EXCEPT ![u] = p]
    BY <1>8, <2>2, <2>5 DEF OnInvite
  <2>8. popup' \in [User -> Popup]
    BY <2>7 DEF TypeOK
  <2>9. /\ UNCHANGED <<callId, peer, audio, timers, jobs, open, links, calls>>
        /\ UNCHANGED state \/ state' = [state EXCEPT ![u] = "ringing_in"]
    BY <1>8 DEF OnInvite, call
  <2>10. state' \in [User -> State]
    BY <2>9 DEF TypeOK, State
  <2>11. QED BY <2>6, <2>8, <2>9, <2>10 DEF TypeOK, audio, timers
<1>9. ASSUME NEW u \in User, NEW v \in User, OnAnswer(u, v) PROVE TypeOK'
  <2>1. wire[<<v, u>>] # <<>>
    BY <1>9 DEF OnAnswer, Incoming
  <2>2. PICK id \in CallId : id = Head(wire[<<v, u>>]).id
    BY <2>1, TakenType
  <2>3. wire' \in [User \X User -> Seq(Message)]
    BY <1>9, <2>1, TakenType DEF OnAnswer
  <2>4. PICK k \in Job : k = [op |-> "apply", with |-> peer[u], id |-> id]
    BY DEF Job, TypeOK
  <2>a. UNCHANGED jobs \/ jobs' = [jobs EXCEPT ![u] = @ \cup {k}]
    BY <1>9, <2>2, <2>4 DEF OnAnswer, Start
  <2>5. jobs' \in [User -> SUBSET Job]
    BY <2>a DEF TypeOK
  <2>6. QED BY <1>9, <2>3, <2>5 DEF OnAnswer, TypeOK, call, audio, timers
<1>10. ASSUME NEW u \in User, NEW v \in User, OnRejectOrEnd(u, v) PROVE TypeOK'
  <2>1. wire[<<v, u>>] # <<>>
    BY <1>10 DEF OnRejectOrEnd, Incoming
  <2>2. wire' \in [User \X User -> Seq(Message)]
    BY <1>10, <2>1, TakenType DEF OnRejectOrEnd
  <2>3. QED BY <1>10, <2>2, HangUpType DEF OnRejectOrEnd, TypeOK, call, audio, timers
<1>11. ASSUME NEW u \in User, NEW v \in User, Connect(u, v) PROVE TypeOK'
  <2>1. links' \in 0..MaxLinks
    BY <1>11, BoundsAssumption DEF Connect, TypeOK
  <2>2. QED BY <1>11, <2>1 DEF Connect, TypeOK, call, audio, timers
<1>12. ASSUME NEW u \in User, NEW v \in User, Disconnect(u, v) PROVE TypeOK'
  <2>1. <<>> \in Seq(Message)
    OBVIOUS
  <2>2. wire' \in [User \X User -> Seq(Message)] /\ open' \in [User -> SUBSET User]
    BY <1>12, <2>1 DEF Disconnect, TypeOK
  <2>3. QED BY <1>12, <2>2, HangUpType DEF Disconnect, TypeOK, call, audio, timers
<1>13. CASE UNCHANGED vars
  BY <1>13 DEF vars, call, audio, timers, net, TypeOK
<1>14. QED
  BY <1>1, <1>2, <1>3, <1>4, <1>5, <1>6, <1>7, <1>8, <1>9, <1>10, <1>11, <1>12, <1>13
  DEF Next, Receive, EndCall, RingTimeout, MediaTimeout

\* Every behaviour keeps the managers, their jobs and the wires in their types.
THEOREM TypeCorrect == Spec => []TypeOK
BY TypeInit, TypeNext, PTL DEF Spec

-----------------------------------------------------------------------------
(* Nothing outlives a call, and every wait is timed *)

IInv == TypeOK /\ QuietAtRest /\ WaitsAreTimed

LEMMA SafeInit == Init => IInv
BY TypeInit DEF Init, IInv, QuietAtRest, WaitsAreTimed, InCall, AtRest

\* What the two invariants say of one user.
Fine(u) ==
  /\ ~InCall(u) => ~capturing[u] /\ ~ringTimer[u] /\ ~mediaTimer[u] /\ ~muted[u]
  /\ state[u] = "ringing_out" => ringTimer[u]
  /\ state[u] = "connecting" => mediaTimer[u]

\* A step concerns one user: the others are as they were.
Others(u) ==
  \A v \in User \ {u} :
    /\ state'[v] = state[v] /\ capturing'[v] = capturing[v] /\ muted'[v] = muted[v]
    /\ ringTimer'[v] = ringTimer[v] /\ mediaTimer'[v] = mediaTimer[v]

LEMMA OneUserLemma ==
  ASSUME IInv, TypeOK', NEW u \in User, Others(u), Fine(u)'
  PROVE  IInv'
BY DEF IInv, Others, Fine, QuietAtRest, WaitsAreTimed, InCall, AtRest

LEMMA HangUpFine ==
  ASSUME IInv, NEW u \in User, HangUp(u)
  PROVE  Others(u) /\ Fine(u)'
BY DEF HangUp, Cleanup, Others, Fine, InCall, AtRest, IInv, TypeOK

LEMMA SameFine ==
  ASSUME IInv, NEW u \in User, UNCHANGED <<state, capturing, muted, timers>>
  PROVE  Others(u) /\ Fine(u)'
BY DEF timers, Others, Fine, InCall, AtRest, IInv, QuietAtRest, WaitsAreTimed

LEMMA ContinueFine ==
  ASSUME IInv, NEW u \in User, NEW j \in jobs[u], Continue(u, j)
  PROVE  Others(u) /\ Fine(u)'
<1>1. CASE CallConnected(u, j)
  BY <1>1, SameFine DEF CallConnected, BeginOffer
<1>2. CASE Fails(u, j)
  BY <1>2, SameFine DEF Fails, call, audio
<1>3. CASE OfferReady(u, j)
  BY <1>3 DEF OfferReady, audio, Others, Fine, InCall, AtRest, IInv, TypeOK
<1>4. CASE ApplyDone(u, j)
  BY <1>4 DEF ApplyDone, SetActive, Others, Fine, InCall, AtRest, IInv, TypeOK
<1>5. CASE AnswerReady(u, j)
  BY <1>5 DEF AnswerReady, audio, Others, Fine, InCall, AtRest, IInv, TypeOK
<1>6. QED
  BY <1>1, <1>2, <1>3, <1>4, <1>5
  DEF Continue, CallUnreachable, OfferFails, ApplyFails, AnswerFails

LEMMA ReceiveFine ==
  ASSUME IInv, NEW u \in User, NEW v \in User, Receive(u, v)
  PROVE  Others(u) /\ Fine(u)'
<1>1. CASE OnInvite(u, v) /\ UNCHANGED call
  BY <1>1, SameFine DEF OnInvite, call, audio
<1>2. CASE OnInvite(u, v) /\ ~InCall(u) /\ state' = [state EXCEPT ![u] = "ringing_in"]
  BY <1>2 DEF OnInvite, audio, timers, Others, Fine, InCall, AtRest, IInv, TypeOK
<1>3. CASE OnAnswer(u, v)
  BY <1>3, SameFine DEF OnAnswer, call, audio
<1>4. CASE OnRejectOrEnd(u, v)
  BY <1>4, SameFine, HangUpFine DEF OnRejectOrEnd, call, audio
<1>5. QED BY <1>1, <1>2, <1>3, <1>4 DEF Receive, OnInvite

LEMMA UserFine ==
  ASSUME IInv, NEW u \in User, NEW v \in User,
         \/ StartCall(u, v) \/ Connect(u, v) \/ Disconnect(u, v)
         \/ AcceptCall(u) \/ RejectCall(u) \/ End(u) \/ ToggleMute(u)
         \/ TrackArrives(u) \/ PlayFrame(u)
  PROVE  Others(u) /\ Fine(u)'
<1>1. CASE StartCall(u, v) \/ Connect(u, v) \/ AcceptCall(u) \/ TrackArrives(u)
  BY <1>1, SameFine
  DEF StartCall, BeginOffer, Start, Connect, AcceptCall, TrackArrives, call, audio
<1>2. CASE Disconnect(u, v) \/ RejectCall(u) \/ End(u)
  BY <1>2, SameFine, HangUpFine DEF Disconnect, RejectCall, End, call, audio
<1>3. CASE ToggleMute(u)
  <2>1. InCall(u)
    BY <1>3 DEF ToggleMute, HasWindow
  <2>2. QED BY <1>3, <2>1 DEF ToggleMute, call, timers, Others, Fine, InCall, AtRest,
                              IInv, TypeOK, WaitsAreTimed
<1>4. CASE PlayFrame(u)
  BY <1>4 DEF PlayFrame, SetActive, Others, Fine, InCall, AtRest, IInv, TypeOK
<1>5. QED BY <1>1, <1>2, <1>3, <1>4

LEMMA SafeNext == IInv /\ [Next]_vars => IInv'
<1> SUFFICES ASSUME IInv, [Next]_vars PROVE IInv'
  OBVIOUS
<1>1. TypeOK'
  BY TypeNext DEF IInv
<1>2. ASSUME NEW u \in User, NEW v \in User,
             \/ StartCall(u, v) \/ Receive(u, v) \/ Connect(u, v) \/ Disconnect(u, v)
             \/ AcceptCall(u) \/ RejectCall(u) \/ End(u) \/ ToggleMute(u)
             \/ TrackArrives(u) \/ PlayFrame(u)
      PROVE  IInv'
  BY <1>1, <1>2, UserFine, ReceiveFine, OneUserLemma
<1>3. ASSUME NEW u \in User, NEW j \in jobs[u], Continue(u, j) PROVE IInv'
  BY <1>1, <1>3, ContinueFine, OneUserLemma
<1>4. CASE UNCHANGED vars
  BY <1>1, <1>4 DEF vars, call, audio, timers, IInv, QuietAtRest, WaitsAreTimed, InCall
<1>5. QED BY <1>2, <1>3, <1>4 DEF Next, EndCall, RingTimeout, MediaTimeout

\* The inductive invariant: it needs no fact about the jobs, which is why
\* their overlaps do no harm to it.
THEOREM Safe == Spec => []IInv
BY SafeInit, SafeNext, PTL DEF Spec

\* A user at rest has a closed microphone, no timer running and is not muted.
THEOREM Quiet == Spec => []QuietAtRest
BY Safe, PTL DEF IInv

\* Whoever rings out or waits for audio is on a timer.
THEOREM Timed == Spec => []WaitsAreTimed
BY Safe, PTL DEF IInv

=============================================================================
