---------------------------- MODULE ClientProofs ----------------------------
(***************************************************************************)
(* What a client does by itself.  Audio keeps its types, and the sound     *)
(* follows the call, for queues of any size and any number of calls.  Chat *)
(* keeps its types, and the window, the numbers and what is marked read    *)
(* agree with the database, for any messages, any Limit and any bounds.    *)
(***************************************************************************)
EXTENDS Audio, Chat, TLAPS, FiniteSetTheorems

USE DEF Phase, InCall, Talks, NoCall, Call

-----------------------------------------------------------------------------
(* The queues *)

LEMMA PutType ==
  ASSUME NEW S, NEW q \in Seq(S), NEW x \in S, NEW most \in Nat \ {0}, Len(q) <= most
  PROVE  Put(q, x, most) \in Seq(S) /\ Len(Put(q, x, most)) <= most
BY DEF Put

LEMMA TailType ==
  ASSUME NEW S, NEW q \in Seq(S), q # <<>>
  PROVE  /\ Head(q) \in S /\ Tail(q) \in Seq(S)
         /\ Len(Tail(q)) <= Len(q)
OBVIOUS

LEMMA Wider ==
  ASSUME NEW S, NEW T, S \subseteq T, NEW q \in Seq(S)
  PROVE  q \in Seq(T)
<1>1. \A i \in 1 .. Len(q) : q[i] \in T
  OBVIOUS
<1>2. QED BY <1>1

LEMMA EmptyType == ASSUME NEW S PROVE <<>> \in Seq(S) /\ Len(<<>>) = 0
OBVIOUS

-----------------------------------------------------------------------------
(* The sound's invariant *)

\* What the microphone's queue may hold: no frame from before the call was active
\* or from a muted one, and none of another call.
Sendable ==
  {f \in Frame : /\ f.kind # "other"
                 /\ f.kind = "talk" => f.call = current /\ phase = "active"}

\* What the loudspeaker's queue may hold: frames of the call that is on, or of a
\* reader that was to end.
Playable == {n \in Call : n = NoCall \/ (n = current /\ Talks)}

QueueInv == mic \in Seq(Sendable) /\ speaker \in Seq(Playable)

\* An open device, a muted user and a stray job have a call.
DeviceInv ==
  /\ capture = "call" \/ playback \/ muted \/ stray => InCall
  /\ current # NoCall => track

\* Unless a job strayed into the call: a microphone has been opened for it in time,
\* or not at all, and whoever reads its frames is of this call.
Settled ==
  /\ capture = "call" => early \/ (phase = "active" /\ ~muted)
  /\ muted /\ phase # "active" => early
  /\ Talks /\ ~closed => current # NoCall
  /\ phase = "active" /\ ~muted /\ ~broken /\ ~closed => capture # "closed"
  /\ reader = "reading" => Talks

IInv == TypeOK /\ DeviceInv /\ OnlyTalkIsSent /\ (stray \/ (Settled /\ QueueInv))

LEMMA InitInv == Init => IInv
<1> SUFFICES ASSUME Init PROVE IInv
  OBVIOUS
<1>1. Flags
  BY DEF Init, Flags
<1>2. TypeOK
  BY <1>1, QueueAssumption, BoundAssumption DEF Init, TypeOK
<1>3. DeviceInv /\ OnlyTalkIsSent /\ Settled
  BY DEF Init, DeviceInv, OnlyTalkIsSent, Settled
<1>4. QueueInv
  BY EmptyType DEF Init, QueueInv
<1>5. QED BY <1>2, <1>3, <1>4 DEF IInv

-----------------------------------------------------------------------------
(* Every step of the sound keeps it *)

\* Frames that could be sent or played before still can, while a call that was on
\* is the same, and active if it was; an empty queue is always right.
LEMMA QueuesStay ==
  ASSUME IInv, ~stray, mic' = mic \/ mic' = <<>>, speaker' = speaker \/ speaker' = <<>>,
         Talks => Talks' /\ current' = current, phase = "active" => phase' = "active"
  PROVE  QueueInv'
<1>1. mic \in Seq(Sendable) /\ speaker \in Seq(Playable)
  BY DEF IInv, QueueInv
<1>2. Sendable \subseteq Sendable'
  BY DEF Sendable
<1>3. Playable \subseteq Playable'
  BY DEF Playable
<1>4. mic' \in Seq(Sendable')
  BY <1>1, <1>2, Wider, EmptyType
<1>5. speaker' \in Seq(Playable')
  BY <1>1, <1>3, Wider, EmptyType
<1>6. QED BY <1>4, <1>5 DEF QueueInv

LEMMA Quietly ==
  ASSUME IInv, TypeOK', DeviceInv', leaked' = leaked, stray' \/ (~stray /\ Settled'),
         mic' = mic \/ mic' = <<>>, speaker' = speaker \/ speaker' = <<>>,
         stray' \/ (Talks => Talks' /\ current' = current),
         stray' \/ (phase = "active" => phase' = "active")
  PROVE  IInv'
<1>1. stray' \/ (Settled' /\ QueueInv')
  BY QueuesStay
<1>2. OnlyTalkIsSent'
  BY DEF IInv, OnlyTalkIsSent
<1>3. QED BY <1>1, <1>2 DEF IInv

\* A step that clears both queues and forgets what strayed.
LEMMA Cleared ==
  ASSUME IInv, TypeOK', DeviceInv', Settled', mic' = <<>>, speaker' = <<>>, UNCHANGED leaked
  PROVE  IInv'
<1>1. QueueInv'
  BY EmptyType DEF QueueInv
<1>2. OnlyTalkIsSent'
  BY DEF IInv, OnlyTalkIsSent
<1>3. QED BY <1>1, <1>2 DEF IInv

LEMMA StepInputCallback == ASSUME IInv, InputCallback PROVE IInv'
<1> DEFINE f == [kind |-> Heard, call |-> current]
<1> USE DEF InputCallback, manager, readers, history
<1>1. f \in Frame
  BY DEF IInv, TypeOK, Frame, Kind, Heard
<1>2. mic' = Put(mic, f, MaxCaptured)
  OBVIOUS
<1>3. mic' \in Seq(Frame) /\ Len(mic') <= MaxCaptured
  BY <1>1, <1>2, PutType, QueueAssumption DEF IInv, TypeOK
<1>4. Flags'
  BY DEF IInv, TypeOK, Flags
<1>5. TypeOK'
  BY <1>3, <1>4 DEF IInv, TypeOK
<1>6. DeviceInv' /\ OnlyTalkIsSent' /\ stray' = stray
  BY DEF IInv, DeviceInv, OnlyTalkIsSent
<1>7. ASSUME ~stray PROVE Settled' /\ QueueInv'
  <2>1. Settled'
    BY <1>7 DEF IInv, Settled
  <2>2. f \in Sendable
    BY <1>1, <1>7 DEF IInv, TypeOK, Flags, Settled, Sendable, Heard
  <2>3. mic' \in Seq(Sendable)
    BY <1>2, <1>7, <2>2, PutType, QueueAssumption DEF IInv, TypeOK, QueueInv
  <2>4. Sendable' = Sendable /\ Playable' = Playable
    BY DEF Sendable, Playable
  <2>5. speaker' \in Seq(Playable')
    BY <1>7, <2>4 DEF IInv, QueueInv
  <2>6. QED BY <2>1, <2>3, <2>4, <2>5 DEF QueueInv
<1>8. QED BY <1>5, <1>6, <1>7 DEF IInv

LEMMA StepOutputCallback == ASSUME IInv, OutputCallback PROVE IInv'
<1> USE DEF OutputCallback, manager, readers, history
<1>1. speaker' \in Seq(Call) /\ Len(speaker') <= MaxPlayed
  BY TailType, QueueAssumption DEF IInv, TypeOK
<1>2. Flags'
  BY DEF IInv, TypeOK, Flags
<1>3. TypeOK'
  BY <1>1, <1>2 DEF IInv, TypeOK
<1>4. DeviceInv' /\ OnlyTalkIsSent' /\ stray' = stray
  BY DEF IInv, DeviceInv, OnlyTalkIsSent
<1>5. ASSUME ~stray PROVE Settled' /\ QueueInv'
  <2>1. Settled'
    BY <1>5 DEF IInv, Settled
  <2>2. Sendable' = Sendable /\ Playable' = Playable
    BY DEF Sendable, Playable
  <2>3. speaker' \in Seq(Playable)
    BY <1>5, TailType DEF IInv, QueueInv
  <2>4. mic' \in Seq(Sendable')
    BY <1>5, <2>2 DEF IInv, QueueInv
  <2>5. QED BY <2>1, <2>2, <2>3, <2>4 DEF QueueInv
<1>6. QED BY <1>3, <1>4, <1>5 DEF IInv

\* The steps that leave the devices and the track alone, and the call that is on.
LEMMA StepQuiet ==
  ASSUME IInv,
         \/ OnAnswer \/ OnInvite \/ Negotiated \/ OnRemoteTrack \/ AwaitFrame \/ TrackEnds
         \/ \E j \in jobs : JobFails(j)
         \/ (StartCall \/ AcceptCall) /\ UNCHANGED <<current, calls, sound, history>>
  PROVE  IInv'
<1>1. /\ UNCHANGED <<current, calls, closed, muted, device, track, orphan, testing, history>>
      /\ phase' = phase \/ (phase = "rest" /\ phase' = "in")
      /\ reader' = reader \/ (reader' = "reading" /\ Talks) \/ reader' \in {"none", "waiting"}
      /\ popup' \in BOOLEAN /\ sender' \in {"none", "ready", "asleep"}
      /\ jobs' \subseteq Job
  <2>1. CASE OnAnswer
    <3>1. [op |-> "apply", id |-> current] \in Job
      BY DEF IInv, TypeOK, Job
    <3>2. QED BY <2>1, <3>1
      DEF OnAnswer, Suspend, sound, readers, device, history, IInv, TypeOK, Flags
  <2>2. CASE OnInvite
    BY <2>2 DEF OnInvite, sound, readers, device, history, IInv, TypeOK
  <2>3. CASE Negotiated \/ OnRemoteTrack \/ AwaitFrame \/ TrackEnds
    BY <2>3 DEF Negotiated, OnRemoteTrack, AwaitFrame, TrackEnds, manager, readers, device,
                history, IInv, TypeOK, Flags
  <2>4. CASE \E j \in jobs : JobFails(j)
    BY <2>4 DEF JobFails, Done, sound, readers, device, history, IInv, TypeOK, Flags
  <2>5. CASE (StartCall \/ AcceptCall) /\ UNCHANGED <<current, calls, sound, history>>
    <3>1. [op |-> "connect", id |-> NoCall] \in Job
      BY BoundAssumption DEF Job
    <3>2. calls + 1 # calls
      BY BoundAssumption DEF IInv, TypeOK
    <3>3. CASE StartCall
      BY <2>5, <3>1, <3>2, <3>3 DEF StartCall, Begin, Suspend, sound, readers, device, history,
                                    IInv, TypeOK, Flags
    <3>4. CASE AcceptCall
      BY <2>5, <3>2, <3>4 DEF AcceptCall, Begin, sound, readers, device, history, IInv, TypeOK
    <3>5. QED BY <2>5, <3>3, <3>4
  <2>6. QED BY <2>1, <2>2, <2>3, <2>4, <2>5
<1> USE DEF device, history
<1>2. Flags'
  BY <1>1 DEF IInv, TypeOK, Flags
<1>3. TypeOK'
  BY <1>1, <1>2 DEF IInv, TypeOK
<1>4. DeviceInv'
  BY <1>1 DEF IInv, DeviceInv
<1>5. stray' \/ (~stray /\ Settled')
  BY <1>1 DEF IInv, DeviceInv, Settled
<1>6. QED BY <1>1, <1>3, <1>4, <1>5, Quietly

LEMMA StepBegin ==
  ASSUME IInv, NEW op \in {"offer", "answer"}, NEW rest \in SUBSET jobs, Begin(op, rest),
         popup' \in BOOLEAN, stray' = stray \/ (InCall /\ stray' = TRUE),
         Talks => stray'
  PROVE  IInv'
<1> USE DEF Begin, Suspend, StopRemoteReader, device
<1>1. calls' \in Call /\ current' \in Call /\ current' # NoCall
  BY BoundAssumption DEF IInv, TypeOK
<1>2. jobs' \subseteq Job
  <2>1. [op |-> op, id |-> calls + 1] \in Job
    BY <1>1 DEF Job
  <2>2. QED BY <2>1 DEF IInv, TypeOK
<1>3. Flags'
  BY DEF IInv, TypeOK, Flags
<1>4. TypeOK'
  BY <1>1, <1>2, <1>3 DEF IInv, TypeOK
<1>5. DeviceInv'
  BY DEF IInv, DeviceInv
<1>6. stray' \/ (~stray /\ Settled')
  BY <1>1 DEF IInv, DeviceInv, Settled
<1>7. QED BY <1>4, <1>5, <1>6, Quietly

\* A job ends in another phase.
LEMMA StepReady ==
  ASSUME IInv, NEW j \in jobs, OfferReady(j) \/ AnswerReady(j) PROVE IInv'
<1> USE DEF OfferReady, AnswerReady, Done, Foreign, sound, readers, device
<1>1. Flags'
  BY DEF IInv, TypeOK, Flags
<1>2. TypeOK'
  BY <1>1 DEF IInv, TypeOK
<1>3. DeviceInv'
  BY DEF IInv, DeviceInv
<1>4. stray' \/ (~stray /\ ~Talks /\ current # NoCall)
  BY DEF IInv, TypeOK
<1>5. stray' \/ (~stray /\ Settled')
  BY <1>4 DEF IInv, DeviceInv, Settled
<1>6. QED BY <1>2, <1>3, <1>4, <1>5, Quietly

\* Stopping the capture clears its queue; otherwise the device stays open.
LEMMA MicType ==
  ASSUME IInv, mic' = <<>> \/ (mic' = mic /\ (capture' = "closed" => capture = "closed"))
  PROVE  /\ mic' \in Seq(Frame) /\ Len(mic') <= MaxCaptured
         /\ capture' = "closed" => mic' = <<>>
<1>1. CASE mic' = <<>>
  BY <1>1, QueueAssumption
<1>2. CASE mic' = mic /\ (capture' = "closed" => capture = "closed")
  BY <1>2 DEF IInv, TypeOK
<1>3. QED BY <1>1, <1>2

\* The devices are opened for the active call, or the failure is recorded.
LEMMA Activated ==
  ASSUME IInv, SetActive
  PROVE  /\ phase' = "active" /\ playback' \in BOOLEAN /\ broken' \in BOOLEAN
         /\ capture' \in {"closed", "call", "test"}
         /\ capture' = "closed" => capture = "closed"
         /\ capture' = "call" => capture = "call" \/ phase # "active"
         /\ phase # "active" => capture' # "closed" \/ broken'
         /\ phase = "active" => UNCHANGED <<capture, broken>>
BY DEF SetActive, StartCapture, StartPlayback, IInv, TypeOK, Flags

LEMMA StepApplyDone ==
  ASSUME IInv, NEW j \in jobs, ApplyDone(j) PROVE IInv'
<1> USE DEF ApplyDone, Done, Foreign, readers
<1>1. /\ phase' = "active" /\ playback' \in BOOLEAN /\ broken' \in BOOLEAN
      /\ capture' \in {"closed", "call", "test"}
      /\ capture' = "closed" => capture = "closed"
      /\ capture' = "call" => capture = "call" \/ phase # "active"
      /\ phase # "active" => capture' # "closed" \/ broken'
      /\ phase = "active" => UNCHANGED <<capture, broken>>
  BY Activated
<1>2. Flags'
  BY <1>1 DEF IInv, TypeOK, Flags
<1>3. TypeOK'
  BY <1>1, <1>2 DEF IInv, TypeOK
<1>4. DeviceInv'
  BY <1>1 DEF IInv, DeviceInv
<1>5. stray' \/ (~stray /\ current # NoCall)
  BY DEF IInv, TypeOK
<1>6. stray' \/ (~stray /\ Settled')
  BY <1>1, <1>5 DEF IInv, TypeOK, Flags, Settled
<1>7. QED BY <1>1, <1>3, <1>4, <1>6, Quietly

LEMMA StepPlay ==
  ASSUME IInv, NEW id \in Call, Play(id), reader' \in {reader, "waiting"}, orphan' \in BOOLEAN,
         stray \/ id \in Playable
  PROVE  IInv'
<1> USE DEF Play
<1> DEFINE Rest == /\ TypeOK' /\ DeviceInv' /\ (stray' \/ Settled')
                   /\ phase' = phase \/ (phase = "connecting" /\ phase' = "active")
<1>1. speaker' \in Seq(Call) /\ Len(speaker') <= MaxPlayed
  BY PutType, QueueAssumption DEF IInv, TypeOK
<1>2. ASSUME phase = "connecting", SetActive PROVE Rest
  <2>1. /\ phase' = "active" /\ playback' \in BOOLEAN /\ broken' \in BOOLEAN
        /\ capture' \in {"closed", "call", "test"}
        /\ capture' = "closed" => capture = "closed"
        /\ capture' # "closed" \/ broken'
    BY <1>2, Activated
  <2>2. Flags'
    BY <2>1 DEF IInv, TypeOK, Flags
  <2>3. TypeOK'
    BY <1>1, <2>1, <2>2 DEF IInv, TypeOK
  <2>4. DeviceInv'
    BY <2>1 DEF IInv, DeviceInv
  <2>5. stray' \/ Settled'
    BY <1>2, <2>1 DEF IInv, TypeOK, Flags, Settled
  <2>6. QED BY <1>2, <2>1, <2>3, <2>4, <2>5
<1>3. ASSUME UNCHANGED <<phase, capture, playback, broken>> PROVE Rest
  <2>1. Flags'
    BY <1>3 DEF IInv, TypeOK, Flags
  <2>2. TypeOK'
    BY <1>1, <1>3, <2>1 DEF IInv, TypeOK
  <2>3. DeviceInv'
    BY <1>3 DEF IInv, DeviceInv
  <2>4. stray' \/ Settled'
    BY <1>3 DEF IInv, TypeOK, Settled
  <2>5. QED BY <1>3, <2>2, <2>3, <2>4
<1>4. Rest
  BY <1>2, <1>3
<1>5. ASSUME ~stray PROVE QueueInv'
  <2>1. speaker' \in Seq(Playable)
    BY <1>5, PutType, QueueAssumption DEF IInv, TypeOK, QueueInv
  <2>2. Playable \subseteq Playable' /\ Sendable \subseteq Sendable'
    BY <1>4 DEF Playable, Sendable
  <2>3. mic' \in Seq(Sendable') /\ speaker' \in Seq(Playable')
    BY <1>5, <2>1, <2>2, Wider DEF IInv, QueueInv
  <2>4. QED BY <2>3 DEF QueueInv
<1>6. OnlyTalkIsSent' /\ stray' = stray
  BY DEF IInv, OnlyTalkIsSent
<1>7. QED BY <1>4, <1>5, <1>6 DEF IInv

LEMMA StepPlayFrame == ASSUME IInv, PlayFrame \/ PlayLateFrame PROVE IInv'
<1>1. CASE PlayFrame
  <2>1. stray \/ current \in Playable
    BY <1>1 DEF PlayFrame, IInv, TypeOK, Settled, Playable
  <2>2. QED BY <1>1, <2>1, StepPlay DEF PlayFrame, IInv, TypeOK, Flags
<1>2. CASE PlayLateFrame
  <2>1. NoCall \in Playable /\ NoCall \in Call
    BY BoundAssumption DEF Playable
  <2>2. QED BY <1>2, <2>1, StepPlay DEF PlayLateFrame, IInv, TypeOK, Flags
<1>3. QED BY <1>1, <1>2

LEMMA StepToggleMute == ASSUME IInv, ToggleMute PROVE IInv'
<1> USE DEF ToggleMute, StopCapture, StartCapture, manager, readers
<1>1. Flags'
  BY DEF IInv, TypeOK, Flags
<1>2. mic' = <<>> \/ mic' = mic
  OBVIOUS
<1>3. /\ mic' \in Seq(Frame) /\ Len(mic') <= MaxCaptured
      /\ capture' = "closed" => mic' = <<>>
  BY MicType
<1>4. TypeOK'
  BY <1>1, <1>3, QueueAssumption DEF IInv, TypeOK
<1>5. DeviceInv'
  BY DEF IInv, DeviceInv
<1>6. stray' \/ (~stray /\ Settled')
  BY DEF IInv, TypeOK, Flags, Settled
<1>7. QED BY <1>2, <1>4, <1>5, <1>6, Quietly

LEMMA StepCleanup ==
  ASSUME IInv, Cleanup, UNCHANGED <<calls, leaked>>,
         phase' = "rest" \/ (phase' = phase /\ closed'),
         jobs' = jobs, popup' \in BOOLEAN, closed' \in BOOLEAN, testing' \in BOOLEAN,
         sender' \in {"none", "ready", "asleep"}
  PROVE  IInv'
<1> USE DEF Cleanup, StopRemoteReader, StopCapture, StopPlayback
<1>1. Flags'
  BY DEF IInv, TypeOK, Flags
<1>2. /\ mic' \in Seq(Frame) /\ Len(mic') <= MaxCaptured
      /\ capture' = "closed" => mic' = <<>>
  BY MicType
<1>3. TypeOK'
  BY <1>1, <1>2, QueueAssumption, BoundAssumption DEF IInv, TypeOK
<1>4. DeviceInv' /\ Settled'
  BY DEF IInv, DeviceInv, Settled
<1>5. QED BY <1>3, <1>4, Cleared

LEMMA StepEnds == ASSUME IInv, EndCall \/ PeerDisconnected \/ Close PROVE IInv'
<1>1. CASE EndCall
  BY <1>1, StepCleanup DEF EndCall, HangUp, IInv, TypeOK, Flags
<1>2. CASE Close
  BY <1>2, StepCleanup DEF Close, IInv, TypeOK, Flags
<1>3. CASE PeerDisconnected /\ InCall /\ current # NoCall
  BY <1>3, StepCleanup DEF PeerDisconnected, IInv, TypeOK, Flags
<1>4. CASE PeerDisconnected /\ ~(InCall /\ current # NoCall)
  <2> USE <1>4 DEF PeerDisconnected, device, readers
  <2>1. Flags'
    BY DEF IInv, TypeOK, Flags
  <2>2. TypeOK'
    BY <2>1 DEF IInv, TypeOK
  <2>3. DeviceInv' /\ (stray' \/ (~stray /\ Settled'))
    BY DEF IInv, TypeOK, Flags, DeviceInv, Settled
  <2>4. QED BY <2>2, <2>3, Quietly
<1>5. QED BY <1>1, <1>2, <1>3, <1>4

\* What the peer gets is what may be sent.
LEMMA TakenFrame ==
  ASSUME IInv, TakeFrame
  PROVE  /\ mic' \in Seq(Frame) /\ Len(mic') <= Len(mic) /\ (mic = <<>> => mic' = <<>>)
         /\ stray \/ mic' \in Seq(Sendable)
         /\ leaked' \subseteq {"test", "early", "stray"}
<1>1. CASE mic # <<>> /\ leaked' = leaked \cup Leaks(Head(mic)) /\ mic' = Tail(mic)
  <2>1. mic' \in Seq(Frame) /\ Len(mic') <= Len(mic)
    BY <1>1, TailType DEF IInv, TypeOK
  <2>2. ASSUME ~stray PROVE mic' \in Seq(Sendable) /\ Head(mic) \in Sendable
    BY <1>1, <2>2, TailType DEF IInv, QueueInv
  <2>3. Leaks(Head(mic)) \subseteq {"test", "early", "stray"}
    BY <2>2 DEF Leaks, Sendable, Frame, Kind
  <2>4. QED BY <1>1, <2>1, <2>2, <2>3 DEF IInv, OnlyTalkIsSent
<1>2. CASE mic = <<>> /\ UNCHANGED <<leaked, mic>>
  BY <1>2 DEF IInv, TypeOK, QueueInv, OnlyTalkIsSent
<1>3. QED BY <1>1, <1>2 DEF TakeFrame

LEMMA StepRecv == ASSUME IInv, Recv \/ RecvAgain PROVE IInv'
<1> USE DEF Recv, RecvAgain, manager, readers
<1>1. /\ mic' \in Seq(Frame) /\ Len(mic') <= Len(mic) /\ (mic = <<>> => mic' = <<>>)
      /\ stray \/ mic' \in Seq(Sendable)
      /\ leaked' \subseteq {"test", "early", "stray"}
  BY TakenFrame
<1>2. sender' \in {"ready", "asleep"}
  OBVIOUS
<1>3. Flags'
  BY DEF IInv, TypeOK, Flags
<1>4. TypeOK'
  BY <1>3, <1>1, <1>2, QueueAssumption DEF IInv, TypeOK, Kind
<1>5. DeviceInv' /\ (stray \/ Settled') /\ stray' = stray
  BY DEF IInv, DeviceInv, Settled
<1>6. Sendable' = Sendable /\ Playable' = Playable
  BY DEF Sendable, Playable
<1>7. OnlyTalkIsSent' /\ (stray \/ QueueInv')
  BY <1>1, <1>6 DEF IInv, QueueInv, OnlyTalkIsSent
<1>8. QED BY <1>4, <1>5, <1>7 DEF IInv

LEMMA StepTest == ASSUME IInv, StartTest \/ StopTest PROVE IInv'
<1> USE DEF StartTest, StopTest, StartCapture, StopCapture, manager, readers
<1>1. Flags'
  BY DEF IInv, TypeOK, Flags
<1>2. mic' = <<>> \/ mic' = mic
  OBVIOUS
<1>3. /\ mic' \in Seq(Frame) /\ Len(mic') <= MaxCaptured
      /\ capture' = "closed" => mic' = <<>>
  BY MicType
<1>4. TypeOK'
  BY <1>1, <1>3, QueueAssumption DEF IInv, TypeOK
<1>5. DeviceInv'
  BY DEF IInv, DeviceInv
<1>6. stray' \/ (~stray /\ Settled')
  BY DEF IInv, TypeOK, Flags, Settled
<1>7. QED BY <1>2, <1>4, <1>5, <1>6, Quietly

LEMMA StepCall == ASSUME IInv, StartCall \/ AcceptCall PROVE IInv'
<1>1. CASE StartCall
  <2>1. CASE ~InCall /\ Begin("offer", jobs) /\ UNCHANGED stray
    BY <1>1, <2>1, StepBegin DEF StartCall
  <2>2. CASE UNCHANGED <<current, calls, sound, history>>
    BY <1>1, <2>2, StepQuiet
  <2>3. QED BY <1>1, <2>1, <2>2 DEF StartCall
<1>2. CASE AcceptCall
  <2>1. CASE phase = "in" /\ Begin("answer", jobs) /\ UNCHANGED stray
    BY <1>2, <2>1, StepBegin DEF AcceptCall
  <2>2. CASE UNCHANGED <<current, calls, sound, history>>
    BY <1>2, <2>2, StepQuiet
  <2>3. QED BY <1>2, <2>1, <2>2 DEF AcceptCall
<1>3. QED BY <1>1, <1>2

LEMMA StepContinue == ASSUME IInv, NEW j \in jobs, Continue(j) PROVE IInv'
<1>1. CASE CallConnected(j)
  <2>1. stray' = stray \/ (InCall /\ stray' = TRUE)
    BY <1>1 DEF CallConnected, IInv, TypeOK, Flags
  <2>2. popup' \in BOOLEAN /\ (Talks => stray') /\ jobs \ {j} \subseteq jobs
    BY <1>1 DEF CallConnected, IInv, TypeOK, Flags
  <2>3. Begin("offer", jobs \ {j})
    BY <1>1 DEF CallConnected
  <2>4. QED BY <2>1, <2>2, <2>3, StepBegin
<1>2. CASE OfferReady(j) \/ AnswerReady(j)
  BY <1>2, StepReady
<1>3. CASE ApplyDone(j)
  BY <1>3, StepApplyDone
<1>4. CASE JobFails(j)
  BY <1>4, StepQuiet
<1>5. QED BY <1>1, <1>2, <1>3, <1>4 DEF Continue

LEMMA NextInv == ASSUME IInv, [Next]_vars PROVE IInv'
<1>1. CASE InputCallback \/ OutputCallback
  BY <1>1, StepInputCallback, StepOutputCallback
<1>2. CASE StartCall \/ AcceptCall
  BY <1>2, StepCall
<1>3. CASE OnAnswer \/ OnInvite \/ Negotiated \/ OnRemoteTrack \/ AwaitFrame \/ TrackEnds
  BY <1>3, StepQuiet
<1>4. CASE \E j \in jobs : Continue(j)
  BY <1>4, StepContinue
<1>5. CASE PlayFrame \/ PlayLateFrame \/ ToggleMute
  BY <1>5, StepPlayFrame, StepToggleMute
<1>6. CASE EndCall \/ PeerDisconnected \/ Close
  BY <1>6, StepEnds
<1>7. CASE Recv \/ RecvAgain
  BY <1>7, StepRecv
<1>8. CASE StartTest \/ StopTest
  BY <1>8, StepTest
<1>9. CASE UNCHANGED vars
  <2> USE <1>9 DEF vars, manager, sound, device, readers, history
  <2>1. Flags'
    BY DEF IInv, TypeOK, Flags
  <2>2. TypeOK'
    BY <2>1 DEF IInv, TypeOK
  <2>3. DeviceInv' /\ (stray' \/ (~stray /\ Settled'))
    BY DEF IInv, TypeOK, Flags, DeviceInv, Settled
  <2>4. QED BY <2>2, <2>3, Quietly
<1>10. QED BY <1>1, <1>2, <1>3, <1>4, <1>5, <1>6, <1>7, <1>8, <1>9 DEF Next

-----------------------------------------------------------------------------
(* The sound's theorems *)

LEMMA Safe == Spec => []IInv
BY InitInv, NextInv, PTL DEF Spec

\* The queues never hold more than they may, whatever the threads of the devices
\* and the sender do, and a closed microphone leaves no frame behind.
THEOREM TypeCorrect == Spec => []TypeOK
<1>1. IInv => TypeOK
  BY DEF IInv
<1>2. QED BY <1>1, Safe, PTL

\* What the user says unmuted in an active call is what the peer gets, but for the
\* microphone test, a call that was muted early and one a job strayed into; nothing
\* else is left for the next call, whoever is not muted is heard, and whatever a
\* call opened can be hung up on.
THEOREM FollowsTheCall == Spec => []SoundFollowsTheCall
<1>1. IInv => QueuesAreOfTheCall
  <2> SUFFICES ASSUME IInv, ~stray PROVE QueuesAreOfTheCall
    BY DEF QueuesAreOfTheCall
  <2>1. \A i \in DOMAIN speaker : speaker[i] \in Playable
    BY DEF IInv, QueueInv
  <2>2. \A i \in DOMAIN mic : mic[i] \in Sendable
    BY DEF IInv, QueueInv
  <2>3. QED BY <2>1, <2>2 DEF QueuesAreOfTheCall, Sendable, Playable
<1>2. IInv => SpeakerIsHeard
  BY DEF IInv, DeviceInv, Settled, SpeakerIsHeard
<1>3. IInv => DevicesAreOfACall
  BY DEF IInv, DeviceInv, DevicesAreOfACall
<1>4. IInv => SoundFollowsTheCall
  BY <1>1, <1>2, <1>3 DEF IInv, SoundFollowsTheCall
<1>5. QED BY <1>4, Safe, PTL

-----------------------------------------------------------------------------
(* Rows and bubbles *)

HIDE DEF Phase, InCall, Talks, NoCall, Call

LEMMA Joined ==
  ASSUME NEW S, NEW a \in Seq(S), NEW b \in Seq(S)
  PROVE  /\ a \o b \in Seq(S) /\ Len(a \o b) = Len(a) + Len(b)
         /\ \A k \in 1 .. Len(a) : (a \o b)[k] = a[k]
         /\ \A k \in Len(a) + 1 .. Len(a) + Len(b) : (a \o b)[k] = b[k - Len(a)]
OBVIOUS

LEMMA InsertedAt ==
  ASSUME NEW S, NEW s \in Seq(S), NEW i \in 1 .. Len(s) + 1, NEW e \in S,
         NEW t, t = InsertAt(s, i, e)
  PROVE  /\ t \in Seq(S) /\ Len(t) = Len(s) + 1
         /\ \A k \in 1 .. i - 1 : t[k] = s[k]
         /\ t[i] = e
         /\ \A k \in i + 1 .. Len(s) + 1 : t[k] = s[k - 1]
<1> DEFINE front == SubSeq(s, 1, i - 1)
           back == SubSeq(s, i, Len(s))
           head == front \o <<e>>
<1>1. /\ front \in Seq(S) /\ Len(front) = i - 1
      /\ \A k \in 1 .. i - 1 : front[k] = s[k]
  OBVIOUS
<1>2. /\ back \in Seq(S) /\ Len(back) = Len(s) - i + 1
      /\ \A k \in 1 .. Len(s) - i + 1 : back[k] = s[i + k - 1]
  OBVIOUS
<1>3. t = head \o back
  BY DEF InsertAt
<1> HIDE DEF front, back
<1>4. /\ head \in Seq(S) /\ Len(head) = i /\ head[i] = e
      /\ \A k \in 1 .. i - 1 : head[k] = s[k]
  <2>1. <<e>> \in Seq(S) /\ Len(<<e>>) = 1 /\ <<e>>[1] = e
    OBVIOUS
  <2>2. head \in Seq(S) /\ Len(head) = i
    BY <1>1, <2>1
  <2>3. \A k \in 1 .. i - 1 : head[k] = front[k]
    BY <1>1, <2>1
  <2>4. head[i] = e
    BY <1>1, <2>1
  <2>5. QED BY <1>1, <2>2, <2>3, <2>4
<1> HIDE DEF head
<1>5. /\ head \o back \in Seq(S) /\ Len(head \o back) = Len(head) + Len(back)
      /\ \A k \in 1 .. Len(head) : (head \o back)[k] = head[k]
      /\ \A k \in Len(head) + 1 .. Len(head) + Len(back) :
           (head \o back)[k] = back[k - Len(head)]
  <2>1. head \in Seq(S) /\ back \in Seq(S)
    BY <1>2, <1>4
  <2>2. QED BY <2>1, Joined
<1>6. /\ t \in Seq(S) /\ Len(t) = Len(s) + 1
      /\ \A k \in 1 .. i : t[k] = head[k]
  <2>1. Len(head) = i /\ Len(back) = Len(s) - i + 1
    BY <1>2, <1>4
  <2>2. QED BY <1>3, <1>5, <2>1
<1>7. \A k \in i + 1 .. Len(s) + 1 : t[k] = back[k - i]
  <2>1. Len(head) = i /\ Len(back) = Len(s) - i + 1
    BY <1>2, <1>4
  <2>2. QED BY <1>3, <1>5, <2>1
<1>8. \A k \in i + 1 .. Len(s) + 1 : back[k - i] = s[k - 1]
  BY <1>2
<1>9. (\A k \in 1 .. i - 1 : t[k] = s[k]) /\ t[i] = e
  BY <1>4, <1>6
<1>10. \A k \in i + 1 .. Len(s) + 1 : t[k] = s[k - 1]
  BY <1>7, <1>8
<1>11. QED BY <1>6, <1>9, <1>10

LEMMA InsertedSet ==
  ASSUME NEW S, NEW s \in Seq(S), NEW i \in 1 .. Len(s) + 1, NEW e \in S,
         NEW t, t = InsertAt(s, i, e)
  PROVE  ToSet(t) = ToSet(s) \cup {e}
<1>1. /\ t \in Seq(S) /\ Len(t) = Len(s) + 1
      /\ \A k \in 1 .. i - 1 : t[k] = s[k]
      /\ t[i] = e
      /\ \A k \in i + 1 .. Len(s) + 1 : t[k] = s[k - 1]
  BY InsertedAt
<1>2. ToSet(t) \subseteq ToSet(s) \cup {e}
  BY <1>1 DEF ToSet
<1>3. ToSet(s) \subseteq ToSet(t)
  <2>1. ASSUME NEW k \in DOMAIN s PROVE s[k] \in ToSet(t)
    <3>1. CASE k < i
      BY <1>1, <3>1 DEF ToSet
    <3>2. CASE k >= i
      <4>1. k + 1 \in i + 1 .. Len(s) + 1 /\ t[k + 1] = s[k]
        BY <1>1, <3>2
      <4>2. QED BY <1>1, <4>1 DEF ToSet
    <3>3. QED BY <3>1, <3>2
  <2>2. QED BY <2>1 DEF ToSet
<1>4. e \in ToSet(t)
  BY <1>1 DEF ToSet
<1>5. QED BY <1>2, <1>3, <1>4

LEMMA InsertedOnce ==
  ASSUME NEW S, NEW s \in Seq(S), NEW i \in 1 .. Len(s) + 1, NEW e \in S \ ToSet(s),
         IsInjective(s), NEW t, t = InsertAt(s, i, e)
  PROVE  IsInjective(t)
<1>1. /\ t \in Seq(S) /\ Len(t) = Len(s) + 1
      /\ \A k \in 1 .. i - 1 : t[k] = s[k]
      /\ t[i] = e
      /\ \A k \in i + 1 .. Len(s) + 1 : t[k] = s[k - 1]
  BY InsertedAt
<1>2. \A k \in 1 .. Len(s) : s[k] # e
  BY DEF ToSet
<1>3. \A k, l \in 1 .. Len(s) : s[k] = s[l] => k = l
  BY DEF IsInjective
<1>4. ASSUME NEW k \in 1 .. Len(t), NEW l \in 1 .. Len(t), t[k] = t[l] PROVE k = l
  <2>1. ASSUME NEW m \in 1 .. Len(t), m # i PROVE t[m] # e
    <3>1. CASE m < i
      <4>1. m \in 1 .. i - 1 /\ m \in 1 .. Len(s)
        BY <1>1, <3>1
      <4>2. QED BY <1>1, <1>2, <4>1
    <3>2. CASE m > i
      <4>1. m \in i + 1 .. Len(s) + 1 /\ m - 1 \in 1 .. Len(s)
        BY <1>1, <3>2
      <4>2. QED BY <1>1, <1>2, <4>1
    <3>3. QED BY <2>1, <3>1, <3>2
  <2>2. k = i <=> l = i
    BY <1>1, <1>4, <2>1
  <2>3. CASE k < i /\ l < i
    BY <1>1, <1>3, <1>4, <2>3
  <2>4. CASE k < i /\ l > i
    BY <1>1, <1>3, <1>4, <2>4
  <2>5. CASE k > i /\ l < i
    BY <1>1, <1>3, <1>4, <2>5
  <2>6. CASE k > i /\ l > i
    <3>1. /\ k \in i + 1 .. Len(s) + 1 /\ l \in i + 1 .. Len(s) + 1
          /\ k - 1 \in 1 .. Len(s) /\ l - 1 \in 1 .. Len(s)
      BY <1>1, <2>6
    <3>2. s[k - 1] = s[l - 1]
      BY <1>1, <1>4, <3>1
    <3>3. k - 1 = l - 1
      BY <1>3, <3>1, <3>2
    <3>4. QED BY <3>1, <3>3
  <2>7. QED BY <2>2, <2>3, <2>4, <2>5, <2>6
<1>5. QED BY <1>1, <1>4 DEF IsInjective

LEMMA AppendedOnce ==
  ASSUME NEW S, NEW s \in Seq(S), NEW e \in S
  PROVE  /\ ToSet(Append(s, e)) = ToSet(s) \cup {e}
         /\ IsInjective(s) /\ e \notin ToSet(s) => IsInjective(Append(s, e))
<1>1. PICK t : t = Append(s, e)
  OBVIOUS
<1>2. /\ t \in Seq(S) /\ Len(t) = Len(s) + 1 /\ t[Len(t)] = e
      /\ \A k \in 1 .. Len(s) : t[k] = s[k]
  BY <1>1
<1>3. ToSet(t) = ToSet(s) \cup {e}
  <2>1. ToSet(t) \subseteq ToSet(s) \cup {e}
    BY <1>2 DEF ToSet
  <2>2. ToSet(s) \subseteq ToSet(t)
    BY <1>2 DEF ToSet
  <2>3. e \in ToSet(t)
    BY <1>2 DEF ToSet
  <2>4. QED BY <2>1, <2>2, <2>3
<1>4. ASSUME IsInjective(s), e \notin ToSet(s) PROVE IsInjective(t)
  <2>1. /\ \A k \in 1 .. Len(s) : s[k] # e
        /\ \A k, l \in 1 .. Len(s) : s[k] = s[l] => k = l
    BY <1>4 DEF ToSet, IsInjective
  <2>2. \A k, l \in 1 .. Len(t) : t[k] = t[l] => k = l
    BY <1>2, <2>1
  <2>3. QED BY <1>2, <2>2 DEF IsInjective
<1>5. QED BY <1>1, <1>3, <1>4

\* Where the newest Limit of n rows begin, and those rows.
Start(n) == IF n > Limit THEN n - Limit + 1 ELSE 1
Tip(s)   == SubSeq(s, Start(Len(s)), Len(s))

LEMMA NewestIsTip == Newest = Tip(rows)
BY DEF Newest, Tip, Start

LEMMA TipRows ==
  ASSUME NEW S, NEW s \in Seq(S)
  PROVE  /\ Start(Len(s)) \in Nat \ {0} /\ Tip(s) \in Seq(S)
         /\ \A x : x \in ToSet(Tip(s)) <=> \E k \in Start(Len(s)) .. Len(s) : x = s[k]
         /\ ToSet(Tip(s)) \subseteq ToSet(s)
         /\ IsInjective(s) => IsInjective(Tip(s))
<1>1. PICK n \in Nat : n = Len(s)
  OBVIOUS
<1>2. PICK b \in Nat \ {0} : b = Start(n) /\ b <= n + 1
  <2>1. Start(n) \in Nat \ {0} /\ Start(n) <= n + 1
    BY LimitAssumption DEF Start
  <2>2. QED BY <2>1
<1>3. PICK t : t = SubSeq(s, b, n)
  OBVIOUS
<1>4. /\ t \in Seq(S) /\ Len(t) = n - b + 1 /\ \A k \in 1 .. n - b + 1 : t[k] = s[b + k - 1]
  BY <1>1, <1>2, <1>3
<1>5. ASSUME NEW x PROVE x \in ToSet(t) <=> \E k \in b .. n : x = s[k]
  <2>1. ASSUME x \in ToSet(t) PROVE \E k \in b .. n : x = s[k]
    <3>1. PICK k \in 1 .. n - b + 1 : x = t[k]
      BY <1>1, <1>2, <1>4, <2>1 DEF ToSet
    <3>2. b + k - 1 \in b .. n /\ x = s[b + k - 1]
      BY <1>1, <1>2, <1>4, <3>1
    <3>3. QED BY <3>2
  <2>2. ASSUME NEW k \in b .. n, x = s[k] PROVE x \in ToSet(t)
    <3>1. k - b + 1 \in 1 .. n - b + 1 /\ t[k - b + 1] = s[k]
      BY <1>1, <1>2, <1>4
    <3>2. k - b + 1 \in DOMAIN t
      BY <1>1, <1>2, <1>4, <3>1
    <3>3. QED BY <2>2, <3>1, <3>2 DEF ToSet
  <2>3. QED BY <2>1, <2>2
<1>6. ToSet(t) \subseteq ToSet(s)
  BY <1>1, <1>2, <1>5 DEF ToSet
<1>7. ASSUME IsInjective(s) PROVE IsInjective(t)
  <2>1. \A k, l \in 1 .. n : s[k] = s[l] => k = l
    BY <1>1, <1>7 DEF IsInjective
  <2>2. \A k, l \in 1 .. n - b + 1 : t[k] = t[l] => k = l
    <3>1. ASSUME NEW k \in 1 .. n - b + 1, NEW l \in 1 .. n - b + 1, t[k] = t[l] PROVE k = l
      <4>1. b + k - 1 \in 1 .. n /\ b + l - 1 \in 1 .. n
        BY <1>1, <1>2
      <4>2. s[b + k - 1] = s[b + l - 1]
        BY <1>4, <3>1
      <4>3. b + k - 1 = b + l - 1
        BY <2>1, <4>1, <4>2
      <4>4. QED BY <4>3
    <3>2. QED BY <3>1
  <2>3. QED BY <1>1, <1>2, <1>4, <2>2 DEF IsInjective
<1>8. t = Tip(s) /\ b = Start(Len(s)) /\ n = Len(s)
  BY <1>1, <1>2, <1>3 DEF Tip
<1>9. QED BY <1>2, <1>4, <1>5, <1>6, <1>7, <1>8

\* A row more is the only one that can join the newest.
LEMMA TipGrows ==
  ASSUME NEW S, NEW s \in Seq(S), NEW i \in 1 .. Len(s) + 1, NEW e \in S,
         NEW t, t = InsertAt(s, i, e)
  PROVE  ToSet(Tip(t)) \subseteq ToSet(Tip(s)) \cup {e}
<1>1. /\ t \in Seq(S) /\ Len(t) = Len(s) + 1
      /\ \A k \in 1 .. i - 1 : t[k] = s[k]
      /\ t[i] = e
      /\ \A k \in i + 1 .. Len(s) + 1 : t[k] = s[k - 1]
  BY InsertedAt
<1>2. /\ Start(Len(s)) \in Nat \ {0} /\ Start(Len(t)) \in Nat \ {0}
      /\ Start(Len(s)) <= Start(Len(t)) /\ (Start(Len(t)) > 1 => Start(Len(s)) <= Start(Len(t)) - 1)
      /\ (Start(Len(t)) = 1 => Start(Len(s)) = 1)
  BY <1>1, LimitAssumption DEF Start
<1>3. ASSUME NEW x \in ToSet(Tip(t)), x # e PROVE x \in ToSet(Tip(s))
  <2>1. PICK k \in Start(Len(t)) .. Len(t) : x = t[k]
    BY <1>1, <1>3, TipRows
  <2>2. PICK l \in Start(Len(s)) .. Len(s) : x = s[l]
    <3>1. CASE k < i
      <4>1. k \in 1 .. i - 1 /\ k \in Start(Len(s)) .. Len(s)
        BY <1>1, <1>2, <3>1
      <4>2. QED BY <1>1, <2>1, <4>1
    <3>2. CASE k > i
      <4>1. k - 1 \in Start(Len(s)) .. Len(s) /\ t[k] = s[k - 1]
        BY <1>1, <1>2, <2>1, <3>2
      <4>2. QED BY <2>1, <4>1
    <3>3. k # i
      BY <1>1, <1>3, <2>1
    <3>4. QED BY <1>1, <1>2, <2>1, <3>1, <3>2, <3>3
  <2>3. QED BY <2>2, TipRows
<1>4. QED BY <1>3

-----------------------------------------------------------------------------
(* The chat window's invariant *)

\* A row of the user's own is there when its sending is over.
SentBook == \A m \in Outgoing : m \in ToSet(rows) => sending[m] = "over"

\* What the friend may be told "read" of.
Excused == shown \cup buried \cup late

\* Whatever marks are yet to be made, and whatever a window shows, is excused by
\* what was shown; so are the marks themselves, and an open window without marks
\* to come has everything read.
ReadBook ==
  /\ read \subseteq Excused
  /\ marks > 0 => Received \subseteq Excused
  /\ IsVisible /\ marks = 0 => Received \subseteq read

\* A cleared badge is ahead of the marks that are yet to be made.
CountBook ==
  /\ IsFiniteSet(Received)
  /\ ~stale => tray = Unread
  /\ ~stale /\ ~lost => badge = Unread \/ (marks > 0 /\ badge = 0)
  /\ ~padded => group <= Unread

ChatInv == ChatTypeOK /\ SentBook /\ ReadBook /\ CountBook /\ BubblesAreRows

LEMMA ChatInitInv == ChatInit => ChatInv
<1> SUFFICES ASSUME ChatInit PROVE ChatInv
  OBVIOUS
<1>1. /\ rows = <<>> /\ read = {} /\ ToSet(rows) = {} /\ Received = {} /\ ~IsVisible
      /\ <<>> \in Seq(Incoming \cup Outgoing) /\ IsInjective(<<>>)
  BY DEF ChatInit, ToSet, Received, IsVisible, IsInjective
<1>2. used \in [Bounds -> Nat] /\ \A b \in Bounds : used[b] <= Most[b]
  <2>1. \A b \in Bounds : used[b] = 0 /\ Most[b] \in Nat
    BY BoundsAssumption DEF ChatInit, Bounds, Most
  <2>2. QED BY <2>1 DEF ChatInit
<1>3. ChatTypeOK
  BY <1>1, <1>2 DEF ChatInit, ChatTypeOK
<1>4. IsFiniteSet(Received) /\ Unread = 0
  BY <1>1, FS_EmptySet DEF Unread
<1>5. CountBook
  BY <1>4 DEF CountBook, ChatInit
<1>6. SentBook /\ ReadBook /\ BubblesAreRows
  BY <1>1 DEF SentBook, ReadBook, BubblesAreRows, ChatInit
<1>7. QED BY <1>3, <1>5, <1>6 DEF ChatInv

-----------------------------------------------------------------------------
(* What a new row does to what is counted and shown *)

LEMMA Saved ==
  ASSUME ChatInv, NEW m \in (Incoming \cup Outgoing) \ ToSet(rows), SaveRow(m)
  PROVE  /\ rows' \in Seq(Incoming \cup Outgoing) /\ IsInjective(rows')
         /\ ToSet(rows') = ToSet(rows) \cup {m}
         /\ Received' = Received \cup ({m} \cap Incoming)
         /\ ToSet(Newest') \subseteq ToSet(Newest) \cup {m}
<1>1. rows \in Seq(Incoming \cup Outgoing) /\ IsInjective(rows)
  BY DEF ChatInv, ChatTypeOK
<1>2. PICK i \in 1 .. Len(rows) + 1 : rows' = InsertAt(rows, i, m)
  BY DEF SaveRow
<1>3. rows' \in Seq(Incoming \cup Outgoing)
  BY <1>1, <1>2, InsertedAt
<1>4. IsInjective(rows')
  BY <1>1, <1>2, InsertedOnce
<1>5. ToSet(rows') = ToSet(rows) \cup {m}
  BY <1>1, <1>2, InsertedSet
<1>6. ToSet(Tip(rows')) \subseteq ToSet(Tip(rows)) \cup {m}
  BY <1>1, <1>2, TipGrows
<1>7. Newest = Tip(rows) /\ Newest' = Tip(rows')
  BY DEF Newest, Tip, Start
<1>8. QED BY <1>3, <1>4, <1>5, <1>6, <1>7 DEF Received

LEMMA NewIsNoRow ==
  ASSUME NEW m \in Incoming, IsNew(m) PROVE m \in (Incoming \cup Outgoing) \ ToSet(rows)
BY DEF IsNew, Received

LEMMA SentIsNoRow ==
  ASSUME ChatInv, NEW m \in Outgoing, sending[m] \in {"here", "gone"}
  PROVE  m \in (Incoming \cup Outgoing) \ ToSet(rows)
BY DEF ChatInv, SentBook

LEMMA RowsStay ==
  ASSUME UNCHANGED rows PROVE UNCHANGED <<Received, Newest>> /\ ToSet(rows') = ToSet(rows)
BY DEF Received, Newest

LEMMA NewestAreRows ==
  ASSUME ChatInv
  PROVE  /\ Newest \in Seq(Incoming \cup Outgoing) /\ IsInjective(Newest)
         /\ ToSet(Newest) \subseteq ToSet(rows)
BY NewestIsTip, TipRows DEF ChatInv, ChatTypeOK

LEMMA UnreadType ==
  ASSUME ChatInv
  PROVE  /\ IsFiniteSet(Received) /\ Unread \in Nat /\ read \subseteq Received
         /\ Unread = 0 => Received = read
<1>1. IsFiniteSet(Received) /\ read \subseteq Received
  BY DEF ChatInv, CountBook, ChatTypeOK
<1>2. IsFiniteSet(Received \ read)
  BY <1>1, FS_Subset
<1>3. Unread \in Nat
  BY <1>2, FS_CardinalityType DEF Unread
<1>4. Unread = 0 => Received \ read = {}
  BY <1>2, FS_EmptySet DEF Unread
<1>5. QED BY <1>1, <1>3, <1>4

LEMMA UnreadMore ==
  ASSUME ChatInv, NEW m \in Incoming, m \notin Received, Received' = Received \cup {m},
         UNCHANGED read
  PROVE  IsFiniteSet(Received') /\ Unread' = Unread + 1
<1>1. IsFiniteSet(Received) /\ read \subseteq Received
  BY UnreadType
<1>2. IsFiniteSet(Received')
  BY <1>1, FS_AddElement
<1>3. PICK fresh : fresh = Received \ read
  OBVIOUS
<1>4. IsFiniteSet(fresh) /\ m \notin fresh
  BY <1>1, <1>3, FS_Subset
<1>5. Cardinality(fresh \cup {m}) = Cardinality(fresh) + 1
  BY <1>4, FS_AddElement
<1>6. Received' \ read' = fresh \cup {m}
  BY <1>1, <1>3
<1>7. QED BY <1>2, <1>3, <1>5, <1>6 DEF Unread

LEMMA UnreadNone ==
  ASSUME IsFiniteSet(Received'), Received' \subseteq read' PROVE Unread' = 0
<1>1. Received' \ read' = {}
  OBVIOUS
<1>2. QED BY <1>1, FS_EmptySet DEF Unread

LEMMA UnreadStays ==
  ASSUME UNCHANGED <<rows, read>> PROVE UNCHANGED <<Received, Unread>>
BY RowsStay DEF Unread

-----------------------------------------------------------------------------
(* What is marked read *)

LEMMA ReadStays ==
  ASSUME ChatInv, UNCHANGED <<rows, read, marks, shown, buried, late>>,
         IsVisible' => IsVisible
  PROVE  ReadBook'
<1>1. Received' = Received /\ Excused' = Excused
  BY DEF Received, Excused
<1>2. QED BY <1>1 DEF ChatInv, ReadBook

LEMMA ReadStep == ASSUME ChatInv, [ChatNext]_chatVars PROVE ReadBook'
<1>1. ReadBook /\ marks \in Nat
  BY DEF ChatInv, ChatTypeOK
<1>2. CASE SelectFriend
  <2>1. /\ rows' = rows /\ read' = read /\ late' = late /\ marks' = marks + 1
        /\ shown' = shown \cup (ToSet(Newest) \cap Incoming)
        /\ buried' = buried \cup (Received \ ToSet(Newest))
    BY <1>2 DEF SelectFriend, SetHistory, store
  <2>2. Received' = Received /\ Received \subseteq Incoming
    BY <2>1 DEF Received
  <2>3. Excused \subseteq Excused' /\ Received \subseteq Excused'
    BY <2>1, <2>2 DEF Excused
  <2>4. QED BY <1>1, <2>1, <2>2, <2>3 DEF ReadBook
<1>3. ASSUME NEW m \in Incoming, HandleMessage(m) PROVE ReadBook'
  <2>1. m \in (Incoming \cup Outgoing) \ ToSet(rows) /\ SaveRow(m)
    BY <1>3, NewIsNoRow DEF HandleMessage
  <2>2. Received' = Received \cup {m}
    BY <2>1, Saved
  <2>3. read' = read /\ buried' = buried /\ window' = window
    BY <1>3 DEF HandleMessage
  <2>4. CASE ShowMessage(m)
    <3>1. IsVisible /\ marks' = marks + 1 /\ shown' = shown \cup {m} /\ late' = late
      BY <2>4 DEF ShowMessage
    <3>2. Excused' = Excused \cup {m}
      BY <2>3, <3>1 DEF Excused
    <3>3. Received \subseteq Excused
      BY <1>1, <3>1 DEF ReadBook
    <3>4. QED BY <1>1, <2>2, <2>3, <3>1, <3>2, <3>3 DEF ReadBook
  <2>5. CASE CountMessage(m)
    <3>1. /\ ~IsVisible' /\ marks' = marks /\ shown' = shown
          /\ late' = IF marks > 0 THEN late \cup {m} ELSE late
      BY <2>3, <2>5 DEF CountMessage, IsVisible
    <3>2. Excused' = IF marks > 0 THEN Excused \cup {m} ELSE Excused
      BY <2>3, <3>1 DEF Excused
    <3>3. QED BY <1>1, <2>2, <2>3, <3>1, <3>2 DEF ReadBook
  <2>6. QED BY <1>3, <2>4, <2>5 DEF HandleMessage
<1>4. ASSUME NEW m \in Outgoing, EndSend(m) PROVE ReadBook'
  <2>1. m \in (Incoming \cup Outgoing) \ ToSet(rows) /\ SaveRow(m)
    BY <1>4, SentIsNoRow DEF EndSend
  <2>2. Received' = Received
    <3>1. Received' = Received \cup ({m} \cap Incoming)
      BY <2>1, Saved
    <3>2. m \notin Incoming
      BY SendersAssumption
    <3>3. QED BY <3>1, <3>2
  <2>3. UNCHANGED <<read, window, marks, shown, buried, late>>
    BY <1>4 DEF EndSend
  <2>4. Excused' = Excused /\ (IsVisible' <=> IsVisible)
    BY <2>3 DEF Excused, IsVisible
  <2>5. QED BY <1>1, <2>2, <2>3, <2>4 DEF ReadBook
<1>5. CASE MarkConversationRead
  <2>1. /\ marks > 0 /\ marks' = marks - 1 /\ read' = Received /\ rows' = rows
        /\ UNCHANGED <<window, shown, buried, late>>
    BY <1>5 DEF MarkConversationRead, MarkRead, screen, record
  <2>2. Received' = Received /\ Excused' = Excused
    BY <2>1 DEF Received, Excused
  <2>3. QED BY <1>1, <2>1, <2>2 DEF ReadBook
<1>6. CASE DeleteConversation
  <2>1. rows' = <<>> /\ read' = {} /\ marks' = marks
    BY <1>6 DEF DeleteConversation, DeleteRows
  <2>2. Received' = {}
    BY <2>1 DEF Received, ToSet
  <2>3. QED BY <2>1, <2>2 DEF ReadBook
<1>7. CASE Restart
  <2>1. /\ rows' = rows /\ read' = read /\ marks' = 0 /\ window' = "none"
        /\ UNCHANGED <<shown, buried, late>>
    BY <1>7 DEF Restart, store
  <2>2. Excused' = Excused /\ ~IsVisible'
    BY <2>1 DEF Excused, IsVisible
  <2>3. QED BY <1>1, <2>1, <2>2 DEF ReadBook
<1>8. CASE AnimateClose \/ Closed
  <2>1. UNCHANGED <<rows, read, marks, shown, buried, late>> /\ (IsVisible' => IsVisible)
    BY <1>8 DEF AnimateClose, Closed, IsVisible, store, record
  <2>2. QED BY <2>1, ReadStays
<1>9. ASSUME NEW m \in Outgoing, Submit(m) \/ BeginSend(m) \/ FailSend(m) PROVE ReadBook'
  <2>1. UNCHANGED <<rows, read, marks, shown, buried, late, window>>
    BY <1>9 DEF Submit, BeginSend, FailSend, store, screen, record
  <2>2. QED BY <2>1, ReadStays DEF IsVisible
<1>10. CASE GroupExpires \/ RenderFriends \/ OnCallIncoming
  <2>1. UNCHANGED <<rows, read, marks, shown, buried, late, window>>
    BY <1>10 DEF GroupExpires, RenderFriends, OnCallIncoming, store, screen, record
  <2>2. QED BY <2>1, ReadStays DEF IsVisible
<1>11. CASE UNCHANGED chatVars
  <2>1. UNCHANGED <<rows, read, marks, shown, buried, late, window>>
    BY <1>11 DEF chatVars, store, screen, record
  <2>2. QED BY <2>1, ReadStays DEF IsVisible
<1>12. QED BY <1>2, <1>3, <1>4, <1>5, <1>6, <1>7, <1>8, <1>9, <1>10, <1>11 DEF ChatNext

-----------------------------------------------------------------------------
(* What is counted *)

LEMMA CountStays ==
  ASSUME ChatInv, UNCHANGED <<rows, read, badge, tray, stale, lost, group, padded>>,
         marks' \in Nat, marks' >= marks
  PROVE  CountBook'
<1>1. UNCHANGED <<Received, Unread>>
  BY UnreadStays
<1>2. marks \in Nat /\ CountBook
  BY DEF ChatInv, ChatTypeOK
<1>3. QED BY <1>1, <1>2 DEF CountBook

LEMMA CountStep == ASSUME ChatInv, [ChatNext]_chatVars PROVE CountBook'
<1>1. CountBook /\ marks \in Nat /\ group \in Nat /\ Unread \in Nat
  BY UnreadType DEF ChatInv, ChatTypeOK
<1>2. CASE SelectFriend
  <2>1. /\ UNCHANGED <<rows, read, tray, stale, group, padded>>
        /\ badge' = 0 /\ marks' = marks + 1
    BY <1>2 DEF SelectFriend, store, notices
  <2>2. UNCHANGED <<Received, Unread>>
    BY <2>1, UnreadStays
  <2>3. QED BY <1>1, <2>1, <2>2 DEF CountBook
<1>3. ASSUME NEW m \in Incoming, HandleMessage(m) PROVE CountBook'
  <2>1. m \in (Incoming \cup Outgoing) \ ToSet(rows) /\ SaveRow(m) /\ m \notin Received
    BY <1>3, NewIsNoRow DEF HandleMessage, IsNew
  <2>2. Received' = Received \cup {m}
    BY <2>1, Saved
  <2>3. read' = read
    BY <1>3 DEF HandleMessage
  <2>4. IsFiniteSet(Received') /\ Unread' = Unread + 1
    BY <2>1, <2>2, <2>3, UnreadMore
  <2>5. tray' = Unread'
    BY <1>3 DEF HandleMessage, UpdateTrayUnread
  <2>6. badge' = Unread' \/ (marks' > 0 /\ badge' = 0)
    <3>1. (badge' = 0 /\ marks' = marks + 1) \/ badge' = Unread'
      BY <1>3, Zenon DEF HandleMessage, ShowMessage, CountMessage
    <3>2. QED BY <1>1, <3>1
  <2>7. group' \in {group, group + 1} /\ (~padded' => ~padded)
    <3>1. UNCHANGED notices \/ Notify(TRUE)
      BY <1>3, Zenon DEF HandleMessage, ShowMessage, CountMessage
    <3>2. CASE UNCHANGED notices
      BY <3>2 DEF notices
    <3>3. CASE group' = group + 1 /\ padded' = (padded \/ ~TRUE)
      <4>1. ~padded' => ~padded
        BY <3>3, Zenon
      <4>2. QED BY <3>3, <4>1
    <3>4. QED BY <3>1, <3>2, <3>3, Zenon DEF Notify
  <2>8. ~padded' => group' <= Unread'
    BY <1>1, <2>4, <2>7 DEF CountBook
  <2>9. QED BY <2>4, <2>5, <2>6, <2>8 DEF CountBook
<1>4. ASSUME NEW m \in Outgoing, EndSend(m) PROVE CountBook'
  <2>1. m \in (Incoming \cup Outgoing) \ ToSet(rows) /\ SaveRow(m)
    BY <1>4, SentIsNoRow DEF EndSend
  <2>2. Received' = Received
    <3>1. Received' = Received \cup ({m} \cap Incoming)
      BY <2>1, Saved
    <3>2. m \notin Incoming
      BY SendersAssumption
    <3>3. QED BY <3>1, <3>2
  <2>3. UNCHANGED <<read, badge, tray, stale, lost, marks, group, padded>>
    BY <1>4 DEF EndSend, counts, notices
  <2>4. Unread' = Unread
    BY <2>2, <2>3 DEF Unread
  <2>5. QED BY <1>1, <2>2, <2>3, <2>4 DEF CountBook
<1>5. CASE MarkConversationRead
  <2>1. marks > 0 /\ marks' = marks - 1 /\ read' = Received /\ rows' = rows /\ group' = group
    BY <1>5 DEF MarkConversationRead, MarkRead
  <2>2. Received' = Received
    BY <2>1, RowsStay
  <2>3. IsFiniteSet(Received') /\ Unread' = 0
    BY <1>1, <2>1, <2>2, UnreadNone DEF CountBook
  <2>4. CASE Unread > 0
    <3>1. badge' = 0 /\ tray' = Unread' /\ padded' = (padded \/ group > 0)
      BY <1>5, <2>4 DEF MarkConversationRead, ConversationRead, UpdateTrayUnread
    <3>2. ~padded' => ~(group > 0)
      BY <3>1, Zenon
    <3>3. QED BY <1>1, <2>1, <2>3, <3>1, <3>2 DEF CountBook
  <2>5. CASE Unread = 0
    <3>1. UNCHANGED <<badge, tray, stale, lost, padded>>
      BY <1>5, <2>5 DEF MarkConversationRead, counts
    <3>2. QED BY <1>1, <2>1, <2>3, <2>5, <3>1 DEF CountBook
  <2>6. QED BY <1>1, <2>4, <2>5
<1>6. CASE DeleteConversation
  <2>1. /\ rows' = <<>> /\ read' = {} /\ UNCHANGED <<marks, badge, tray, lost, group>>
        /\ stale' = (stale \/ Unread > 0) /\ padded' = (padded \/ group > 0)
    BY <1>6 DEF DeleteConversation, DeleteRows
  <2>2. Received' = {} /\ IsFiniteSet({})
    BY <2>1, FS_EmptySet DEF Received, ToSet
  <2>3. IsFiniteSet(Received') /\ Unread' = 0
    BY <2>2, UnreadNone
  <2>4. ~padded' => ~(group > 0)
    BY <2>1, Zenon
  <2>5. ~stale' => ~stale /\ ~(Unread > 0)
    BY <2>1, Zenon
  <2>6. QED BY <1>1, <2>1, <2>3, <2>4, <2>5 DEF CountBook
<1>7. CASE Restart
  <2>1. /\ UNCHANGED <<rows, read>> /\ badge' = 0 /\ tray' = 0 /\ group' = 0
        /\ stale' = (Unread > 0)
    BY <1>7 DEF Restart, store
  <2>2. UNCHANGED <<Received, Unread>>
    BY <2>1, UnreadStays
  <2>3. ~stale' => ~(Unread > 0)
    BY <2>1, Zenon
  <2>4. QED BY <1>1, <2>1, <2>2, <2>3 DEF CountBook
<1>8. CASE GroupExpires
  <2>1. UNCHANGED <<rows, read, badge, tray, stale, lost, marks>> /\ group' = 0
    BY <1>8 DEF GroupExpires, store, counts
  <2>2. UNCHANGED <<Received, Unread>>
    BY <2>1, UnreadStays
  <2>3. QED BY <1>1, <2>1, <2>2 DEF CountBook
<1>9. CASE RenderFriends
  <2>1. UNCHANGED <<rows, read, tray, stale, group, padded>> /\ lost' = TRUE
    BY <1>9 DEF RenderFriends, store, notices
  <2>2. UNCHANGED <<Received, Unread>>
    BY <2>1, UnreadStays
  <2>3. QED BY <1>1, <2>1, <2>2 DEF CountBook
<1>10. CASE OnCallIncoming
  <2>1. UNCHANGED <<rows, read, badge, tray, stale, lost, marks>>
    BY <1>10 DEF OnCallIncoming, store, counts
  <2>2. UNCHANGED <<group, padded>> \/ padded'
    BY <1>10, Zenon DEF OnCallIncoming, Notify, notices
  <2>3. UNCHANGED <<Received, Unread>>
    BY <2>1, UnreadStays
  <2>4. QED BY <1>1, <2>1, <2>2, <2>3 DEF CountBook
<1>11. CASE AnimateClose \/ Closed
  <2>1. UNCHANGED <<rows, read, badge, tray, stale, lost, group, padded, marks>>
    BY <1>11 DEF AnimateClose, Closed, store, counts, notices
  <2>2. QED BY <1>1, <2>1, CountStays
<1>12. ASSUME NEW m \in Outgoing, Submit(m) \/ BeginSend(m) \/ FailSend(m) PROVE CountBook'
  <2>1. UNCHANGED <<rows, read, badge, tray, stale, lost, group, padded, marks>>
    BY <1>12 DEF Submit, BeginSend, FailSend, store, counts, notices
  <2>2. QED BY <1>1, <2>1, CountStays
<1>13. CASE UNCHANGED chatVars
  <2>1. UNCHANGED <<rows, read, badge, tray, stale, lost, group, padded, marks>>
    BY <1>13 DEF chatVars, store, counts, notices
  <2>2. QED BY <1>1, <2>1, CountStays
<1>14. QED BY <1>2, <1>3, <1>4, <1>5, <1>6, <1>7, <1>8, <1>9, <1>10, <1>11, <1>12, <1>13
          DEF ChatNext

-----------------------------------------------------------------------------
(* The chat's types *)

LEMMA RowsKept ==
  ASSUME [ChatNext]_chatVars
  PROVE  \/ \E m \in Incoming : HandleMessage(m)
         \/ \E m \in Outgoing : EndSend(m)
         \/ MarkConversationRead \/ DeleteConversation
         \/ UNCHANGED <<rows, read>>
BY DEF ChatNext, chatVars, store, SelectFriend, AnimateClose, Closed, Submit, BeginSend, FailSend,
       GroupExpires, RenderFriends, OnCallIncoming, Restart

LEMMA RowsStep ==
  ASSUME ChatInv, [ChatNext]_chatVars
  PROVE  /\ rows' \in Seq(Incoming \cup Outgoing) /\ IsInjective(rows')
         /\ read' \subseteq Received'
<1>1. rows \in Seq(Incoming \cup Outgoing) /\ IsInjective(rows) /\ read \subseteq Received
  BY DEF ChatInv, ChatTypeOK
<1>2. ASSUME NEW m \in (Incoming \cup Outgoing) \ ToSet(rows), SaveRow(m), read' = read
      PROVE  /\ rows' \in Seq(Incoming \cup Outgoing) /\ IsInjective(rows')
             /\ read' \subseteq Received'
  <2>1. /\ rows' \in Seq(Incoming \cup Outgoing) /\ IsInjective(rows')
        /\ Received' = Received \cup ({m} \cap Incoming)
    BY <1>2, Saved
  <2>2. QED BY <1>1, <1>2, <2>1
<1>3. ASSUME NEW m \in Incoming, HandleMessage(m)
      PROVE  m \in (Incoming \cup Outgoing) \ ToSet(rows) /\ SaveRow(m) /\ read' = read
  BY <1>3, NewIsNoRow DEF HandleMessage
<1>4. ASSUME NEW m \in Outgoing, EndSend(m)
      PROVE  m \in (Incoming \cup Outgoing) \ ToSet(rows) /\ SaveRow(m) /\ read' = read
  BY <1>4, SentIsNoRow DEF EndSend
<1>5. CASE MarkConversationRead
  <2>1. read' = Received /\ rows' = rows
    BY <1>5 DEF MarkConversationRead, MarkRead
  <2>2. QED BY <1>1, <2>1, RowsStay
<1>6. CASE DeleteConversation
  <2>1. rows' = <<>> /\ read' = {}
    BY <1>6 DEF DeleteConversation, DeleteRows
  <2>2. QED BY <2>1 DEF IsInjective
<1>7. CASE UNCHANGED <<rows, read>>
  BY <1>1, <1>7, RowsStay
<1>8. QED BY <1>2, <1>3, <1>4, <1>5, <1>6, <1>7, RowsKept

LEMMA WindowStep ==
  ASSUME ChatInv, [ChatNext]_chatVars
  PROVE  /\ window' \in {"none", "open", "closing"}
         /\ bubbles' \in Seq(Incoming \cup Outgoing) /\ (bubbles' # <<>> => IsVisible')
<1>1. /\ window \in {"none", "open", "closing"} /\ bubbles \in Seq(Incoming \cup Outgoing)
      /\ bubbles # <<>> => IsVisible
      /\ \A m \in Outgoing : sending[m] = "here" => IsVisible
  BY DEF ChatInv, ChatTypeOK
<1>2. CASE SelectFriend
  <2>1. window' \in {"open", "closing"} /\ bubbles' = Newest
    BY <1>2 DEF SelectFriend, SetHistory
  <2>2. QED BY <2>1, NewestAreRows DEF IsVisible
<1>3. CASE AnimateClose
  BY <1>1, <1>3 DEF AnimateClose, IsVisible
<1>4. CASE Closed \/ Restart
  <2>1. window' = "none" /\ bubbles' = <<>>
    BY <1>4 DEF Closed, Restart
  <2>2. <<>> \in Seq(Incoming \cup Outgoing)
    OBVIOUS
  <2>3. QED BY <2>1, <2>2
<1>5. ASSUME NEW m \in Outgoing, EndSend(m)
      PROVE  /\ window' \in {"none", "open", "closing"}
             /\ bubbles' \in Seq(Incoming \cup Outgoing) /\ (bubbles' # <<>> => IsVisible')
  <2>1. /\ window' = window
        /\ bubbles' = IF sending[m] = "here" THEN Append(bubbles, m) ELSE bubbles
    BY <1>5 DEF EndSend
  <2>2. QED BY <1>1, <2>1 DEF IsVisible
<1>6. ASSUME NEW m \in Incoming, HandleMessage(m)
      PROVE  /\ window' \in {"none", "open", "closing"}
             /\ bubbles' \in Seq(Incoming \cup Outgoing) /\ (bubbles' # <<>> => IsVisible')
  <2>1. /\ window' = window
        /\ bubbles' = bubbles \/ (IsVisible /\ bubbles' = Append(bubbles, m))
    BY <1>6 DEF HandleMessage, ShowMessage, CountMessage
  <2>2. QED BY <1>1, <2>1 DEF IsVisible
<1>7. CASE UNCHANGED <<window, bubbles>>
  BY <1>1, <1>7 DEF IsVisible
<1>8. ASSUME NEW m \in Outgoing, Submit(m) \/ BeginSend(m) \/ FailSend(m)
      PROVE  UNCHANGED <<window, bubbles>>
  BY <1>8 DEF Submit, BeginSend, FailSend, screen
<1>9. CASE \/ MarkConversationRead \/ GroupExpires \/ DeleteConversation \/ RenderFriends
           \/ OnCallIncoming \/ UNCHANGED chatVars
  <2>1. UNCHANGED <<window, bubbles>>
    BY <1>9 DEF MarkConversationRead, GroupExpires, DeleteConversation, RenderFriends,
                OnCallIncoming, chatVars, screen
  <2>2. QED BY <1>7, <2>1
<1>10. QED BY <1>2, <1>3, <1>4, <1>5, <1>6, <1>7, <1>8, <1>9 DEF ChatNext

LEMMA NumbersStep ==
  ASSUME ChatInv, [ChatNext]_chatVars
  PROVE  badge' \in Nat /\ tray' \in Nat /\ marks' \in Nat /\ group' \in Nat
<1>1. badge \in Nat /\ tray \in Nat /\ marks \in Nat /\ group \in Nat
  BY DEF ChatInv, ChatTypeOK
<1>2. CASE SelectFriend \/ Closed \/ AnimateClose
  BY <1>1, <1>2 DEF SelectFriend, Closed, AnimateClose, notices, counts
<1>3. ASSUME NEW m \in Incoming, HandleMessage(m)
      PROVE  badge' \in Nat /\ tray' \in Nat /\ marks' \in Nat /\ group' \in Nat
  <2>1. m \notin Received /\ Received' = Received \cup {m} /\ read' = read
    BY <1>3, NewIsNoRow, Saved DEF HandleMessage, IsNew
  <2>2. Unread' = Unread + 1 /\ Unread \in Nat
    BY <2>1, UnreadMore, UnreadType
  <2>3. tray' = Unread'
    BY <1>3 DEF HandleMessage, UpdateTrayUnread
  <2>4. badge' \in {0, Unread'} /\ marks' \in {marks, marks + 1}
    BY <1>3, Zenon DEF HandleMessage, ShowMessage, CountMessage
  <2>5. group' \in {group, group + 1}
    BY <1>3, Zenon DEF HandleMessage, ShowMessage, CountMessage, Notify, notices
  <2>6. QED BY <1>1, <2>2, <2>3, <2>4, <2>5
<1>4. ASSUME NEW m \in Outgoing, Submit(m) \/ BeginSend(m) \/ EndSend(m) \/ FailSend(m)
      PROVE  badge' \in Nat /\ tray' \in Nat /\ marks' \in Nat /\ group' \in Nat
  BY <1>1, <1>4 DEF Submit, BeginSend, EndSend, FailSend, counts, notices
<1>5. CASE MarkConversationRead
  <2>1. marks > 0 /\ marks' = marks - 1 /\ read' = Received /\ rows' = rows /\ group' = group
    BY <1>5 DEF MarkConversationRead, MarkRead
  <2>2. Unread' = 0
    BY <2>1, RowsStay, UnreadType, UnreadNone
  <2>3. badge' \in {0, badge} /\ tray' \in {Unread', tray}
    BY <1>5, Zenon DEF MarkConversationRead, ConversationRead, UpdateTrayUnread, counts
  <2>4. QED BY <1>1, <2>1, <2>2, <2>3
<1>6. CASE DeleteConversation \/ RenderFriends \/ GroupExpires \/ Restart
  BY <1>1, <1>6 DEF DeleteConversation, RenderFriends, GroupExpires, Restart, counts, notices
<1>7. CASE OnCallIncoming
  <2>1. UNCHANGED <<badge, tray, marks>> /\ group' \in {group, group + 1}
    BY <1>7, Zenon DEF OnCallIncoming, Notify, notices, counts
  <2>2. QED BY <1>1, <2>1
<1>8. CASE UNCHANGED chatVars
  BY <1>1, <1>8 DEF chatVars, counts, notices
<1>9. QED BY <1>2, <1>3, <1>4, <1>5, <1>6, <1>7, <1>8 DEF ChatNext

SendTyped ==
  /\ sending \in [Outgoing -> {"unsent", "queued", "here", "gone", "over"}]
  /\ \A m \in Outgoing : sending[m] = "here" => IsVisible

LEMMA SendStep == ASSUME ChatInv, [ChatNext]_chatVars PROVE SendTyped'
<1>1. SendTyped
  BY DEF ChatInv, ChatTypeOK, SendTyped
<1>2. CASE sending' = sending /\ (IsVisible => IsVisible')
  BY <1>1, <1>2 DEF SendTyped
<1>3. ASSUME NEW m \in Outgoing, NEW s \in {"unsent", "queued", "here", "gone", "over"},
             sending' = [sending EXCEPT ![m] = s], s = "here" => IsVisible, window' = window
      PROVE  SendTyped'
  BY <1>1, <1>3 DEF SendTyped, IsVisible
<1>4. ASSUME NEW m \in Outgoing, Submit(m) \/ BeginSend(m) \/ EndSend(m) \/ FailSend(m)
      PROVE  SendTyped'
  <2>1. CASE Submit(m)
    BY <1>3, <2>1 DEF Submit, screen
  <2>2. CASE BeginSend(m)
    <3>1. PICK s : s = IF IsVisible THEN "here" ELSE "gone"
      OBVIOUS
    <3>2. /\ s \in {"unsent", "queued", "here", "gone", "over"} /\ (s = "here" => IsVisible)
          /\ sending' = [sending EXCEPT ![m] = s] /\ window' = window
      BY <2>2, <3>1 DEF BeginSend, screen
    <3>3. QED BY <1>3, <3>2
  <2>3. CASE EndSend(m) \/ FailSend(m)
    BY <1>3, <2>3 DEF EndSend, FailSend, screen
  <2>4. QED BY <1>4, <2>1, <2>2, <2>3
<1>5. CASE Closed
  <2>1. sending' = [m \in Outgoing |-> IF sending[m] = "here" THEN "gone" ELSE sending[m]]
    BY <1>5 DEF Closed
  <2>2. QED BY <1>1, <2>1 DEF SendTyped
<1>6. CASE Restart
  <2>1. sending' = [m \in Outgoing |-> IF sending[m] = "unsent" THEN "unsent" ELSE "over"]
    BY <1>6 DEF Restart
  <2>2. QED BY <1>1, <2>1 DEF SendTyped
<1>7. CASE SelectFriend \/ AnimateClose
  <2>1. sending' = sending /\ IsVisible'
    BY <1>7 DEF SelectFriend, AnimateClose, IsVisible
  <2>2. QED BY <1>2, <2>1
<1>8. ASSUME NEW m \in Incoming, HandleMessage(m) PROVE SendTyped'
  <2>1. sending' = sending /\ window' = window
    BY <1>8 DEF HandleMessage
  <2>2. QED BY <1>2, <2>1 DEF IsVisible
<1>9. CASE \/ MarkConversationRead \/ GroupExpires \/ DeleteConversation \/ RenderFriends
           \/ OnCallIncoming \/ UNCHANGED chatVars
  <2>1. sending' = sending /\ window' = window
    BY <1>9 DEF MarkConversationRead, GroupExpires, DeleteConversation, RenderFriends,
                OnCallIncoming, chatVars, screen
  <2>2. QED BY <1>2, <2>1 DEF IsVisible
<1>10. QED BY <1>4, <1>5, <1>6, <1>7, <1>8, <1>9 DEF ChatNext

LEMMA SetsStep ==
  ASSUME ChatInv, [ChatNext]_chatVars
  PROVE  /\ shown' \subseteq Incoming /\ buried' \subseteq Incoming /\ late' \subseteq Incoming
         /\ strayed' \subseteq Outgoing
<1>1. /\ shown \subseteq Incoming /\ buried \subseteq Incoming /\ late \subseteq Incoming
      /\ strayed \subseteq Outgoing
  BY DEF ChatInv, ChatTypeOK
<1>2. CASE SelectFriend
  BY <1>1, <1>2 DEF SelectFriend, SetHistory, Received
<1>3. CASE AnimateClose \/ Closed \/ DeleteConversation \/ Restart
  BY <1>1, <1>3 DEF AnimateClose, Closed, DeleteConversation, Restart, record
<1>4. ASSUME NEW m \in Outgoing, Submit(m) \/ BeginSend(m) \/ EndSend(m) \/ FailSend(m)
      PROVE  /\ shown' \subseteq Incoming /\ buried' \subseteq Incoming
             /\ late' \subseteq Incoming /\ strayed' \subseteq Outgoing
  BY <1>1, <1>4 DEF Submit, BeginSend, EndSend, FailSend, record
<1>5. ASSUME NEW m \in Incoming, HandleMessage(m)
      PROVE  /\ shown' \subseteq Incoming /\ buried' \subseteq Incoming
             /\ late' \subseteq Incoming /\ strayed' \subseteq Outgoing
  BY <1>1, <1>5 DEF HandleMessage, ShowMessage, CountMessage
<1>6. CASE \/ MarkConversationRead \/ GroupExpires \/ RenderFriends
           \/ OnCallIncoming \/ UNCHANGED chatVars
  BY <1>1, <1>6 DEF MarkConversationRead, GroupExpires, RenderFriends, OnCallIncoming,
                    chatVars, record
<1>7. QED BY <1>2, <1>3, <1>4, <1>5, <1>6 DEF ChatNext

LEMMA FlagsStep ==
  ASSUME ChatInv, [ChatNext]_chatVars
  PROVE  wiped' \in BOOLEAN /\ stale' \in BOOLEAN /\ lost' \in BOOLEAN /\ padded' \in BOOLEAN
<1>1. wiped \in BOOLEAN /\ stale \in BOOLEAN /\ lost \in BOOLEAN /\ padded \in BOOLEAN
  BY DEF ChatInv, ChatTypeOK
<1>2. wiped' \in BOOLEAN
  <2>1. CASE UNCHANGED wiped
    BY <1>1, <2>1
  <2>2. CASE SelectFriend \/ Closed \/ DeleteConversation \/ Restart
    BY <2>2, Zenon DEF SelectFriend, SetHistory, Closed, DeleteConversation, IsVisible, Restart
  <2>3. ASSUME NEW m \in Outgoing, Submit(m) \/ BeginSend(m) \/ EndSend(m) \/ FailSend(m)
        PROVE  UNCHANGED wiped
    BY <2>3 DEF Submit, BeginSend, EndSend, FailSend, record
  <2>4. CASE \/ AnimateClose \/ MarkConversationRead \/ GroupExpires \/ RenderFriends
             \/ OnCallIncoming \/ UNCHANGED chatVars
    BY <1>1, <2>4 DEF AnimateClose, MarkConversationRead, GroupExpires, RenderFriends,
                      OnCallIncoming, chatVars, record
  <2>5. ASSUME NEW m \in Incoming, HandleMessage(m) PROVE UNCHANGED wiped
    BY <2>5 DEF HandleMessage
  <2>6. QED BY <2>1, <2>2, <2>3, <2>4, <2>5 DEF ChatNext
<1>3. stale' \in BOOLEAN /\ lost' \in BOOLEAN
  <2>1. CASE UNCHANGED <<stale, lost>>
    BY <1>1, <2>1
  <2>2. CASE SelectFriend \/ RenderFriends
    BY <1>1, <2>2 DEF SelectFriend, RenderFriends
  <2>3. CASE Restart \/ DeleteConversation
    <3>1. stale' \in BOOLEAN
      <4>1. CASE Restart
        BY <4>1 DEF Restart
      <4>2. CASE DeleteConversation
        BY <1>1, <4>2, Zenon DEF DeleteConversation
      <4>3. QED BY <2>3, <4>1, <4>2
    <3>2. lost' \in BOOLEAN
      BY <1>1, <2>3 DEF Restart, DeleteConversation
    <3>3. QED BY <3>1, <3>2
  <2>4. CASE MarkConversationRead
    BY <1>1, <2>4, Zenon DEF MarkConversationRead, ConversationRead, UpdateTrayUnread, counts
  <2>5. ASSUME NEW m \in Incoming, HandleMessage(m) PROVE stale' \in BOOLEAN /\ lost' \in BOOLEAN
    BY <2>5 DEF HandleMessage, UpdateTrayUnread
  <2>6. ASSUME NEW m \in Outgoing, Submit(m) \/ BeginSend(m) \/ EndSend(m) \/ FailSend(m)
        PROVE  UNCHANGED <<stale, lost>>
    BY <2>6 DEF Submit, BeginSend, EndSend, FailSend, counts
  <2>7. CASE \/ AnimateClose \/ Closed \/ GroupExpires \/ OnCallIncoming \/ UNCHANGED chatVars
    BY <1>1, <2>7 DEF AnimateClose, Closed, GroupExpires, OnCallIncoming, chatVars, counts
  <2>8. QED BY <2>1, <2>2, <2>3, <2>4, <2>5, <2>6, <2>7 DEF ChatNext
<1>4. padded' \in BOOLEAN
  <2>1. CASE UNCHANGED padded
    BY <1>1, <2>1
  <2>2. CASE GroupExpires \/ DeleteConversation \/ Restart
    BY <2>2, Zenon DEF GroupExpires, DeleteConversation, Restart
  <2>3. CASE MarkConversationRead
    BY <1>1, <2>3, Zenon DEF MarkConversationRead
  <2>4. CASE OnCallIncoming
    BY <1>1, <2>4, Zenon DEF OnCallIncoming, Notify, notices
  <2>5. ASSUME NEW m \in Incoming, HandleMessage(m) PROVE padded' \in BOOLEAN
    <3>1. UNCHANGED notices \/ Notify(TRUE)
      BY <2>5, Zenon DEF HandleMessage, ShowMessage, CountMessage
    <3>2. QED BY <1>1, <3>1, Zenon DEF Notify, notices
  <2>6. ASSUME NEW m \in Outgoing, Submit(m) \/ BeginSend(m) \/ EndSend(m) \/ FailSend(m)
        PROVE  UNCHANGED padded
    BY <2>6 DEF Submit, BeginSend, EndSend, FailSend, notices
  <2>7. CASE SelectFriend \/ AnimateClose \/ Closed \/ RenderFriends \/ UNCHANGED chatVars
    BY <1>1, <2>7 DEF SelectFriend, AnimateClose, Closed, RenderFriends, chatVars, notices
  <2>8. QED BY <2>1, <2>2, <2>3, <2>4, <2>5, <2>6, <2>7 DEF ChatNext
<1>5. QED BY <1>2, <1>3, <1>4

LEMMA BoundsStep ==
  ASSUME ChatInv, [ChatNext]_chatVars
  PROVE  used' \in [Bounds -> Nat] /\ \A b \in Bounds : used'[b] <= Most[b]
<1>1. used \in [Bounds -> Nat] /\ \A b \in Bounds : used[b] <= Most[b] /\ Most[b] \in Nat
  BY BoundsAssumption DEF ChatInv, ChatTypeOK, Bounds, Most
<1>2. \A b \in Bounds : Use(b) =>
        used' \in [Bounds -> Nat] /\ \A c \in Bounds : used'[c] <= Most[c]
  BY <1>1 DEF Use
<1>3. CASE \E b \in Bounds : Use(b)
  BY <1>2, <1>3
<1>4. CASE UNCHANGED used
  BY <1>1, <1>4
<1>5. SelectFriend => Use("selects")
  BY DEF SelectFriend
<1>6. \A m \in Incoming : HandleMessage(m) => Use("arrivals")
  BY DEF HandleMessage
<1>7. OnCallIncoming => Use("rings")
  BY DEF OnCallIncoming
<1>8. Restart => Use("restarts")
  BY DEF Restart
<1>9. {"selects", "arrivals", "rings", "restarts"} \subseteq Bounds
  BY DEF Bounds
<1>10. \A m \in Outgoing :
         Submit(m) \/ BeginSend(m) \/ EndSend(m) \/ FailSend(m) => UNCHANGED used
  BY DEF Submit, BeginSend, EndSend, FailSend
<1>11. \/ AnimateClose \/ Closed \/ MarkConversationRead \/ GroupExpires \/ DeleteConversation
       \/ RenderFriends \/ UNCHANGED chatVars
       => UNCHANGED used
  BY DEF AnimateClose, Closed, MarkConversationRead, GroupExpires, DeleteConversation,
         RenderFriends, chatVars
<1>12. (\E b \in Bounds : Use(b)) \/ UNCHANGED used
  BY <1>5, <1>6, <1>7, <1>8, <1>9, <1>10, <1>11, Zenon DEF ChatNext
<1>13. QED BY <1>3, <1>4, <1>12

-----------------------------------------------------------------------------
(* What is sent and shown *)

LEMMA SentStep == ASSUME ChatInv, [ChatNext]_chatVars PROVE SentBook'
<1>1. SentBook /\ sending \in [Outgoing -> {"unsent", "queued", "here", "gone", "over"}]
  BY DEF ChatInv, ChatTypeOK
<1>2. ASSUME ToSet(rows') \subseteq ToSet(rows) \cup Incoming,
             \A m \in Outgoing : sending[m] = "over" => sending'[m] = "over"
      PROVE  SentBook'
  BY <1>1, <1>2, SendersAssumption DEF SentBook
<1>3. ASSUME NEW m \in Outgoing, EndSend(m) PROVE SentBook'
  <2>1. m \in (Incoming \cup Outgoing) \ ToSet(rows) /\ SaveRow(m)
    BY <1>3, SentIsNoRow DEF EndSend
  <2>2. ToSet(rows') = ToSet(rows) \cup {m}
    BY <2>1, Saved
  <2>3. sending' = [sending EXCEPT ![m] = "over"]
    BY <1>3 DEF EndSend
  <2>4. QED BY <1>1, <2>2, <2>3 DEF SentBook
<1>4. ASSUME NEW m \in Incoming, HandleMessage(m) PROVE SentBook'
  <2>1. m \in (Incoming \cup Outgoing) \ ToSet(rows) /\ SaveRow(m) /\ sending' = sending
    BY <1>4, NewIsNoRow DEF HandleMessage
  <2>2. ToSet(rows') = ToSet(rows) \cup {m}
    BY <2>1, Saved
  <2>3. QED BY <1>2, <2>1, <2>2
<1>5. ASSUME NEW m \in Outgoing, Submit(m) \/ BeginSend(m) \/ FailSend(m) PROVE SentBook'
  <2>1. rows' = rows
    BY <1>5 DEF Submit, BeginSend, FailSend, store
  <2>2. \A n \in Outgoing : sending[n] = "over" => sending'[n] = "over"
    BY <1>1, <1>5 DEF Submit, BeginSend, FailSend
  <2>3. QED BY <1>2, <2>1, <2>2
<1>6. CASE Closed \/ Restart
  <2>1. rows' = rows
    BY <1>6 DEF Closed, Restart, store
  <2>2. \A n \in Outgoing : sending[n] = "over" => sending'[n] = "over"
    BY <1>1, <1>6 DEF Closed, Restart
  <2>3. QED BY <1>2, <2>1, <2>2
<1>7. CASE DeleteConversation
  <2>1. rows' = <<>>
    BY <1>7 DEF DeleteConversation, DeleteRows
  <2>2. ToSet(rows') = {}
    BY <2>1 DEF ToSet
  <2>3. QED BY <2>2 DEF SentBook
<1>8. CASE \/ SelectFriend \/ AnimateClose \/ MarkConversationRead \/ GroupExpires
           \/ RenderFriends \/ OnCallIncoming \/ UNCHANGED chatVars
  <2>1. rows' = rows /\ sending' = sending
    BY <1>8 DEF SelectFriend, AnimateClose, MarkConversationRead, GroupExpires, RenderFriends,
                OnCallIncoming, chatVars, store
  <2>2. QED BY <1>2, <2>1
<1>9. QED BY <1>3, <1>4, <1>5, <1>6, <1>7, <1>8 DEF ChatNext

LEMMA BubblesGrow ==
  ASSUME ChatInv, NEW m \in (Incoming \cup Outgoing) \ ToSet(rows), SaveRow(m),
         bubbles' = Append(bubbles, m), IsVisible, UNCHANGED <<wiped, strayed>>
  PROVE  BubblesAreRows'
<1> SUFFICES ASSUME ~wiped'
             PROVE  /\ IsInjective(bubbles') /\ ToSet(bubbles') \subseteq ToSet(rows')
                    /\ ToSet(Newest') \ strayed' \subseteq ToSet(bubbles')
  BY DEF BubblesAreRows
<1>1. /\ IsInjective(bubbles) /\ ToSet(bubbles) \subseteq ToSet(rows)
      /\ ToSet(Newest) \ strayed \subseteq ToSet(bubbles)
  BY DEF ChatInv, BubblesAreRows
<1>2. bubbles \in Seq(Incoming \cup Outgoing) /\ m \in Incoming \cup Outgoing
  BY DEF ChatInv, ChatTypeOK
<1>3. /\ ToSet(bubbles') = ToSet(bubbles) \cup {m}
      /\ IsInjective(bubbles) /\ m \notin ToSet(bubbles) => IsInjective(bubbles')
  <2>1. /\ ToSet(Append(bubbles, m)) = ToSet(bubbles) \cup {m}
        /\ IsInjective(bubbles) /\ m \notin ToSet(bubbles) => IsInjective(Append(bubbles, m))
    BY <1>2, AppendedOnce
  <2>2. QED BY <2>1
<1>4. ToSet(rows') = ToSet(rows) \cup {m} /\ ToSet(Newest') \subseteq ToSet(Newest) \cup {m}
  BY Saved
<1>5. QED BY <1>1, <1>3, <1>4

LEMMA BubblesStep == ASSUME ChatInv, [ChatNext]_chatVars PROVE BubblesAreRows'
<1>1. BubblesAreRows
  BY DEF ChatInv
<1>2. CASE SelectFriend
  <2>1. bubbles' = Newest /\ rows' = rows /\ strayed' = {}
    BY <1>2 DEF SelectFriend, SetHistory, store
  <2>2. Newest' = Newest /\ ToSet(rows') = ToSet(rows)
    BY <2>1, RowsStay
  <2>3. QED BY <2>1, <2>2, NewestAreRows DEF BubblesAreRows
<1>3. ASSUME NEW m \in Incoming, HandleMessage(m) PROVE BubblesAreRows'
  <2>1. m \in (Incoming \cup Outgoing) \ ToSet(rows) /\ SaveRow(m)
    BY <1>3, NewIsNoRow DEF HandleMessage
  <2>2. UNCHANGED <<window, wiped, strayed>>
    BY <1>3 DEF HandleMessage
  <2>3. CASE ShowMessage(m)
    BY <2>1, <2>2, <2>3, BubblesGrow DEF ShowMessage
  <2>4. CASE CountMessage(m)
    BY <2>2, <2>4 DEF CountMessage, BubblesAreRows, IsVisible
  <2>5. QED BY <1>3, <2>3, <2>4 DEF HandleMessage
<1>4. ASSUME NEW m \in Outgoing, EndSend(m) PROVE BubblesAreRows'
  <2>1. m \in (Incoming \cup Outgoing) \ ToSet(rows) /\ SaveRow(m)
    BY <1>4, SentIsNoRow DEF EndSend
  <2>2. UNCHANGED <<window, wiped>> /\ sending[m] \in {"here", "gone"}
    BY <1>4 DEF EndSend
  <2>3. CASE sending[m] = "here"
    <3>1. IsVisible /\ bubbles' = Append(bubbles, m) /\ strayed' = strayed
      BY <1>4, <2>3 DEF EndSend, ChatInv, ChatTypeOK
    <3>2. QED BY <2>1, <2>2, <3>1, BubblesGrow
  <2>4. CASE sending[m] = "gone"
    <3>1. SUFFICES ASSUME IsVisible, ~wiped PROVE BubblesAreRows'
      BY <2>2 DEF BubblesAreRows, IsVisible
    <3>2. bubbles' = bubbles /\ strayed' = strayed \cup {m}
      BY <1>4, <2>4, <3>1 DEF EndSend
    <3>3. ToSet(rows') = ToSet(rows) \cup {m} /\ ToSet(Newest') \subseteq ToSet(Newest) \cup {m}
      BY <2>1, Saved
    <3>4. QED BY <1>1, <3>1, <3>2, <3>3 DEF BubblesAreRows
  <2>5. QED BY <2>2, <2>3, <2>4
<1>5. CASE Closed \/ Restart
  BY <1>5 DEF Closed, Restart, BubblesAreRows, IsVisible
<1>6. CASE DeleteConversation
  <2>1. wiped' = IsVisible /\ window' = window
    BY <1>6, Zenon DEF DeleteConversation, screen
  <2>2. wiped' \/ ~IsVisible'
    BY <2>1, Zenon DEF IsVisible
  <2>3. QED BY <2>2, Zenon DEF BubblesAreRows
<1>7. CASE UNCHANGED <<rows, bubbles, strayed, wiped>> /\ (IsVisible' => IsVisible)
  <2>1. Newest' = Newest /\ ToSet(rows') = ToSet(rows)
    BY <1>7, RowsStay
  <2>2. QED BY <1>1, <1>7, <2>1 DEF BubblesAreRows
<1>8. ASSUME NEW m \in Outgoing, Submit(m) \/ BeginSend(m) \/ FailSend(m) PROVE BubblesAreRows'
  <2>1. UNCHANGED <<rows, bubbles, strayed, wiped, window>>
    BY <1>8 DEF Submit, BeginSend, FailSend, store, screen, record
  <2>2. QED BY <1>7, <2>1 DEF IsVisible
<1>9. CASE \/ AnimateClose \/ MarkConversationRead \/ GroupExpires
           \/ RenderFriends \/ OnCallIncoming \/ UNCHANGED chatVars
  <2>1. UNCHANGED <<rows, bubbles, strayed, wiped>> /\ (IsVisible' => IsVisible)
    BY <1>9 DEF AnimateClose, MarkConversationRead, GroupExpires, RenderFriends, IsVisible,
                OnCallIncoming, chatVars, store, screen, record
  <2>2. QED BY <1>7, <2>1
<1>10. QED BY <1>2, <1>3, <1>4, <1>5, <1>6, <1>8, <1>9 DEF ChatNext

-----------------------------------------------------------------------------
(* The chat's theorems *)

LEMMA ChatNextInv == ChatInv /\ [ChatNext]_chatVars => ChatInv'
<1> SUFFICES ASSUME ChatInv, [ChatNext]_chatVars PROVE ChatInv'
  OBVIOUS
<1>1. ChatTypeOK'
  <2>1. SendTyped'
    BY SendStep
  <2>2. QED BY <2>1, RowsStep, WindowStep, NumbersStep, SetsStep, FlagsStep, BoundsStep
            DEF ChatTypeOK, SendTyped, Most, Bounds
<1>2. QED BY <1>1, SentStep, ReadStep, CountStep, BubblesStep DEF ChatInv

LEMMA ChatSafe == ChatSpec => []ChatInv
BY ChatInitInv, ChatNextInv, PTL DEF ChatSpec

\* messaging.py, chat_window.py: no row is stored twice, nothing is marked read that
\* is no row, and no bubble is left in a window that was closed.
THEOREM ChatTypeCorrect == ChatSpec => []ChatTypeOK
<1>1. ChatInv => ChatTypeOK
  BY DEF ChatInv
<1>2. QED BY <1>1, ChatSafe, PTL

\* main.py, chat_window.py: a window that is open shows each row once and misses none
\* of the newest, but for a message sent from a window that was closed meanwhile,
\* whatever is sent, received, selected and deleted in between.
THEOREM WindowIsTheRows == ChatSpec => []BubblesAreRows
<1>1. ChatInv => BubblesAreRows
  BY DEF ChatInv
<1>2. QED BY <1>1, ChatSafe, PTL

\* main.py, notification_manager.py: with no marks left to make, the tray icon and the
\* badge count the unread rows, and a grouped notification announces no more.
THEOREM NumbersAgree == ChatSpec => []CountsAgree
<1>1. ChatInv => CountsAgree
  <2> SUFFICES ASSUME ChatInv PROVE CountsAgree
    OBVIOUS
  <2>1. CountBook /\ marks \in Nat
    BY DEF ChatInv, ChatTypeOK
  <2>2. QED BY <2>1 DEF CountBook, CountsAgree
<1>2. QED BY <1>1, ChatSafe, PTL

\* messaging.py: mark_conversation_read, a turn of the event loop after the window was
\* loaded, tells the friend "read" only of what the user was shown, or what a window
\* left out, or what came in between; and what an open window shows does get read.
THEOREM ReadWasShown == ChatSpec => []ReadIsShown
<1>1. ChatInv => ReadIsShown
  BY DEF ChatInv, ReadBook, Excused, ReadIsShown
<1>2. QED BY <1>1, ChatSafe, PTL

=============================================================================
