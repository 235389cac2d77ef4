------------------------------- MODULE Audio -------------------------------
(***************************************************************************)
(* What becomes of the sound of one client: the AudioStream with its two   *)
(* devices, whose callbacks run in threads of the sound library, the       *)
(* AudioTrack that the WebRTC sender reads, the reader of the peer's track *)
(* (client/core/voice.py) and the microphone test of the settings          *)
(* (client/main.py), which shares the AudioStream with the calls.          *)
(*                                                                         *)
(* There is one peer, and Calls has what is said to it.  As there, what a  *)
(* coroutine has still to do after an await is a job, and nobody checks    *)
(* the call again when it goes on.  One CallManager lives until its close. *)
(***************************************************************************)
EXTENDS Naturals, Sequences, FiniteSets

CONSTANTS
  MaxCaptured,          \* maxlen of _capture_queue, 60 in the code
  MaxPlayed,            \* maxlen of _playback_queue, 400 in the code
  MaxCalls,             \* bound: calls begun
  MaxJobs               \* bound: coroutines suspended at once

ASSUME QueueAssumption == MaxCaptured \in Nat \ {0} /\ MaxPlayed \in Nat \ {0}
ASSUME BoundAssumption == MaxCalls \in Nat /\ MaxJobs \in Nat

VARIABLES
  phase,                \* CallManager._state; "rest" is idle or ended
  current,              \* the call of _call_id, 0 if there is none
  calls,                \* calls begun so far
  jobs,                 \* suspended coroutines
  popup,                \* whether the pop-up of an incoming call is open
  closed,               \* _closed
  muted,                \* _muted
  capture,              \* _capture_stream: "closed", or opened for a "call" or a "test"
  mic,                  \* _capture_queue
  playback,             \* whether there is a _playback_stream
  speaker,              \* _playback_queue: the calls its frames belong to
  track,                \* AudioTrack._active
  sender,               \* the WebRTC sender: "none", "ready", or "asleep" in recv
  reader,               \* _remote_reader: "none", "waiting", or "reading" in recv
  orphan,               \* a reader goes on that was cancelled
  testing,              \* whether the microphone test is on
  early,                \* mute was toggled in this call before it was active
  broken,               \* in this call a device failed, or the test closed the microphone
  stray,                \* a job of another call went on into this one
  leaked                \* kinds of frames the peer got, other than "talk"

manager == <<phase, current, calls, jobs, popup, closed>>
device  == <<capture, mic, playback, speaker>>
readers == <<reader, orphan>>
sound   == <<muted, device, track, sender, readers, testing>>
history == <<early, broken, stray, leaked>>
vars    == <<manager, sound, history>>

Phase  == {"rest", "in", "out", "connecting", "active"}
InCall == phase # "rest"
Talks  == phase \in {"connecting", "active"}
NoCall == 0
Call   == 0 .. MaxCalls
Job    == [op : {"connect", "offer", "answer", "apply"}, id : Call]
Kind   == {"talk", "test", "early", "other"}
Frame  == [kind : Kind, call : Call]

Flags ==
  /\ popup \in BOOLEAN /\ closed \in BOOLEAN /\ muted \in BOOLEAN /\ playback \in BOOLEAN
  /\ track \in BOOLEAN /\ orphan \in BOOLEAN /\ testing \in BOOLEAN
  /\ early \in BOOLEAN /\ broken \in BOOLEAN /\ stray \in BOOLEAN

TypeOK ==
  /\ Flags
  /\ phase \in Phase /\ current \in Call /\ calls \in Call /\ jobs \subseteq Job
  /\ capture \in {"closed", "call", "test"}
  /\ mic \in Seq(Frame) /\ Len(mic) <= MaxCaptured /\ (capture = "closed" => mic = <<>>)
  /\ speaker \in Seq(Call) /\ Len(speaker) <= MaxPlayed
  /\ sender \in {"none", "ready", "asleep"}
  /\ reader \in {"none", "waiting", "reading"}
  /\ leaked \subseteq (Kind \ {"talk"}) \cup {"stale", "stray"}

Init ==
  /\ phase = "rest" /\ current = NoCall /\ calls = 0 /\ jobs = {}
  /\ popup = FALSE /\ closed = FALSE /\ muted = FALSE
  /\ capture = "closed" /\ mic = <<>> /\ playback = FALSE /\ speaker = <<>>
  /\ track = FALSE /\ sender = "none" /\ reader = "none" /\ orphan = FALSE
  /\ testing = FALSE /\ early = FALSE /\ broken = FALSE /\ stray = FALSE /\ leaked = {}

-----------------------------------------------------------------------------
(* The devices *)

\* A plausible bug: a queue without a maxlen.
PutAll(queue, x, most) == Append(queue, x)

\* A deque with a maxlen drops what it has had longest.
Put(queue, x, most) == IF Len(queue) < most THEN Append(queue, x) ELSE Append(Tail(queue), x)

\* What the microphone hears now.
Heard ==
  IF phase = "active" /\ ~muted THEN "talk"
  ELSE IF capture = "test" THEN "test"
  ELSE IF early THEN "early" ELSE "other"

\* In a thread of the sound library.
InputCallback ==
  /\ capture # "closed"
  /\ mic' = Put(mic, [kind |-> Heard, call |-> current], MaxCaptured)
  /\ UNCHANGED <<manager, muted, capture, playback, speaker, track, sender, readers,
                 testing, history>>

\* In another one: an empty queue is silence.
OutputCallback ==
  /\ playback /\ speaker # <<>>
  /\ speaker' = Tail(speaker)
  /\ UNCHANGED <<manager, muted, capture, mic, playback, track, sender, readers, testing,
                 history>>

\* An open device stays as it is; opening one may raise AudioDeviceError.
StartCapture(who) ==
  \/ capture # "closed" /\ UNCHANGED <<capture, broken>>
  \/ capture = "closed" /\ capture' = who /\ UNCHANGED broken
  \/ capture = "closed" /\ UNCHANGED capture /\ broken' = (broken \/ InCall \/ who = "call")

StartPlayback == playback' \in {playback, TRUE}

\* A plausible bug: the frames that were captured stay in the queue.
StopCaptureOnly == capture' = "closed" /\ UNCHANGED mic

\* stop() waits for the callback; what it left in the queue is cleared.
StopCapture == capture' = "closed" /\ mic' = <<>>

StopPlayback == playback' = FALSE /\ speaker' = <<>>

-----------------------------------------------------------------------------
(* What the operations have in common *)

\* The wait_for of Python 3.11 may swallow the cancel of a reader that has a frame
\* in hand: then it goes on, though nobody knows of it any more.
StopRemoteReader ==
  /\ reader' = "none"
  /\ orphan' \in {orphan, orphan \/ reader = "reading"}

Cleanup ==
  /\ StopRemoteReader
  /\ track' = FALSE /\ StopCapture /\ StopPlayback
  /\ current' = NoCall /\ muted' = FALSE
  /\ early' = FALSE /\ broken' = FALSE /\ stray' = FALSE

\* _cleanup and _set_state(CALL_ENDED); the pop-up goes with the call.
HangUp ==
  /\ Cleanup
  /\ phase' = "rest" /\ popup' = FALSE
  /\ UNCHANGED <<calls, jobs, closed, sender, testing, leaked>>

\* _set_state(CALL_ACTIVE) opens the devices on a change, whether or not the user
\* is muted.
SetActive ==
  /\ phase' = "active"
  /\ \/ phase = "active" /\ UNCHANGED <<capture, playback, broken>>
     \/ phase # "active" /\ StartCapture("call") /\ StartPlayback

\* A coroutine suspends, those in rest with it.
Suspend(j, rest) == Cardinality(rest) < MaxJobs /\ jobs' = rest \cup {j}

\* Up to the await of the negotiation: an id, _ensure_track, _start_remote_listener.
Begin(op, rest) ==
  /\ calls < MaxCalls
  /\ calls' = calls + 1 /\ current' = calls + 1
  /\ Suspend([op |-> op, id |-> calls + 1], rest)
  /\ track' = TRUE
  /\ StopRemoteReader
  /\ UNCHANGED <<phase, closed, muted, device, sender, testing, early, broken, leaked>>

\* The call of job j is over, whether or not there is another one.
Foreign(j) == current = NoCall \/ j.id # current

\* Job j is over; it breaks into another call, or into one that has gone further.
Done(j, breaks) ==
  /\ j \in jobs
  /\ jobs' = jobs \ {j}
  /\ stray' = (stray \/ breaks)

\* What was awaited raised: nobody cleans up.
JobFails(j) ==
  /\ Done(j, FALSE)
  /\ UNCHANGED <<phase, current, calls, popup, closed, sound, early, broken, leaked>>

-----------------------------------------------------------------------------
(* The caller *)

\* start_call with a channel at hand, or with one to wait for.
StartCall ==
  /\ ~closed
  /\ popup' = FALSE
  /\ \/ ~InCall /\ Begin("offer", jobs) /\ UNCHANGED stray
     \/ /\ ~InCall /\ Suspend([op |-> "connect", id |-> NoCall], jobs)
        /\ UNCHANGED <<phase, current, calls, closed, sound, history>>
     \/ /\ InCall
        /\ UNCHANGED <<phase, current, calls, jobs, closed, sound, history>>

\* _wait_open returned, whatever the state is by now.
CallConnected(j) ==
  /\ ~closed
  /\ j \in jobs /\ j.op = "connect"
  /\ Begin("offer", jobs \ {j})
  /\ stray' = (stray \/ Talks)
  /\ UNCHANGED popup

\* The call_invite goes out with the id of now, and the state is set.
OfferReady(j) ==
  /\ j.op = "offer"
  /\ Done(j, current = NoCall \/ Talks \/ (phase = "in" /\ Foreign(j)))
  /\ phase' = "out"
  /\ UNCHANGED <<current, calls, popup, closed, sound, early, broken, leaked>>

\* A call_answer with the id of now.
OnAnswer ==
  /\ ~closed /\ phase \in {"out", "connecting"}
  /\ Suspend([op |-> "apply", id |-> current], jobs)
  /\ UNCHANGED <<phase, current, calls, popup, closed, sound, history>>

\* The rest of _on_call_answer, after apply_remote_answer.
ApplyDone(j) ==
  /\ j.op = "apply"
  /\ Done(j, Foreign(j))
  /\ SetActive
  /\ UNCHANGED <<current, calls, popup, closed, muted, mic, speaker, track, sender, readers,
                 testing, early, leaked>>

-----------------------------------------------------------------------------
(* The callee *)

\* A second invitation is refused, which changes nothing.
OnInvite ==
  /\ ~closed /\ ~InCall
  /\ phase' = "in" /\ popup' = TRUE
  /\ UNCHANGED <<current, calls, jobs, closed, sound, history>>

\* In another state the pop-up is answered with a call_reject.
AcceptCall ==
  /\ ~closed /\ popup
  /\ popup' = FALSE
  /\ \/ phase = "in" /\ Begin("answer", jobs) /\ UNCHANGED stray
     \/ /\ phase # "in"
        /\ UNCHANGED <<phase, current, calls, jobs, closed, sound, history>>

\* The rest of accept_call, after create_renegotiation_answer.
AnswerReady(j) ==
  /\ j.op = "answer"
  /\ Done(j, Foreign(j) \/ Talks)
  /\ phase' = "connecting"
  /\ UNCHANGED <<current, calls, popup, closed, sound, early, broken, leaked>>

-----------------------------------------------------------------------------
(* Both *)

\* The transport reads the track once a description of both sides is set.
Negotiated ==
  /\ sender = "none" /\ ~closed
  /\ \E j \in jobs : j.op \in {"answer", "apply"}
  /\ sender' = "ready"
  /\ UNCHANGED <<manager, muted, device, track, readers, testing, history>>

OnRemoteTrack ==
  /\ InCall /\ ~closed /\ reader = "none"
  /\ \E j \in jobs : j.op \in {"answer", "apply"}
  /\ reader' = "waiting"
  /\ UNCHANGED <<manager, muted, device, track, sender, orphan, testing, history>>

\* _read_remote_audio looks at the state, and awaits a frame.
AwaitFrame ==
  /\ reader = "waiting" /\ Talks
  /\ reader' = "reading"
  /\ UNCHANGED <<manager, muted, device, track, sender, orphan, testing, history>>

\* The track ended, or gave an error.
TrackEnds ==
  /\ reader = "reading"
  /\ reader' = "none"
  /\ UNCHANGED <<manager, muted, device, track, sender, orphan, testing, history>>

\* A frame of call id: the first one a reader gets while connecting makes the call
\* active.  Which of its frames is its first is left open.
Play(id) ==
  /\ speaker' = Put(speaker, id, MaxPlayed)
  /\ \/ phase = "connecting" /\ SetActive
     \/ UNCHANGED <<phase, capture, playback, broken>>
  /\ UNCHANGED <<current, calls, jobs, popup, closed, muted, mic, track, sender, testing,
                 early, stray, leaked>>

PlayFrame ==
  /\ reader = "reading"
  /\ Play(current)
  /\ reader' = "waiting"
  /\ UNCHANGED orphan

\* Its frame goes into the queue that was cleared, and it reads on unless the call
\* is over.
PlayLateFrame ==
  /\ orphan
  /\ Play(NoCall)
  /\ orphan' \in {FALSE, InCall /\ ~closed}
  /\ UNCHANGED reader

\* toggle_mute, outside a call without effect.
ToggleMute ==
  /\ InCall /\ ~closed
  /\ muted' = ~muted
  /\ \/ ~muted /\ StopCapture /\ UNCHANGED broken
     \/ muted /\ StartCapture("call") /\ UNCHANGED mic
  /\ early' = (early \/ phase # "active")
  /\ UNCHANGED <<manager, playback, speaker, track, sender, readers, testing, stray,
                 leaked>>

\* end_call of the user or of a timer, which a job may arm even after the close;
\* reject_call; a call_end or call_reject, which may carry no id.  The sender goes on.
EndCall ==
  /\ InCall \/ current = NoCall
  /\ closed => stray
  /\ HangUp

\* The session is gone, and with it its sender; jobs go on.
PeerDisconnected ==
  /\ ~closed /\ sender # "none"
  /\ sender' = "none"
  /\ IF InCall /\ current # NoCall
     THEN Cleanup /\ phase' = "rest" /\ popup' = FALSE
     ELSE UNCHANGED <<phase, current, popup, muted, device, track, readers, early, broken,
                      stray>>
  /\ UNCHANGED <<calls, jobs, closed, testing, leaked>>

\* close: the state stays what it was, and so do the jobs.
Close ==
  /\ ~closed
  /\ closed' = TRUE
  /\ Cleanup
  /\ sender' = "none" /\ testing' = FALSE /\ popup' = FALSE
  /\ UNCHANGED <<phase, calls, jobs, leaked>>

-----------------------------------------------------------------------------
(* What the peer gets *)

Leaks(f) ==
  IF stray THEN {"stray"}
  ELSE IF f.kind # "talk" THEN {f.kind}
  ELSE IF f.call = current /\ InCall THEN {} ELSE {"stale"}

TakeFrame ==
  \/ mic # <<>> /\ leaked' = leaked \cup Leaks(Head(mic)) /\ mic' = Tail(mic)
  \/ mic = <<>> /\ UNCHANGED <<leaked, mic>>

\* recv of an active track: without a frame it sleeps for 20 ms.  An inactive
\* track sends silence and never looks.
Recv ==
  /\ sender = "ready" /\ track
  /\ sender' = IF mic = <<>> THEN "asleep" ELSE "ready"
  /\ TakeFrame
  /\ UNCHANGED <<manager, muted, capture, playback, speaker, track, readers, testing, early,
                 broken, stray>>

\* After the sleep it looks again, whatever the track is by now.
RecvAgain ==
  /\ sender = "asleep"
  /\ sender' = "ready"
  /\ TakeFrame
  /\ UNCHANGED <<manager, muted, capture, playback, speaker, track, readers, testing, early,
                 broken, stray>>

-----------------------------------------------------------------------------
(* The microphone test *)

StartTest ==
  /\ ~closed /\ ~testing
  /\ StartCapture("test")
  /\ testing' = (capture' # "closed")
  /\ UNCHANGED <<manager, muted, mic, playback, speaker, track, sender, readers, early,
                 stray, leaked>>

\* stop_capture, though a call may need the microphone.
StopTest ==
  /\ testing
  /\ testing' = FALSE
  /\ StopCapture
  /\ broken' = (broken \/ InCall)
  /\ UNCHANGED <<manager, muted, playback, speaker, track, sender, readers, early, stray,
                 leaked>>

Continue(j) ==
  CallConnected(j) \/ OfferReady(j) \/ ApplyDone(j) \/ AnswerReady(j) \/ JobFails(j)

Next ==
  \/ InputCallback \/ OutputCallback
  \/ StartCall \/ OnAnswer \/ OnInvite \/ AcceptCall
  \/ \E j \in jobs : Continue(j)
  \/ Negotiated \/ OnRemoteTrack \/ AwaitFrame \/ TrackEnds \/ PlayFrame \/ PlayLateFrame
  \/ ToggleMute
  \/ EndCall \/ PeerDisconnected \/ Close
  \/ Recv \/ RecvAgain
  \/ StartTest \/ StopTest

Spec == Init /\ [][Next]_vars

-----------------------------------------------------------------------------
(* Properties *)

\* The peer hears what the user says unmuted in an active call, and never what
\* was said before it, muted in it or in a call before.  Three things do get out:
\* the microphone test, a call in which mute was toggled before it was active, and
\* what is said while a job of another call went on into this one.
OnlyTalkIsSent == leaked \subseteq {"test", "early", "stray"}

\* No frame of a call is left for the next one, in either direction, except the
\* one of a reader whose cancel was swallowed.
QueuesAreOfTheCall ==
  \/ stray
  \/ /\ \A i \in DOMAIN speaker :
          speaker[i] = NoCall \/ (speaker[i] = current /\ Talks)
     /\ \A i \in DOMAIN mic :
          mic[i].kind = "talk" => mic[i].call = current /\ phase = "active"

\* Whoever is not muted is heard, as long as no device fails and the microphone
\* test does not take the microphone away.
SpeakerIsHeard ==
  phase = "active" /\ ~muted /\ ~broken /\ ~stray /\ ~closed => capture # "closed" /\ track

\* A microphone or loudspeaker that a call opened can be hung up on: whatever job
\* opened it, there is a call in the state of the manager.
DevicesAreOfACall == ~InCall => capture # "call" /\ ~playback

\* The sound follows the call, whatever the threads of the devices, the sender
\* in its sleep, the coroutines and the settings window do.
SoundFollowsTheCall ==
  OnlyTalkIsSent /\ QueuesAreOfTheCall /\ SpeakerIsHeard /\ DevicesAreOfACall

=============================================================================
