------------------------------- MODULE Calls --------------------------------
(***************************************************************************)
(* client/core/voice.py: the CallManager of every user, with the incoming  *)
(* call pop-up of client/main.py and client/ui/components/notification.py, *)
(* over the data channels of client/network/p2p_manager.py.                *)
(*                                                                         *)
(* start_call, accept_call and _on_call_answer suspend while aiortc        *)
(* negotiates the audio, and nobody checks the manager again when they go  *)
(* on: what they still have to do is a job here.  The rest of a coroutine, *)
(* and a timer with the end_call it schedules, is one step.                *)
(***************************************************************************)
EXTENDS Naturals, Sequences

CONSTANTS
  User,                 \* the clients
  Nobody,               \* no peer
  MaxCalls,             \* bound: how many call ids start_call draws
  MaxLinks              \* bound: how often a connection is established

ASSUME NobodyAssumption == Nobody \notin User
ASSUME BoundsAssumption == MaxCalls \in Nat /\ MaxLinks \in Nat

VARIABLES
  state,                \* CallManager._state
  callId, peer,         \* _call_id and _peer_id
  muted,                \* _muted
  capturing,            \* AudioStream: the microphone is open
  ringTimer,            \* _ringing_timer is armed
  mediaTimer,           \* _media_timer is armed
  reader,               \* _remote_reader, and what it has played
  jobs,                 \* suspended coroutines
  popup,                \* main._incoming_call_widget, if it is visible
  open,                 \* open[u]: peers for which u has an open data channel
  wire,                 \* wire[<<u, v>>]: payloads in flight from u to v
  calls, links          \* call ids drawn, connections established so far

call  == <<state, callId, peer>>
audio == <<muted, capturing, reader>>
timers == <<ringTimer, mediaTimer>>
net   == <<open, wire, links>>
vars  == <<call, audio, timers, jobs, popup, net, calls>>

NoCall == 0                         \* None as a call id
CallId == 0..MaxCalls
NoPopup == [id |-> NoCall, from |-> Nobody]

Message == [type : {"call_invite", "call_answer", "call_reject", "call_end"}, id : CallId]
Job     == [op : {"connect", "offer", "answer", "apply"}, with : User \cup {Nobody}, id : CallId]
Popup   == [id : CallId, from : User \cup {Nobody}]

State  == {"idle", "ringing_out", "ringing_in", "connecting", "active", "ended"}
AtRest == {"idle", "ended"}

\* "new": no frame yet.  "played": frames were played.  "first": one of them
\* made the call active (first_frame).
Reader == {"none", "new", "played", "first"}

TypeOK ==
  /\ state \in [User -> State]
  /\ callId \in [User -> CallId]
  /\ peer \in [User -> User \cup {Nobody}]
  /\ muted \in [User -> BOOLEAN] /\ capturing \in [User -> BOOLEAN]
  /\ ringTimer \in [User -> BOOLEAN] /\ mediaTimer \in [User -> BOOLEAN]
  /\ reader \in [User -> Reader]
  /\ jobs \in [User -> SUBSET Job]
  /\ popup \in [User -> Popup]
  /\ open \in [User -> SUBSET User]
  /\ wire \in [User \X User -> Seq(Message)]
  /\ calls \in 0..MaxCalls /\ links \in 0..MaxLinks

Init ==
  /\ state = [u \in User |-> "idle"]
  /\ callId = [u \in User |-> NoCall] /\ peer = [u \in User |-> Nobody]
  /\ muted = [u \in User |-> FALSE] /\ capturing = [u \in User |-> FALSE]
  /\ ringTimer = [u \in User |-> FALSE] /\ mediaTimer = [u \in User |-> FALSE]
  /\ reader = [u \in User |-> "none"]
  /\ jobs = [u \in User |-> {}]
  /\ popup = [u \in User |-> NoPopup]
  /\ open = [u \in User |-> {}]
  /\ wire = [p \in User \X User |-> <<>>]
  /\ calls = 0 /\ links = 0

-----------------------------------------------------------------------------
(* What the operations have in common *)

InCall(u) == state[u] \notin AtRest

\* w after _send_json(v, ...) of u: nothing without an open channel, and lost
\* if v no longer reads.
Sent(w, u, v, type, id) ==
  IF v \in open[u] /\ u \in open[v]
  THEN [w EXCEPT ![<<u, v>>] = Append(@, [type |-> type, id |-> id])]
  ELSE w

CleanupKeepingRing(u) ==            \* a bug: the ringing timer runs on
  /\ mediaTimer' = [mediaTimer EXCEPT ![u] = FALSE]
  /\ reader' = [reader EXCEPT ![u] = "none"]
  /\ capturing' = [capturing EXCEPT ![u] = FALSE]
  /\ callId' = [callId EXCEPT ![u] = NoCall]
  /\ peer' = [peer EXCEPT ![u] = Nobody]
  /\ muted' = [muted EXCEPT ![u] = FALSE]
  /\ UNCHANGED ringTimer

\* _cleanup.
Cleanup(u) ==
  /\ ringTimer' = [ringTimer EXCEPT ![u] = FALSE]
  /\ mediaTimer' = [mediaTimer EXCEPT ![u] = FALSE]
  /\ reader' = [reader EXCEPT ![u] = "none"]
  /\ capturing' = [capturing EXCEPT ![u] = FALSE]
  /\ callId' = [callId EXCEPT ![u] = NoCall]
  /\ peer' = [peer EXCEPT ![u] = Nobody]
  /\ muted' = [muted EXCEPT ![u] = FALSE]

HangUpUnknown(u) ==                 \* a bug: a state CALL_STATES lacks
  /\ Cleanup(u)
  /\ state' = [state EXCEPT ![u] = "rejected"]
  /\ popup' = [popup EXCEPT ![u] = NoPopup]

\* _cleanup and _set_state(CALL_ENDED).  The pop-up goes with the call_ended
\* event, and with the signal of its own that made reject_call run.
HangUp(u) ==
  /\ Cleanup(u)
  /\ state' = [state EXCEPT ![u] = "ended"]
  /\ popup' = [popup EXCEPT ![u] = NoPopup]

\* _set_state(CALL_ACTIVE): the devices start on a change of state, and the
\* microphone may fail to open.
SetActive(u) ==
  /\ state' = [state EXCEPT ![u] = "active"]
  /\ \/ UNCHANGED capturing
     \/ state[u] # "active" /\ capturing' = [capturing EXCEPT ![u] = TRUE]

\* A job goes on, or is added.
Done(u, j) == jobs' = [jobs EXCEPT ![u] = @ \ {j}]
Start(u, j) == jobs' = [jobs EXCEPT ![u] = @ \cup {j}]

\* An awaited negotiation raised: the coroutine is over, and nobody cleans up.
Fails(u, j) ==
  /\ j \in jobs[u]
  /\ Done(u, j)
  /\ UNCHANGED <<call, audio, timers, popup, net, calls>>

-----------------------------------------------------------------------------
(* The caller *)

\* start_call with a channel at hand: draw an id and negotiate.
BeginOffer(u, v, rest) ==
  /\ calls < MaxCalls
  /\ calls' = calls + 1
  /\ callId' = [callId EXCEPT ![u] = calls + 1]
  /\ peer' = [peer EXCEPT ![u] = v]
  /\ reader' = [reader EXCEPT ![u] = "none"]
  /\ jobs' = [jobs EXCEPT ![u] = rest \cup {[op |-> "offer", with |-> v, id |-> calls + 1]}]
  /\ UNCHANGED <<state, muted, capturing, timers, net>>

\* main._start_call and the first part of start_call.  The pop-up of an
\* incoming call is closed before anything is checked.
StartCall(u, v) ==
  /\ u # v
  /\ popup' = [popup EXCEPT ![u] = NoPopup]
  /\ \/ ~InCall(u) /\ v \in open[u] /\ BeginOffer(u, v, jobs[u])
     \/ /\ ~InCall(u) /\ v \notin open[u]
        /\ Start(u, [op |-> "connect", with |-> v, id |-> NoCall])
        /\ UNCHANGED <<call, audio, timers, net, calls>>
     \/ /\ InCall(u)
        /\ UNCHANGED <<call, audio, timers, jobs, net, calls>>

\* _wait_open returns true.
CallConnected(u, j) ==
  /\ j \in jobs[u] /\ j.op = "connect" /\ j.with \in open[u]
  /\ BeginOffer(u, j.with, jobs[u] \ {j})
  /\ UNCHANGED popup

\* connect_to_peer raises, or _wait_open times out.
CallUnreachable(u, j) ==
  /\ j.op = "connect" /\ j.with \notin open[u]
  /\ Fails(u, j)

OfferReadyUntimed(u, j) ==          \* a bug: nothing ends the ringing
  /\ j \in jobs[u] /\ j.op = "offer"
  /\ Done(u, j)
  /\ wire' = Sent(wire, u, j.with, "call_invite", callId[u])
  /\ state' = [state EXCEPT ![u] = "ringing_out"]
  /\ UNCHANGED <<callId, peer, audio, timers, popup, open, links, calls>>

\* The rest of start_call, with whatever _call_id is now.
OfferReady(u, j) ==
  /\ j \in jobs[u] /\ j.op = "offer"
  /\ Done(u, j)
  /\ wire' = Sent(wire, u, j.with, "call_invite", callId[u])
  /\ state' = [state EXCEPT ![u] = "ringing_out"]
  /\ ringTimer' = [ringTimer EXCEPT ![u] = TRUE]
  /\ UNCHANGED <<callId, peer, audio, mediaTimer, popup, open, links, calls>>

OfferFails(u, j) == j.op = "offer" /\ Fails(u, j)

\* The rest of _on_call_answer.
ApplyDone(u, j) ==
  /\ j \in jobs[u] /\ j.op = "apply"
  /\ Done(u, j)
  /\ ringTimer' = [ringTimer EXCEPT ![u] = FALSE]
  /\ SetActive(u)
  /\ mediaTimer' = [mediaTimer EXCEPT ![u] = TRUE]
  /\ UNCHANGED <<callId, peer, muted, reader, popup, net, calls>>

ApplyFails(u, j) == j.op = "apply" /\ Fails(u, j)

-----------------------------------------------------------------------------
(* The callee *)

\* main._accept_call and the first part of accept_call.
AcceptCall(u) ==
  /\ popup[u] # NoPopup
  /\ popup' = [popup EXCEPT ![u] = NoPopup]
  /\ LET id == popup[u].id  from == popup[u].from IN
     \/ /\ state[u] \in {"idle", "ringing_in", "ended"}
        /\ callId' = [callId EXCEPT ![u] = id]
        /\ peer' = [peer EXCEPT ![u] = from]
        /\ reader' = [reader EXCEPT ![u] = "none"]
        /\ Start(u, [op |-> "answer", with |-> from, id |-> id])
        /\ UNCHANGED <<state, muted, capturing, timers, net, calls>>
     \/ /\ state[u] \notin {"idle", "ringing_in", "ended"}
        /\ wire' = Sent(wire, u, from, "call_reject", id)
        /\ UNCHANGED <<call, audio, timers, jobs, open, links, calls>>

AnswerReadyUntimed(u, j) ==         \* a bug: nothing ends the wait for audio
  /\ j \in jobs[u] /\ j.op = "answer"
  /\ Done(u, j)
  /\ wire' = IF peer[u] \in User THEN Sent(wire, u, peer[u], "call_answer", j.id) ELSE wire
  /\ state' = [state EXCEPT ![u] = "connecting"]
  /\ UNCHANGED <<callId, peer, audio, timers, popup, open, links, calls>>

\* The rest of accept_call: the answer goes to whatever _peer_id is now.
AnswerReady(u, j) ==
  /\ j \in jobs[u] /\ j.op = "answer"
  /\ Done(u, j)
  /\ wire' = IF peer[u] \in User THEN Sent(wire, u, peer[u], "call_answer", j.id) ELSE wire
  /\ state' = [state EXCEPT ![u] = "connecting"]
  /\ mediaTimer' = [mediaTimer EXCEPT ![u] = TRUE]
  /\ UNCHANGED <<callId, peer, audio, ringTimer, popup, open, links, calls>>

AnswerFails(u, j) == j.op = "answer" /\ Fails(u, j)

\* reject_call, of the user or of the pop-up's own timer.
RejectCall(u) ==
  /\ popup[u] # NoPopup
  /\ wire' = Sent(wire, u, popup[u].from, "call_reject", popup[u].id)
  /\ HangUp(u)
  /\ UNCHANGED <<jobs, open, links, calls>>

-----------------------------------------------------------------------------
(* Both *)

\* end_call.
End(u) ==
  /\ InCall(u)
  /\ wire' = IF peer[u] \in User /\ callId[u] # NoCall
             THEN Sent(wire, u, peer[u], "call_end", callId[u]) ELSE wire
  /\ HangUp(u)
  /\ UNCHANGED <<jobs, open, links, calls>>

\* The call window is there from start_call or accept_call on.
HasWindow(u) == InCall(u) /\ (state[u] # "ringing_in" \/ callId[u] # NoCall)

EndCall(u) == HasWindow(u) /\ End(u)

RingTimeout(u) == ringTimer[u] /\ End(u)
MediaTimeout(u) == mediaTimer[u] /\ End(u)

\* toggle_mute: unmuting opens the microphone, or fails to.
ToggleMute(u) ==
  /\ HasWindow(u)
  /\ muted' = [muted EXCEPT ![u] = ~@]
  /\ \/ ~muted[u] /\ capturing' = [capturing EXCEPT ![u] = FALSE]
     \/ muted[u] /\ capturing' = [capturing EXCEPT ![u] = TRUE]
     \/ muted[u] /\ UNCHANGED capturing
  /\ UNCHANGED <<call, reader, timers, jobs, popup, net, calls>>

\* aiortc announces the remote track while a description is applied; a
\* running reader stays, and one made outside a call is over at once.
TrackArrives(u) ==
  /\ \E j \in jobs[u] : j.op \in {"answer", "apply"}
  /\ InCall(u) /\ reader[u] = "none"
  /\ reader' = [reader EXCEPT ![u] = "new"]
  /\ UNCHANGED <<call, muted, capturing, timers, jobs, popup, net, calls>>

\* _read_remote_audio plays a frame; the first one while connecting makes the
\* call active.
PlayFrame(u) ==
  /\ reader[u] # "none" /\ state[u] \in {"connecting", "active"}
  /\ \/ /\ state[u] = "connecting" /\ reader[u] # "first"
        /\ reader' = [reader EXCEPT ![u] = "first"]
        /\ mediaTimer' = [mediaTimer EXCEPT ![u] = FALSE]
        /\ SetActive(u)
     \/ /\ state[u] = "active" /\ reader[u] = "new"
        /\ reader' = [reader EXCEPT ![u] = "played"]
        /\ UNCHANGED <<mediaTimer, state, capturing>>
  /\ UNCHANGED <<callId, peer, muted, ringTimer, jobs, popup, net, calls>>

-----------------------------------------------------------------------------
(* Receiving: u takes the next payload from v *)

Incoming(u, v, type) ==
  /\ v \in open[u] /\ wire[<<v, u>>] # <<>>
  /\ Head(wire[<<v, u>>]).type = type

Taken(u, v) == [wire EXCEPT ![<<v, u>>] = Tail(@)]

\* _on_call_invite.
OnInvite(u, v) ==
  /\ Incoming(u, v, "call_invite")
  /\ LET id == Head(wire[<<v, u>>]).id IN
     \/ /\ InCall(u)
        /\ wire' = Sent(Taken(u, v), u, v, "call_reject", id)
        /\ UNCHANGED <<call, popup>>
     \/ /\ ~InCall(u)
        /\ wire' = Taken(u, v)
        /\ state' = [state EXCEPT ![u] = "ringing_in"]
        /\ popup' = [popup EXCEPT ![u] = [id |-> id, from |-> v]]
        /\ UNCHANGED <<callId, peer>>
  /\ UNCHANGED <<audio, timers, jobs, open, links, calls>>

\* The first part of _on_call_answer.
OnAnswer(u, v) ==
  /\ Incoming(u, v, "call_answer")
  /\ wire' = Taken(u, v)
  /\ LET id == Head(wire[<<v, u>>]).id IN
     IF id = callId[u] /\ state[u] \in {"ringing_out", "connecting"}
     THEN Start(u, [op |-> "apply", with |-> peer[u], id |-> id])
     ELSE UNCHANGED jobs
  /\ UNCHANGED <<call, audio, timers, popup, open, links, calls>>

\* _on_call_reject and _on_call_end.
OnRejectOrEnd(u, v) ==
  /\ Incoming(u, v, "call_reject") \/ Incoming(u, v, "call_end")
  /\ wire' = Taken(u, v)
  /\ \/ Head(wire[<<v, u>>]).id = callId[u] /\ HangUp(u)
     \/ /\ Head(wire[<<v, u>>]).id # callId[u]
        /\ UNCHANGED <<call, audio, timers, popup>>
  /\ UNCHANGED <<jobs, open, links, calls>>

Receive(u, v) == OnInvite(u, v) \/ OnAnswer(u, v) \/ OnRejectOrEnd(u, v)

\* A data channel opens at both ends (external: see P2P).
Connect(u, v) ==
  /\ u # v /\ links < MaxLinks /\ v \notin open[u] /\ u \notin open[v]
  /\ open' = [open EXCEPT ![u] = @ \cup {v}, ![v] = @ \cup {u}]
  /\ links' = links + 1
  /\ UNCHANGED <<call, audio, timers, jobs, popup, wire, calls>>

\* u's end closes, and _on_peer_disconnected runs.
Disconnect(u, v) ==
  /\ v \in open[u]
  /\ open' = [open EXCEPT ![u] = @ \ {v}]
  /\ wire' = [wire EXCEPT ![<<v, u>>] = <<>>]
  /\ \/ peer[u] = v /\ InCall(u) /\ HangUp(u)
     \/ (peer[u] # v \/ ~InCall(u)) /\ UNCHANGED <<call, audio, timers, popup>>
  /\ UNCHANGED <<jobs, links, calls>>

-----------------------------------------------------------------------------

Continue(u, j) ==
  \/ CallConnected(u, j) \/ CallUnreachable(u, j)
  \/ OfferReady(u, j) \/ OfferFails(u, j)
  \/ ApplyDone(u, j) \/ ApplyFails(u, j)
  \/ AnswerReady(u, j) \/ AnswerFails(u, j)

Next ==
  \/ \E u, v \in User :
       StartCall(u, v) \/ Receive(u, v) \/ Connect(u, v) \/ Disconnect(u, v)
  \/ \E u \in User :
       \/ \E j \in jobs[u] : Continue(u, j)
       \/ AcceptCall(u) \/ RejectCall(u) \/ EndCall(u) \/ ToggleMute(u)
       \/ RingTimeout(u) \/ MediaTimeout(u)
       \/ TrackArrives(u) \/ PlayFrame(u)

Spec == Init /\ [][Next]_vars

\* Timers expire.  Users, aiortc and the network owe nothing.
Fairness == \A u \in User : WF_vars(RingTimeout(u)) /\ WF_vars(MediaTimeout(u))

FairSpec == Spec /\ Fairness

-----------------------------------------------------------------------------
(* Properties *)

\* Nothing of a call outlives it: at rest the microphone is closed, no timer
\* runs that could end a later call, and the next call does not start muted.
\* The jobs of an ended call still go on, and must not undo that.
QuietAtRest ==
  \A u \in User : ~InCall(u) =>
    ~capturing[u] /\ ~ringTimer[u] /\ ~mediaTimer[u] /\ ~muted[u]

\* Whoever waits for the other side is on a timer: an unanswered call and an
\* accepted one without audio both end.
WaitsAreTimed ==
  \A u \in User : /\ state[u] = "ringing_out" => ringTimer[u]
                  /\ state[u] = "connecting" => mediaTimer[u]

\* Setting up a call comes to an end: it is answered, or it is over.
SetupSettles ==
  \A u \in User : state[u] \in {"ringing_out", "connecting"}
                    ~> state[u] \notin {"ringing_out", "connecting"}

=============================================================================
