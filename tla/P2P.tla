-------------------------------- MODULE P2P ---------------------------------
(***************************************************************************)
(* client/network/p2p_manager.py and client/network/webrtc_session.py: how *)
(* clients get a data channel to each other over the signaling server.     *)
(*                                                                         *)
(* A session is a WebRTCSession.  Making an offer or an answer suspends    *)
(* (aiortc gathers candidates), and so does accept_offer while it waits    *)
(* for the channel: the signaling client reads nothing else meanwhile.     *)
(* Every callback of a session names its peer, not the session.            *)
(***************************************************************************)
EXTENDS Integers, Sequences

CONSTANTS
  User,                 \* the clients
  MaxRetries,           \* P2PManager.max_retries
  MaxEvents,            \* bound: how often something comes from outside
  MaxLate               \* bound: how often a session fails after its channel closed

ASSUME MaxRetriesAssumption == MaxRetries \in Nat
ASSUME MaxEventsAssumption == MaxEvents \in Nat
ASSUME MaxLateAssumption == MaxLate \in Nat

Pair == {p \in User \X User : p[1] # p[2]}      \* a client and its peer
Back(p) == <<p[2], p[1]>>

VARIABLES
  sessions,             \* sessions[p]: every session p[1] ever made for p[2]
  old,                  \* old[p]: how many of them were made before the last close
  current,              \* current[p]: P2PManager._sessions, 0 for none
  operations,           \* operations[p]: what _retry repeats, if anything
  attempts,             \* P2PManager._attempts
  retries,              \* scheduled _retry coroutines
  busy,                 \* busy[p]: the session p[1]'s receive loop waits for, or 0
  wire,                 \* wire[p]: offers and answers from p[1] to p[2]
  events,               \* see MaxEvents
  late                  \* see MaxLate

manager == <<current, operations, attempts, retries>>
vars    == <<sessions, old, manager, busy, wire, events, late>>

NoSession == 0

\* "making": create_offer or create_answer is suspended.  "aborted": closed
\* meanwhile.  "waiting": the connection timer is armed.  "connected": the
\* peer connection is up, the timer cancelled.  "shut": the channel closed.
Phase == {"making", "aborted", "waiting", "connected", "open", "shut", "closed"}

\* offer: the peer's session whose offer this one answers, none if it makes
\* its own.  answer: the peer's session whose answer was applied to it.
Session == [offer : Nat, answer : Nat, phase : Phase]
Signal  == [type : {"offer", "answer"}, session : Nat]

TypeOK ==
  /\ sessions \in [Pair -> Seq(Session)]
  /\ old \in [Pair -> Nat]
  /\ current \in [Pair -> Nat]
  /\ operations \in [Pair -> SUBSET Nat]
  /\ attempts \in [Pair -> Nat] /\ retries \in [Pair -> Nat]
  /\ busy \in [Pair -> Nat]
  /\ wire \in [Pair -> Seq(Signal)]
  /\ events \in 0..MaxEvents /\ late \in 0..MaxLate

Init ==
  /\ sessions = [p \in Pair |-> <<>>] /\ old = [p \in Pair |-> 0]
  /\ current = [p \in Pair |-> NoSession]
  /\ operations = [p \in Pair |-> {}]
  /\ attempts = [p \in Pair |-> 0] /\ retries = [p \in Pair |-> 0]
  /\ busy = [p \in Pair |-> NoSession]
  /\ wire = [p \in Pair |-> <<>>]
  /\ events = 0 /\ late = 0

-----------------------------------------------------------------------------
(* What the operations have in common *)

In(p, i, phases) == i \in DOMAIN sessions[p] /\ sessions[p][i].phase \in phases

\* get_data_channel(p[2]) at p[1].
IsOpen(p) == In(p, current[p], {"open"})

\* p's sessions with i in another phase.
Moved(p, i, phase) == [sessions[p] EXCEPT ![i].phase = phase]

\* A closed session: its descriptions went with the peer connection.
Gone == [offer |-> NoSession, answer |-> NoSession, phase |-> "closed"]

ClosedUnknown(ss, i) ==             \* a bug: a phase there is not
  [k \in DOMAIN ss |-> IF k = i THEN [Gone EXCEPT !.phase = "failed"] ELSE ss[k]]

\* ss with session i closed.
Closed(ss, i) ==
  [k \in DOMAIN ss |->
     IF k # i THEN ss[k]
     ELSE IF ss[k].phase \in {"making", "aborted"} THEN [ss[k] EXCEPT !.phase = "aborted"]
     ELSE Gone]

BeginUnrecorded(p, offer) ==        \* a bug: the operation is not recorded
  /\ sessions' = [sessions EXCEPT ![p] =
                    Append(@, [offer |-> offer, answer |-> NoSession, phase |-> "making"])]
  /\ current' = [current EXCEPT ![p] = Len(sessions[p]) + 1]
  /\ UNCHANGED operations

\* connect_to_peer (offer = NoSession) and accept_offer, up to their first
\* await.  The session that was current is left to itself.
Begin(p, offer) ==
  /\ sessions' = [sessions EXCEPT ![p] =
                    Append(@, [offer |-> offer, answer |-> NoSession, phase |-> "making"])]
  /\ current' = [current EXCEPT ![p] = Len(sessions[p]) + 1]
  /\ operations' = [operations EXCEPT ![p] = {offer}]

CleanupKeeping(p, ss) ==            \* a bug: the closed session stays current
  /\ sessions' = [sessions EXCEPT ![p] = Closed(ss, current[p])]
  /\ UNCHANGED current

\* _cleanup, when p has the sessions ss: whichever is current.
Cleanup(p, ss) ==
  /\ sessions' = [sessions EXCEPT ![p] = Closed(ss, current[p])]
  /\ current' = [current EXCEPT ![p] = NoSession]

TryAgainUnscheduled(p) ==           \* a bug: no _retry
  /\ attempts' = [attempts EXCEPT ![p] = @ + 1]
  /\ UNCHANGED <<operations, retries>>
TryAgain(p) ==
  /\ attempts' = [attempts EXCEPT ![p] = @ + 1]
  /\ retries' = [retries EXCEPT ![p] = @ + 1]
  /\ UNCHANGED operations

GiveUp(p) ==
  /\ attempts' = [attempts EXCEPT ![p] = 0]
  /\ operations' = [operations EXCEPT ![p] = {}]
  /\ UNCHANGED retries

\* _handle_session_error.
HandleError(p, ss) ==
  /\ Cleanup(p, ss)
  /\ \/ current[p] = NoSession /\ UNCHANGED <<operations, attempts, retries>>
     \/ current[p] # NoSession /\ attempts[p] + 1 < MaxRetries /\ TryAgain(p)
     \/ current[p] # NoSession /\ attempts[p] + 1 >= MaxRetries /\ GiveUp(p)

\* A session of a closed manager: its errors find nothing there.
Orphan(p, i) == i <= old[p]

Error(p, i, ss) ==
  \/ ~Orphan(p, i) /\ HandleError(p, ss)
  \/ Orphan(p, i) /\ sessions' = [sessions EXCEPT ![p] = ss] /\ UNCHANGED manager

-----------------------------------------------------------------------------
(* Session i of p *)

\* A user opens a chat, sends a message or calls: connect_to_peer.
Connect(p) ==
  /\ events < MaxEvents /\ ~IsOpen(p)
  /\ events' = events + 1
  /\ Begin(p, NoSession)
  /\ UNCHANGED <<old, attempts, retries, busy, wire, late>>

\* p's sessions after i's description is made: one closed meanwhile stays so.
Ready(p, i) ==
  IF sessions[p][i].phase = "making" THEN Moved(p, i, "waiting")
  ELSE [sessions[p] EXCEPT ![i] = Gone]

\* The description is made and sent.
Made(p, i) ==
  /\ In(p, i, {"making", "aborted"}) /\ ~Orphan(p, i)
  /\ sessions' = [sessions EXCEPT ![p] = Ready(p, i)]
  /\ wire' = [wire EXCEPT ![p] = Append(@,
                [type |-> IF sessions[p][i].offer = NoSession THEN "offer" ELSE "answer",
                 session |-> i])]
  /\ UNCHANGED <<old, manager, busy, events, late>>

\* aiortc refuses to go on with a closed connection, or the description
\* cannot be sent: an error of whatever session is current.  In accept_offer
\* the receive loop goes on.
MakingFails(p, i) ==
  /\ \/ In(p, i, {"aborted"}) /\ UNCHANGED events
     \/ In(p, i, {"making"}) /\ Orphan(p, i) /\ UNCHANGED events
     \/ /\ In(p, i, {"making"}) /\ ~Orphan(p, i) /\ events < MaxEvents
        /\ events' = events + 1
  /\ Error(p, i, Ready(p, i))
  /\ busy' = [busy EXCEPT ![p] = IF @ = i THEN NoSession ELSE @]
  /\ UNCHANGED <<old, wire, late>>

\* A session of the other side that has i's description, as i has its own.
MatchedIn(p, i, phases) ==
  \E j \in DOMAIN sessions[Back(p)] :
    LET s == sessions[p][i]  t == sessions[Back(p)][j] IN
    /\ (s.answer = j /\ t.offer = i) \/ (t.answer = i /\ s.offer = j)
    /\ t.phase \in phases

\* connectionstatechange: "connected".
PeerConnects(p, i) ==
  /\ In(p, i, {"waiting"}) /\ MatchedIn(p, i, {"waiting", "connected", "open"})
  /\ sessions' = [sessions EXCEPT ![p] = Moved(p, i, "connected")]
  /\ UNCHANGED <<old, manager, busy, wire, events, late>>

\* The data channel opens: _on_channel_open.
ChannelOpens(p, i) ==
  /\ In(p, i, {"connected"}) /\ MatchedIn(p, i, {"connected", "open"})
  /\ sessions' = [sessions EXCEPT ![p] = Moved(p, i, "open")]
  /\ attempts' = IF Orphan(p, i) THEN attempts ELSE [attempts EXCEPT ![p] = 0]
  /\ UNCHANGED <<old, current, operations, retries, busy, wire, events, late>>

\* u's receive loop is not in accept_offer.
Free(u) == \A p \in Pair : p[1] = u => busy[p] = NoSession

\* p[2] will read a signal of session i before long.
Announced(p, i) == Free(p[2]) /\ \E k \in DOMAIN wire[p] : wire[p][k].session = i

\* Nothing keeps session i from opening, or from staying open.
Promising(p, i) ==
  \/ MatchedIn(p, i, {"waiting", "connected", "open"})
  \/ Announced(p, i)
  \/ \E j \in DOMAIN sessions[Back(p)] :
       /\ sessions[Back(p)][j].offer = i
       /\ In(Back(p), j, {"making"}) \/ Announced(Back(p), j)

\* A promising session ends by a fault only: the network breaks, or is slower
\* than the 10 s of the connection timer.
Ends(p, i) ==
  \/ ~Promising(p, i) /\ UNCHANGED events
  \/ Promising(p, i) /\ events < MaxEvents /\ events' = events + 1

\* The channel of an open session closes.
ChannelCloses(p, i) ==
  /\ In(p, i, {"open"}) /\ Ends(p, i)
  /\ sessions' = [sessions EXCEPT ![p] = Moved(p, i, "shut")]
  /\ UNCHANGED <<old, manager, busy, wire, late>>

ConnectionFailsOwned(p, i) ==       \* a bug: close also stops the timers
  /\ In(p, i, {"waiting", "connected"}) /\ Ends(p, i) /\ ~Orphan(p, i)
  /\ Error(p, i, Closed(sessions[p], i))
  /\ UNCHANGED <<old, busy, wire, late>>

\* The timer expires, or the peer connection fails before the channel opens.
ConnectionFails(p, i) ==
  /\ In(p, i, {"waiting", "connected"}) /\ Ends(p, i)
  /\ Error(p, i, Closed(sessions[p], i))
  /\ UNCHANGED <<old, busy, wire, late>>

\* The connection of a session is reported failed or closed after its channel
\* closed, or a call has armed its timer again: nobody asks whether it was open.
FailsLate(p, i) ==
  /\ In(p, i, {"shut"}) /\ late < MaxLate
  /\ late' = late + 1
  /\ Error(p, i, Closed(sessions[p], i))
  /\ UNCHANGED <<old, busy, wire, events>>

\* _retry, after the backoff: the operation of now, if there is still one.
Retry(p) ==
  /\ retries[p] > 0
  /\ retries' = [retries EXCEPT ![p] = @ - 1]
  /\ \/ /\ ~IsOpen(p)
        /\ \E offer \in operations[p] : Begin(p, offer)
     \/ /\ IsOpen(p) \/ operations[p] = {}
        /\ UNCHANGED <<sessions, current, operations>>
  /\ UNCHANGED <<old, attempts, busy, wire, events, late>>

-----------------------------------------------------------------------------
(* Signaling: p[1] takes the next signal from p[2] *)

Incoming(p, type) ==
  /\ Free(p[1])
  /\ wire[Back(p)] # <<>> /\ Head(wire[Back(p)]).type = type

Taken(p) == [wire EXCEPT ![Back(p)] = Tail(@)]

\* _on_signaling_offer: the receive loop is in accept_offer from here on.
OnOffer(p) ==
  /\ Incoming(p, "offer")
  /\ wire' = Taken(p)
  /\ \/ /\ ~IsOpen(p)
        /\ Begin(p, Head(wire[Back(p)]).session)
        /\ busy' = [busy EXCEPT ![p] = Len(sessions[p]) + 1]
     \/ /\ IsOpen(p)
        /\ UNCHANGED <<sessions, current, operations, busy>>
  /\ UNCHANGED <<old, attempts, retries, events, late>>

\* The current session has made an offer, or is about to, and has no answer.
AwaitsAnswer(p) ==
  /\ In(p, current[p], {"making", "waiting"})
  /\ sessions[p][current[p]].offer = NoSession
  /\ sessions[p][current[p]].answer = NoSession

\* _on_signaling_answer: applied to whatever session is current, or refused.
OnAnswer(p) ==
  /\ Incoming(p, "answer")
  /\ wire' = Taken(p)
  /\ \/ /\ AwaitsAnswer(p)
        /\ sessions' = [sessions EXCEPT ![p][current[p]].answer = Head(wire[Back(p)]).session]
     \/ /\ ~AwaitsAnswer(p) \/ In(p, current[p], {"making"})
        /\ UNCHANGED sessions
  /\ UNCHANGED <<old, manager, busy, events, late>>

WaitEndsOpen(p) ==                  \* a bug: no timeout
  /\ In(p, busy[p], {"open"})
  /\ busy' = [busy EXCEPT ![p] = NoSession]
  /\ UNCHANGED <<sessions, old, manager, wire, events, late>>

\* wait_until_open returns in accept_offer: the channel opened, or the 10 s
\* are over, which the session's own timer was armed for before.
WaitEnds(p) ==
  /\ busy[p] # NoSession /\ ~In(p, busy[p], {"making", "aborted", "waiting"})
  /\ busy' = [busy EXCEPT ![p] = NoSession]
  /\ UNCHANGED <<sessions, old, manager, wire, events, late>>

\* The server or its queue loses a signal.
Lose(p) ==
  /\ wire[p] # <<>> /\ events < MaxEvents
  /\ wire' = [wire EXCEPT ![p] = Tail(@)]
  /\ events' = events + 1
  /\ UNCHANGED <<sessions, old, manager, busy, late>>

-----------------------------------------------------------------------------
(* The end of a client, and its next beginning *)

\* f as a new manager of u has it.
Reset(f, u, value) == [p \in Pair |-> IF p[1] = u THEN value ELSE f[p]]

\* close: the sessions are forgotten before the scheduled _cleanup finds
\* them.  An exit ends them.
Close(u) ==
  /\ events < MaxEvents /\ \E p \in Pair : p[1] = u /\ current[p] # NoSession
  /\ events' = events + 1
  /\ old' = [p \in Pair |-> IF p[1] = u THEN Len(sessions[p]) ELSE old[p]]
  /\ \/ UNCHANGED sessions
     \/ sessions' = [p \in Pair |-> [i \in DOMAIN sessions[p] |->
                       IF p[1] = u THEN Gone ELSE sessions[p][i]]]
  /\ current' = Reset(current, u, NoSession)
  /\ operations' = Reset(operations, u, {})
  /\ attempts' = Reset(attempts, u, 0)
  /\ retries' = Reset(retries, u, 0)
  /\ busy' = Reset(busy, u, NoSession)
  /\ UNCHANGED <<wire, late>>

-----------------------------------------------------------------------------

\* What a session does without its users.
Advance(p, i) ==
  \/ Made(p, i) \/ MakingFails(p, i)
  \/ PeerConnects(p, i) \/ ChannelOpens(p, i) \/ ConnectionFails(p, i)

Receive(p) == OnOffer(p) \/ OnAnswer(p)

Next ==
  \/ \E p \in Pair :
       \/ \E i \in DOMAIN sessions[p] : Advance(p, i) \/ ChannelCloses(p, i) \/ FailsLate(p, i)
       \/ Connect(p) \/ Retry(p) \/ Receive(p) \/ WaitEnds(p) \/ Lose(p)
  \/ \E u \in User : Close(u)

Spec == Init /\ [][Next]_vars

\* Coroutines go on, timers expire, the loops read what is there.  Users and
\* the network owe nothing.
Fairness ==
  \A p \in Pair : /\ WF_vars(\E i \in DOMAIN sessions[p] : Advance(p, i))
                  /\ WF_vars(Retry(p)) /\ WF_vars(Receive(p)) /\ WF_vars(WaitEnds(p))

FairSpec == Spec /\ Fairness

-----------------------------------------------------------------------------
(* Properties *)

Unsettled == {"making", "aborted", "waiting", "connected"}

\* The manager never holds on to a session it has closed, nor to one of its
\* predecessor: an answer would be refused and nothing would ever be retried.
CurrentIsLive ==
  \A p \in Pair : current[p] # NoSession =>
    /\ In(p, current[p], Phase \ {"aborted", "closed"})
    /\ ~Orphan(p, current[p])

\* "connection_failed" is final: once an attempt is given up there is no
\* session left, and none comes without a user or an offer asking for it.
FailureIsFinal == \A p \in Pair : operations[p] = {} => current[p] = NoSession

\* An attempt ends in a channel that opened or in "connection_failed", whatever
\* other sessions of the same pair, early or late, do to it: again and again
\* there is nothing a client was asked for that it has neither got nor given up.
AttemptsEnd ==
  []<>(\A p \in Pair : operations[p] = {} \/ In(p, current[p], {"open", "shut"}))

\* accept_offer holds up the signaling clients for a while only, even when both
\* sides sit in each other's offer.
ReceiveLoopResumes == []<>(\A p \in Pair : busy[p] = NoSession)

\* When nobody asks for anything any more and no closed channel's connection is
\* still to fail, the clients stop retrying and no session, superseded or
\* orphaned, stays half open.
ComesToRest ==
  <>[](\A p \in Pair : /\ retries[p] = 0
                       /\ \A i \in DOMAIN sessions[p] : ~In(p, i, Unsettled))

=============================================================================
