----------------------------- MODULE P2PProofs ------------------------------
(***************************************************************************)
(* Theorems about P2P, for any clients, retries and events.                *)
(***************************************************************************)
EXTENDS P2P, TLAPS

-----------------------------------------------------------------------------
(* Lists of sessions *)

LEMMA FromFunction ==
  ASSUME NEW S, NEW n \in Nat, NEW f \in [1..n -> S]
  PROVE  f \in Seq(S) /\ Len(f) = n
OBVIOUS

\* No list of sessions has a session 0.
LEMMA NoSessionIsNone ==
  ASSUME NEW ss \in Seq(Session)
  PROVE  NoSession \notin DOMAIN ss
BY DEF NoSession

\* What Append does to the sessions.
LEMMA Appended ==
  ASSUME NEW ss \in Seq(Session), NEW s \in Session
  PROVE  /\ Append(ss, s) \in Seq(Session)
         /\ Len(Append(ss, s)) = Len(ss) + 1
         /\ Append(ss, s)[Len(ss) + 1] = s
OBVIOUS

\* Replacing one session of a list.
LEMMA ReplacedList ==
  ASSUME NEW ss \in Seq(Session), NEW i \in DOMAIN ss, NEW s \in Session
  PROVE  /\ [ss EXCEPT ![i] = s] \in Seq(Session)
         /\ Len([ss EXCEPT ![i] = s]) = Len(ss)
         /\ [ss EXCEPT ![i] = s][i] = s
         /\ \A k \in DOMAIN ss \ {i} : [ss EXCEPT ![i] = s][k] = ss[k]
<1>1. /\ Len(ss) \in Nat /\ DOMAIN ss = 1..Len(ss) /\ ss \in [1..Len(ss) -> Session]
  OBVIOUS
<1>2. [ss EXCEPT ![i] = s] \in [1..Len(ss) -> Session]
  BY <1>1
<1>3. QED BY <1>1, <1>2, FromFunction

\* What Moved does to a list: one phase changes.
LEMMA MovedList ==
  ASSUME NEW ss \in Seq(Session), NEW i \in DOMAIN ss, NEW phase \in Phase
  PROVE  /\ [ss EXCEPT ![i].phase = phase] \in Seq(Session)
         /\ Len([ss EXCEPT ![i].phase = phase]) = Len(ss)
         /\ [ss EXCEPT ![i].phase = phase][i].phase = phase
         /\ \A k \in DOMAIN ss \ {i} : [ss EXCEPT ![i].phase = phase][k] = ss[k]
<1>1. ss[i] \in Session
  OBVIOUS
<1>2. /\ [ss[i] EXCEPT !.phase = phase] \in Session
      /\ [ss[i] EXCEPT !.phase = phase].phase = phase
  BY <1>1 DEF Session
<1>3. PICK s \in Session : s = [ss[i] EXCEPT !.phase = phase] /\ s.phase = phase
  BY <1>2
<1>4. PICK tt : tt = [ss EXCEPT ![i] = s]
  OBVIOUS
<1>5. [ss EXCEPT ![i].phase = phase] = tt
  BY <1>3, <1>4
<1>6. /\ tt \in Seq(Session) /\ Len(tt) = Len(ss) /\ tt[i] = s
      /\ \A k \in DOMAIN ss \ {i} : tt[k] = ss[k]
  BY <1>4, ReplacedList
<1>7. QED BY <1>3, <1>5, <1>6

LEMMA GoneType == Gone \in Session /\ Gone.phase = "closed"
BY DEF Gone, Session, Phase, NoSession

\* What closing a session does to a list.
LEMMA ClosedList ==
  ASSUME NEW ss \in Seq(Session), NEW i
  PROVE  /\ Closed(ss, i) \in Seq(Session) /\ Len(Closed(ss, i)) = Len(ss)
         /\ \A k \in DOMAIN ss : k # i => Closed(ss, i)[k] = ss[k]
<1>1. Len(ss) \in Nat /\ DOMAIN ss = 1..Len(ss)
  OBVIOUS
<1>2. ASSUME NEW k \in DOMAIN ss
      PROVE  (IF k # i THEN ss[k]
              ELSE IF ss[k].phase \in {"making", "aborted"} THEN [ss[k] EXCEPT !.phase = "aborted"]
              ELSE Gone) \in Session
  <2>1. ss[k] \in Session
    OBVIOUS
  <2>2. [ss[k] EXCEPT !.phase = "aborted"] \in Session
    BY <2>1 DEF Session, Phase
  <2>3. QED BY <2>1, <2>2, GoneType
<1>3. Closed(ss, i) \in [1..Len(ss) -> Session]
  BY <1>1, <1>2 DEF Closed
<1>4. \A k \in DOMAIN ss : k # i => Closed(ss, i)[k] = ss[k]
  BY DEF Closed
<1>5. QED BY <1>1, <1>3, <1>4, FromFunction

-----------------------------------------------------------------------------
(* The inductive invariant *)

\* The sessions of a closed manager are some of those that were made.
OldExist == \A p \in Pair : old[p] <= Len(sessions[p])

Books == OldExist /\ CurrentIsLive /\ FailureIsFinal

IInv == TypeOK /\ Books

Live == Phase \ {"aborted", "closed"}

\* Books, told of one pair.
BooksOf(p) ==
  /\ old[p] <= Len(sessions[p])
  /\ current[p] # NoSession => /\ In(p, current[p], Live)
                               /\ ~Orphan(p, current[p])
  /\ operations[p] = {} => current[p] = NoSession

LEMMA BooksByPair == Books <=> \A p \in Pair : BooksOf(p)
BY DEF Books, BooksOf, OldExist, CurrentIsLive, FailureIsFinal, Live

LEMMA BooksByPairNext == Books' <=> \A p \in Pair : BooksOf(p)'
BY DEF Books, BooksOf, OldExist, CurrentIsLive, FailureIsFinal, Live

\* A pair whose sessions and books do not change.
LEMMA SameBooks ==
  ASSUME NEW p \in Pair, BooksOf(p),
         sessions'[p] = sessions[p], old'[p] = old[p],
         current'[p] = current[p], operations'[p] = operations[p]
  PROVE  BooksOf(p)'
BY DEF BooksOf, In, Orphan

\* Whatever a step does to one pair leaves the books of the others alone.
LEMMA Elsewhere ==
  ASSUME IInv, NEW p \in Pair, BooksOf(p)', UNCHANGED old,
         \A q \in Pair \ {p} : /\ sessions'[q] = sessions[q]
                               /\ current'[q] = current[q]
                               /\ operations'[q] = operations[q]
  PROVE  Books'
<1>1. \A q \in Pair : BooksOf(q)
  BY BooksByPair DEF IInv
<1>2. ASSUME NEW q \in Pair \ {p} PROVE BooksOf(q)'
  BY <1>1, SameBooks
<1>3. QED BY <1>2, BooksByPairNext

\* One session moves on; if it is the current one it stays live.
LEMMA OneMoves ==
  ASSUME IInv, NEW p \in Pair, NEW i, NEW ss \in Seq(Session),
         Len(ss) = Len(sessions[p]),
         \A k \in DOMAIN sessions[p] : k # i => ss[k] = sessions[p][k],
         i = current[p] => ss[i].phase \in Live,
         sessions' = [sessions EXCEPT ![p] = ss],
         UNCHANGED <<old, current, operations>>
  PROVE  sessions' \in [Pair -> Seq(Session)] /\ Books'
<1>1. /\ sessions \in [Pair -> Seq(Session)] /\ BooksOf(p)
      /\ sessions[p] \in Seq(Session)
  BY BooksByPair DEF IInv, TypeOK
<1>2. sessions'[p] = ss /\ DOMAIN ss = DOMAIN sessions[p]
  BY <1>1
<1>3. BooksOf(p)'
  BY <1>1, <1>2 DEF BooksOf, In, Orphan
<1>4. QED BY <1>1, <1>3, Elsewhere

-----------------------------------------------------------------------------
(* What the operations have in common *)

LEMMA BeginKeeps ==
  ASSUME IInv, NEW p \in Pair, NEW offer \in Nat, Begin(p, offer), UNCHANGED old
  PROVE  /\ sessions' \in [Pair -> Seq(Session)] /\ current' \in [Pair -> Nat]
         /\ operations' \in [Pair -> SUBSET Nat]
         /\ Books'
<1>1. /\ sessions \in [Pair -> Seq(Session)] /\ current \in [Pair -> Nat]
      /\ operations \in [Pair -> SUBSET Nat] /\ old \in [Pair -> Nat]
      /\ sessions[p] \in Seq(Session) /\ BooksOf(p)
  BY BooksByPair DEF IInv, TypeOK
<1>2. PICK n \in Nat : n = Len(sessions[p])
  BY <1>1
<1>3. [offer |-> offer, answer |-> NoSession, phase |-> "making"] \in Session
  BY DEF Session, Phase, NoSession
<1>4. PICK s \in Session : s = [offer |-> offer, answer |-> NoSession, phase |-> "making"]
  BY <1>3
<1>5. PICK ss \in Seq(Session) : ss = Append(sessions[p], s)
  BY <1>1, Appended
<1>6. /\ sessions' = [sessions EXCEPT ![p] = ss]
      /\ current' = [current EXCEPT ![p] = n + 1]
      /\ operations' = [operations EXCEPT ![p] = {offer}]
  BY <1>2, <1>4, <1>5 DEF Begin
<1>7. Len(ss) = n + 1 /\ ss[n + 1] = s /\ DOMAIN ss = 1..(n + 1)
  BY <1>1, <1>2, <1>5
<1>8. BooksOf(p)'
  <2>1. sessions'[p] = ss /\ current'[p] = n + 1 /\ operations'[p] = {offer}
    BY <1>1, <1>6
  <2>2. old'[p] \in Nat /\ old'[p] <= n
    BY <1>1, <1>2 DEF BooksOf
  <2>3. s.phase \in Live
    BY <1>4 DEF Live, Phase
  <2>4. QED BY <1>7, <2>1, <2>2, <2>3 DEF BooksOf, In, Orphan
<1>9. QED BY <1>1, <1>6, <1>8, Elsewhere

LEMMA CleanupKeeps ==
  ASSUME IInv, NEW p \in Pair, NEW ss \in Seq(Session), Len(ss) = Len(sessions[p]),
         Cleanup(p, ss), UNCHANGED old,
         \A q \in Pair \ {p} : operations'[q] = operations[q]
  PROVE  /\ sessions' \in [Pair -> Seq(Session)] /\ current' \in [Pair -> Nat]
         /\ Books'
<1>1. /\ sessions \in [Pair -> Seq(Session)] /\ current \in [Pair -> Nat]
      /\ BooksOf(p)
  BY BooksByPair DEF IInv, TypeOK
<1>2. PICK cs \in Seq(Session) : cs = Closed(ss, current[p]) /\ Len(cs) = Len(ss)
  BY ClosedList
<1>3. /\ sessions' = [sessions EXCEPT ![p] = cs]
      /\ current' = [current EXCEPT ![p] = NoSession]
  BY <1>2 DEF Cleanup
<1>4. BooksOf(p)'
  BY <1>1, <1>2, <1>3 DEF BooksOf
<1>5. QED BY <1>1, <1>3, <1>4, Elsewhere DEF NoSession

LEMMA ErrorKeeps ==
  ASSUME IInv, NEW p \in Pair, NEW i \in DOMAIN sessions[p], NEW ss \in Seq(Session),
         Len(ss) = Len(sessions[p]),
         \A k \in DOMAIN sessions[p] : k # i => ss[k] = sessions[p][k],
         Error(p, i, ss), UNCHANGED old
  PROVE  /\ sessions' \in [Pair -> Seq(Session)] /\ current' \in [Pair -> Nat]
         /\ operations' \in [Pair -> SUBSET Nat]
         /\ attempts' \in [Pair -> Nat] /\ retries' \in [Pair -> Nat]
         /\ Books'
<1>1. TypeOK /\ BooksOf(p)
  BY BooksByPair DEF IInv
<1>2. CASE ~Orphan(p, i) /\ HandleError(p, ss)
  <2>1. /\ operations' \in [Pair -> SUBSET Nat]
        /\ attempts' \in [Pair -> Nat] /\ retries' \in [Pair -> Nat]
        /\ \A q \in Pair \ {p} : operations'[q] = operations[q]
    <3>1. CASE UNCHANGED <<operations, attempts, retries>>
      BY <1>1, <3>1 DEF TypeOK
    <3>2. CASE TryAgain(p)
      BY <1>1, <3>2 DEF TypeOK, TryAgain
    <3>3. CASE GiveUp(p)
      BY <1>1, <3>3 DEF TypeOK, GiveUp
    <3>4. QED BY <1>2, <3>1, <3>2, <3>3 DEF HandleError
  <2>2. QED BY <1>2, <2>1, CleanupKeeps DEF HandleError
<1>3. CASE Orphan(p, i) /\ sessions' = [sessions EXCEPT ![p] = ss] /\ UNCHANGED manager
  <2>1. i # current[p]
    <3>1. i # NoSession
      BY <1>1, NoSessionIsNone DEF TypeOK
    <3>2. QED BY <1>1, <1>3, <3>1 DEF BooksOf
  <2>2. sessions' \in [Pair -> Seq(Session)] /\ Books'
    BY <1>3, <2>1, OneMoves DEF manager
  <2>3. QED BY <1>1, <1>3, <2>2 DEF manager, TypeOK
<1>4. QED BY <1>2, <1>3 DEF Error

-----------------------------------------------------------------------------
(* Every step keeps the invariant *)

LEMMA InitInv == Init => IInv
<1> SUFFICES ASSUME Init PROVE IInv
  OBVIOUS
<1>1. <<>> \in Seq(Session) /\ <<>> \in Seq(Signal)
  OBVIOUS
<1>2. TypeOK
  BY <1>1, MaxEventsAssumption, MaxLateAssumption DEF Init, TypeOK, NoSession
<1>3. Books
  BY DEF Init, Books, OldExist, CurrentIsLive, FailureIsFinal
<1>4. QED BY <1>2, <1>3 DEF IInv

\* An event from outside stays within the bound.
LEMMA EventsType ==
  ASSUME TypeOK, UNCHANGED events \/ (events < MaxEvents /\ events' = events + 1)
  PROVE  events' \in 0..MaxEvents
BY MaxEventsAssumption DEF TypeOK

\* What is taken from a wire leaves a wire, and a signal.
LEMMA TakenType ==
  ASSUME TypeOK, NEW p \in Pair, wire[Back(p)] # <<>>
  PROVE  /\ Taken(p) \in [Pair -> Seq(Signal)]
         /\ Head(wire[Back(p)]).session \in Nat
<1>1. Back(p) \in Pair
  BY DEF Back, Pair
<1>2. wire[Back(p)] \in Seq(Signal)
  BY <1>1 DEF TypeOK
<1>3. Head(wire[Back(p)]) \in Signal /\ Tail(wire[Back(p)]) \in Seq(Signal)
  BY <1>2
<1>4. QED BY <1>3 DEF Taken, Signal, TypeOK

\* Making a description moves or ends one session.
LEMMA ReadyList ==
  ASSUME IInv, NEW p \in Pair, NEW i \in DOMAIN sessions[p]
  PROVE  /\ Ready(p, i) \in Seq(Session) /\ Len(Ready(p, i)) = Len(sessions[p])
         /\ \A k \in DOMAIN sessions[p] : k # i => Ready(p, i)[k] = sessions[p][k]
         /\ sessions[p][i].phase = "making" => Ready(p, i)[i].phase = "waiting"
<1>1. sessions[p] \in Seq(Session)
  BY DEF IInv, TypeOK
<1>2. CASE sessions[p][i].phase = "making"
  <2>1. "waiting" \in Phase
    BY DEF Phase
  <2>2. Ready(p, i) = [sessions[p] EXCEPT ![i].phase = "waiting"]
    BY <1>2 DEF Ready, Moved
  <2>3. QED BY <1>1, <2>1, <2>2, MovedList
<1>3. CASE sessions[p][i].phase # "making"
  <2>1. Ready(p, i) = [sessions[p] EXCEPT ![i] = Gone]
    BY <1>3 DEF Ready
  <2>2. QED BY <1>1, <1>3, <2>1, GoneType, ReplacedList
<1>4. QED BY <1>2, <1>3

\* A live session that moves to a live phase, and nothing else in the books.
LEMMA MoveKeeps ==
  ASSUME IInv, NEW p \in Pair, NEW i \in DOMAIN sessions[p], NEW phase \in Live,
         sessions' = [sessions EXCEPT ![p] = Moved(p, i, phase)],
         UNCHANGED <<old, current, operations>>
  PROVE  sessions' \in [Pair -> Seq(Session)] /\ Books'
<1>1. sessions[p] \in Seq(Session) /\ phase \in Phase
  BY DEF IInv, TypeOK, Live
<1>2. PICK ss : ss = [sessions[p] EXCEPT ![i].phase = phase]
  OBVIOUS
<1>3. /\ ss \in Seq(Session) /\ Len(ss) = Len(sessions[p]) /\ ss[i].phase = phase
      /\ \A k \in DOMAIN sessions[p] \ {i} : ss[k] = sessions[p][k]
  BY <1>1, <1>2, MovedList
<1>4. sessions' = [sessions EXCEPT ![p] = ss]
  BY <1>2 DEF Moved
<1>5. QED BY <1>3, <1>4, OneMoves

LEMMA AdvanceKeeps ==
  ASSUME IInv, NEW p \in Pair, NEW i \in DOMAIN sessions[p],
         Advance(p, i) \/ ChannelCloses(p, i) \/ FailsLate(p, i)
  PROVE  IInv'
<1>1. TypeOK /\ sessions[p] \in Seq(Session)
  BY DEF IInv, TypeOK
<1>2. CASE Made(p, i)
  <2>1. PICK ss \in Seq(Session) :
          /\ ss = Ready(p, i) /\ Len(ss) = Len(sessions[p])
          /\ \A k \in DOMAIN sessions[p] : k # i => ss[k] = sessions[p][k]
          /\ sessions[p][i].phase = "making" => ss[i].phase = "waiting"
    BY ReadyList
  <2>2. i = current[p] => sessions[p][i].phase = "making"
    <3>1. BooksOf(p) /\ i # NoSession
      BY <1>1, BooksByPair, NoSessionIsNone DEF IInv
    <3>2. QED BY <1>2, <3>1 DEF Made, BooksOf, In, Live
  <2>3. i = current[p] => ss[i].phase \in Live
    BY <2>1, <2>2 DEF Live, Phase
  <2>4. sessions' \in [Pair -> Seq(Session)] /\ Books'
    BY <1>2, <2>1, <2>3, OneMoves DEF Made, manager
  <2>5. i \in Nat
    BY <1>1
  <2>6. [type |-> IF sessions[p][i].offer = NoSession THEN "offer" ELSE "answer",
         session |-> i] \in Signal
    BY <2>5 DEF Signal
  <2>7. wire' \in [Pair -> Seq(Signal)]
    BY <1>1, <1>2, <2>6 DEF Made, TypeOK
  <2>8. QED BY <1>1, <1>2, <2>4, <2>7 DEF Made, manager, IInv, TypeOK
<1>3. CASE MakingFails(p, i)
  <2>1. PICK ss \in Seq(Session) :
          /\ ss = Ready(p, i) /\ Len(ss) = Len(sessions[p])
          /\ \A k \in DOMAIN sessions[p] : k # i => ss[k] = sessions[p][k]
    BY ReadyList
  <2>2. /\ sessions' \in [Pair -> Seq(Session)] /\ current' \in [Pair -> Nat]
        /\ operations' \in [Pair -> SUBSET Nat]
        /\ attempts' \in [Pair -> Nat] /\ retries' \in [Pair -> Nat]
        /\ Books'
    BY <1>3, <2>1, ErrorKeeps DEF MakingFails
  <2>3. busy' \in [Pair -> Nat]
    BY <1>1, <1>3 DEF MakingFails, TypeOK, NoSession
  <2>4. events' \in 0..MaxEvents
    BY <1>1, <1>3, EventsType DEF MakingFails
  <2>5. QED BY <1>1, <1>3, <2>2, <2>3, <2>4 DEF MakingFails, IInv, TypeOK
<1>4. CASE PeerConnects(p, i)
  <2>1. sessions' \in [Pair -> Seq(Session)] /\ Books'
    BY <1>4, MoveKeeps DEF PeerConnects, manager, Live, Phase
  <2>2. QED BY <1>1, <1>4, <2>1 DEF PeerConnects, manager, IInv, TypeOK
<1>5. CASE ChannelOpens(p, i)
  <2>1. sessions' \in [Pair -> Seq(Session)] /\ Books'
    BY <1>5, MoveKeeps DEF ChannelOpens, Live, Phase
  <2>2. attempts' \in [Pair -> Nat]
    BY <1>1, <1>5 DEF ChannelOpens, TypeOK
  <2>3. QED BY <1>1, <1>5, <2>1, <2>2 DEF ChannelOpens, IInv, TypeOK
<1>6. CASE ConnectionFails(p, i)
  <2>1. PICK ss \in Seq(Session) :
          /\ ss = Closed(sessions[p], i) /\ Len(ss) = Len(sessions[p])
          /\ \A k \in DOMAIN sessions[p] : k # i => ss[k] = sessions[p][k]
    BY <1>1, ClosedList
  <2>2. /\ sessions' \in [Pair -> Seq(Session)] /\ current' \in [Pair -> Nat]
        /\ operations' \in [Pair -> SUBSET Nat]
        /\ attempts' \in [Pair -> Nat] /\ retries' \in [Pair -> Nat]
        /\ Books'
    BY <1>6, <2>1, ErrorKeeps DEF ConnectionFails
  <2>3. events' \in 0..MaxEvents
    BY <1>1, <1>6, EventsType DEF ConnectionFails, Ends
  <2>4. QED BY <1>1, <1>6, <2>2, <2>3 DEF ConnectionFails, IInv, TypeOK
<1>7. CASE ChannelCloses(p, i)
  <2>1. sessions' \in [Pair -> Seq(Session)] /\ Books'
    BY <1>7, MoveKeeps DEF ChannelCloses, manager, Live, Phase
  <2>2. events' \in 0..MaxEvents
    BY <1>1, <1>7, EventsType DEF ChannelCloses, Ends
  <2>3. QED BY <1>1, <1>7, <2>1, <2>2 DEF ChannelCloses, manager, IInv, TypeOK
<1>8. CASE FailsLate(p, i)
  <2>1. PICK ss \in Seq(Session) :
          /\ ss = Closed(sessions[p], i) /\ Len(ss) = Len(sessions[p])
          /\ \A k \in DOMAIN sessions[p] : k # i => ss[k] = sessions[p][k]
    BY <1>1, ClosedList
  <2>2. /\ sessions' \in [Pair -> Seq(Session)] /\ current' \in [Pair -> Nat]
        /\ operations' \in [Pair -> SUBSET Nat]
        /\ attempts' \in [Pair -> Nat] /\ retries' \in [Pair -> Nat]
        /\ Books'
    BY <1>8, <2>1, ErrorKeeps DEF FailsLate
  <2>3. late' \in 0..MaxLate
    BY <1>1, <1>8, MaxLateAssumption DEF FailsLate, TypeOK
  <2>4. QED BY <1>1, <1>8, <2>2, <2>3 DEF FailsLate, IInv, TypeOK
<1>9. QED BY <1>2, <1>3, <1>4, <1>5, <1>6, <1>7, <1>8 DEF Advance

\* An answer is noted in the current session; its phase stays.
LEMMA AnswerKeeps ==
  ASSUME IInv, NEW p \in Pair, OnAnswer(p)
  PROVE  IInv'
<1>1. TypeOK /\ sessions[p] \in Seq(Session)
  BY DEF IInv, TypeOK
<1>2. wire' \in [Pair -> Seq(Signal)] /\ Head(wire[Back(p)]).session \in Nat
  BY <1>1, TakenType DEF OnAnswer, Incoming
<1>3. sessions' \in [Pair -> Seq(Session)] /\ Books'
  <2>1. CASE UNCHANGED sessions
    <3>1. UNCHANGED <<sessions, old, current, operations>>
      BY <2>1 DEF OnAnswer, manager
    <3>2. Books'
      BY <3>1, BooksByPair, BooksByPairNext, SameBooks DEF IInv
    <3>3. QED BY <1>1, <2>1, <3>2 DEF TypeOK
  <2>2. CASE /\ AwaitsAnswer(p)
             /\ sessions' = [sessions EXCEPT ![p][current[p]].answer = Head(wire[Back(p)]).session]
    <3>1. PICK i \in Nat, n \in Nat : i = current[p] /\ n = Head(wire[Back(p)]).session
      BY <1>1, <1>2 DEF TypeOK
    <3>2. i \in DOMAIN sessions[p] /\ sessions[p][i] \in Session /\ sessions[p][i].phase \in Live
      BY <1>1, <2>2, <3>1 DEF AwaitsAnswer, In, Live, Phase
    <3>3. /\ [sessions[p][i] EXCEPT !.answer = n] \in Session
          /\ [sessions[p][i] EXCEPT !.answer = n].phase \in Live
      BY <3>1, <3>2 DEF Session
    <3>4. PICK s \in Session : s = [sessions[p][i] EXCEPT !.answer = n] /\ s.phase \in Live
      BY <3>3
    <3>5. PICK ss : ss = [sessions[p] EXCEPT ![i] = s]
      OBVIOUS
    <3>6. /\ ss \in Seq(Session) /\ Len(ss) = Len(sessions[p]) /\ ss[i] = s
          /\ \A k \in DOMAIN sessions[p] \ {i} : ss[k] = sessions[p][k]
      BY <1>1, <3>2, <3>5, ReplacedList
    <3>7. sessions' = [sessions EXCEPT ![p] = ss]
      BY <2>2, <3>1, <3>4, <3>5
    <3>8. QED BY <3>4, <3>6, <3>7, OneMoves DEF OnAnswer, manager
  <2>3. QED BY <2>1, <2>2 DEF OnAnswer
<1>4. QED BY <1>1, <1>2, <1>3 DEF OnAnswer, manager, IInv, TypeOK

\* A new manager has empty books; the sessions of the other clients stay.
LEMMA CloseKeeps ==
  ASSUME IInv, NEW u \in User, Close(u)
  PROVE  IInv'
<1>1. TypeOK
  BY DEF IInv
<1>2. ASSUME NEW p \in Pair
      PROVE  /\ sessions'[p] \in Seq(Session) /\ Len(sessions'[p]) = Len(sessions[p])
             /\ p[1] # u => sessions'[p] = sessions[p]
  <2>1. sessions[p] \in Seq(Session) /\ Len(sessions[p]) \in Nat
    BY <1>1 DEF TypeOK
  <2>2. CASE UNCHANGED sessions
    BY <2>1, <2>2
  <2>3. CASE sessions' = [q \in Pair |-> [i \in DOMAIN sessions[q] |->
                            IF q[1] = u THEN Gone ELSE sessions[q][i]]]
    <3>1. sessions'[p] = [i \in DOMAIN sessions[p] |->
                            IF p[1] = u THEN Gone ELSE sessions[p][i]]
      BY <2>3
    <3>2. sessions'[p] \in [1..Len(sessions[p]) -> Session]
      BY <2>1, <3>1, GoneType
    <3>3. sessions'[p] \in Seq(Session) /\ Len(sessions'[p]) = Len(sessions[p])
      BY <2>1, <3>2, FromFunction
    <3>4. p[1] # u => sessions'[p] = sessions[p]
      BY <2>1, <3>1
    <3>5. QED BY <3>3, <3>4
  <2>4. QED BY <2>2, <2>3 DEF Close
<1>3. DOMAIN sessions' = Pair /\ sessions' = [p \in Pair |-> sessions'[p]]
  BY <1>1 DEF Close, TypeOK
<1>4. sessions' \in [Pair -> Seq(Session)]
  BY <1>2, <1>3
<1>5. TypeOK'
  <2>1. old' \in [Pair -> Nat]
    BY <1>1 DEF Close, TypeOK
  <2>2. /\ current' \in [Pair -> Nat] /\ operations' \in [Pair -> SUBSET Nat]
        /\ attempts' \in [Pair -> Nat] /\ retries' \in [Pair -> Nat]
        /\ busy' \in [Pair -> Nat]
    BY <1>1 DEF Close, Reset, TypeOK, NoSession
  <2>3. /\ events' \in 0..MaxEvents /\ late' \in 0..MaxLate
        /\ wire' \in [Pair -> Seq(Signal)]
    BY <1>1, EventsType DEF Close, TypeOK
  <2>4. QED BY <1>4, <2>1, <2>2, <2>3 DEF TypeOK
<1>6. ASSUME NEW p \in Pair PROVE BooksOf(p)'
  <2>1. BooksOf(p) /\ Len(sessions[p]) \in Nat
    BY <1>1, BooksByPair DEF IInv, TypeOK
  <2>2. CASE p[1] = u
    BY <1>2, <2>1, <2>2 DEF Close, Reset, BooksOf
  <2>3. CASE p[1] # u
    <3>1. /\ sessions'[p] = sessions[p] /\ old'[p] = old[p]
          /\ current'[p] = current[p] /\ operations'[p] = operations[p]
      BY <1>2, <2>3 DEF Close, Reset
    <3>2. QED BY <2>1, <3>1, SameBooks
  <2>4. QED BY <2>2, <2>3
<1>7. QED BY <1>5, <1>6, BooksByPairNext DEF IInv

\* The rest of what a pair does.
LEMMA PairKeeps ==
  ASSUME IInv, NEW p \in Pair,
         Connect(p) \/ Retry(p) \/ Receive(p) \/ WaitEnds(p) \/ Lose(p)
  PROVE  IInv'
<1>1. TypeOK
  BY DEF IInv
<1>2. ASSUME UNCHANGED <<sessions, old, current, operations>> PROVE Books'
  BY <1>2, BooksByPair, BooksByPairNext, SameBooks DEF IInv
<1>3. CASE Connect(p)
  <2>1. /\ sessions' \in [Pair -> Seq(Session)] /\ current' \in [Pair -> Nat]
        /\ operations' \in [Pair -> SUBSET Nat] /\ Books'
    BY <1>3, BeginKeeps DEF Connect, NoSession
  <2>2. events' \in 0..MaxEvents
    BY <1>1, <1>3, EventsType DEF Connect
  <2>3. QED BY <1>1, <1>3, <2>1, <2>2 DEF Connect, IInv, TypeOK
<1>4. CASE Retry(p)
  <2>1. retries' \in [Pair -> Nat]
    BY <1>1, <1>4 DEF Retry, TypeOK
  <2>2. /\ sessions' \in [Pair -> Seq(Session)] /\ current' \in [Pair -> Nat]
        /\ operations' \in [Pair -> SUBSET Nat] /\ Books'
    <3>1. CASE UNCHANGED <<sessions, current, operations>>
      BY <1>1, <1>2, <1>4, <3>1 DEF Retry, TypeOK
    <3>2. CASE \E offer \in operations[p] : Begin(p, offer)
      <4>1. operations[p] \subseteq Nat
        BY <1>1 DEF TypeOK
      <4>2. QED BY <1>4, <3>2, <4>1, BeginKeeps DEF Retry
    <3>3. QED BY <1>4, <3>1, <3>2 DEF Retry
  <2>3. QED BY <1>1, <1>4, <2>1, <2>2 DEF Retry, IInv, TypeOK
<1>5. CASE OnOffer(p)
  <2>1. wire' \in [Pair -> Seq(Signal)] /\ Head(wire[Back(p)]).session \in Nat
    BY <1>1, <1>5, TakenType DEF OnOffer, Incoming
  <2>2. /\ sessions' \in [Pair -> Seq(Session)] /\ current' \in [Pair -> Nat]
        /\ operations' \in [Pair -> SUBSET Nat] /\ Books'
    <3>1. CASE UNCHANGED <<sessions, current, operations, busy>>
      BY <1>1, <1>2, <1>5, <3>1 DEF OnOffer, TypeOK
    <3>2. CASE Begin(p, Head(wire[Back(p)]).session)
      BY <1>5, <2>1, <3>2, BeginKeeps DEF OnOffer
    <3>3. QED BY <1>5, <3>1, <3>2 DEF OnOffer
  <2>3. busy' \in [Pair -> Nat]
    <3>1. Len(sessions[p]) + 1 \in Nat
      BY <1>1 DEF TypeOK
    <3>2. QED BY <1>1, <1>5, <3>1 DEF OnOffer, TypeOK
  <2>4. QED BY <1>1, <1>5, <2>1, <2>2, <2>3 DEF OnOffer, IInv, TypeOK
<1>6. CASE WaitEnds(p)
  <2>1. busy' \in [Pair -> Nat]
    BY <1>1, <1>6 DEF WaitEnds, TypeOK, NoSession
  <2>2. QED BY <1>1, <1>2, <1>6, <2>1 DEF WaitEnds, manager, IInv, TypeOK
<1>7. CASE Lose(p)
  <2>1. wire' \in [Pair -> Seq(Signal)] /\ events' \in 0..MaxEvents
    BY <1>1, <1>7, EventsType DEF Lose, TypeOK
  <2>2. QED BY <1>1, <1>2, <1>7, <2>1 DEF Lose, manager, IInv, TypeOK
<1>8. QED BY <1>3, <1>4, <1>5, <1>6, <1>7, AnswerKeeps DEF Receive

LEMMA NextInv == IInv /\ [Next]_vars => IInv'
<1> SUFFICES ASSUME IInv, [Next]_vars PROVE IInv'
  OBVIOUS
<1>1. CASE UNCHANGED vars
  <2>1. TypeOK'
    BY <1>1 DEF vars, manager, IInv, TypeOK
  <2>2. Books'
    BY <1>1, BooksByPair, BooksByPairNext, SameBooks DEF vars, manager, IInv
  <2>3. QED BY <2>1, <2>2 DEF IInv
<1>2. ASSUME NEW p \in Pair, NEW i \in DOMAIN sessions[p],
             Advance(p, i) \/ ChannelCloses(p, i) \/ FailsLate(p, i)
      PROVE  IInv'
  BY <1>2, AdvanceKeeps
<1>3. ASSUME NEW p \in Pair,
             Connect(p) \/ Retry(p) \/ Receive(p) \/ WaitEnds(p) \/ Lose(p)
      PROVE  IInv'
  BY <1>3, PairKeeps
<1>4. ASSUME NEW u \in User, Close(u) PROVE IInv'
  BY <1>4, CloseKeeps
<1>5. QED BY <1>1, <1>2, <1>3, <1>4 DEF Next

-----------------------------------------------------------------------------
(* Theorems *)

THEOREM Invariant == Spec => []IInv
<1>1. QED BY InitInv, NextInv, PTL DEF Spec

\* Every variable keeps its type, in every state.
THEOREM TypeCorrect == Spec => []TypeOK
<1>1. IInv => TypeOK
  BY DEF IInv
<1>2. QED BY <1>1, Invariant, PTL

\* The manager never holds on to a session it closed or to one from before
\* close(), whatever late callbacks and suspended coroutines still do.
THEOREM HoldsLiveSessions == Spec => []CurrentIsLive
<1>1. IInv => CurrentIsLive
  BY DEF IInv, Books
<1>2. QED BY <1>1, Invariant, PTL

\* After "connection_failed" there is no session of that peer.
THEOREM FailsForGood == Spec => []FailureIsFinal
<1>1. IInv => FailureIsFinal
  BY DEF IInv, Books
<1>2. QED BY <1>1, Invariant, PTL

=============================================================================
