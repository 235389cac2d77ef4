--------------------------- MODULE FriendsProofs ----------------------------
(***************************************************************************)
(* Theorems about Friends, for any number of users and of events: types,   *)
(* consent, the two tables, and that pending requests reach their          *)
(* addressees.                                                             *)
(***************************************************************************)
EXTENDS Friends, TLAPS

-----------------------------------------------------------------------------
(* What is true of whatever carries a request or a friendship around *)

Linked(u, v) == \E p \in wanted \cap agreed : p \in Both(<<u, v>>)

\* What a client may be told of friends and of pending requests.
HonestSnapshot(u, fs, pending) ==
  /\ \A v \in fs : Linked(u, v)
  /\ \A r \in pending : r.pair \in wanted

\* What a client may be told.
Honest(u, e) ==
  /\ e.type # "auth_ok" => u \in {e.pair[1], e.pair[2]}
  /\ e.type \in {"friend_request", "done_request"} => e.pair \in wanted
  /\ e.type = "friend_accept" => e.pair \in wanted \cap agreed
  /\ e.type = "auth_ok" => HonestSnapshot(u, e.friends, e.pending)

\* What a client is doing at the server.
HonestJob(j) ==
  /\ j.user \in {j.pair[1], j.pair[2]}
  /\ j.op = "request" => j.pair \in wanted
  /\ j.op = "accept" \/ j.step = "repair" => j.pair \in wanted \cap agreed

RowsInv ==
  \A p \in Pair : /\ rows[p].status # "none" => p \in wanted
                  /\ rows[p].status = "accepted" => p \in friendships

JobsInv == \A j \in jobs : HonestJob(j)

Told(u) == {e \in Event : Honest(u, e)}

ToldInv == \A u \in User : inbox[u] \in Seq(Told(u)) /\ queue[u] \in Seq(Told(u))

ReadInv == \A u \in User : HonestSnapshot(u, snapshot[u].friends, snapshot[u].pending)

ListsInv ==
  \A u \in User : /\ \A v \in friends[u] : Linked(u, v)
                  /\ \A r \in incoming[u] : r.pair \in wanted /\ r.pair[2] = u

Consent ==
  /\ friendships \subseteq wanted \cap agreed
  /\ RowsInv /\ JobsInv /\ ToldInv /\ ReadInv /\ ListsInv

\* A client has had fewer connections than there were events.
SocketInv == \A u \in User : socket[u] <= events

IInv == TypeOK /\ SocketInv /\ Consent

-----------------------------------------------------------------------------
(* What stays true when only more is wanted and agreed *)

LEMMA SeqGrows ==
  ASSUME NEW S, NEW T, S \subseteq T, NEW s \in Seq(S)
  PROVE  s \in Seq(T)
OBVIOUS

LEMMA LinkedGrows ==
  ASSUME wanted \subseteq wanted', agreed \subseteq agreed', NEW u, NEW v, Linked(u, v)
  PROVE  Linked(u, v)'
BY DEF Linked

LEMMA SnapshotGrows ==
  ASSUME wanted \subseteq wanted', agreed \subseteq agreed', NEW u, NEW fs, NEW pending,
         HonestSnapshot(u, fs, pending)
  PROVE  HonestSnapshot(u, fs, pending)'
BY LinkedGrows DEF HonestSnapshot

LEMMA ToldGrows ==
  ASSUME wanted \subseteq wanted', agreed \subseteq agreed', NEW u
  PROVE  Told(u) \subseteq Told(u)'
<1> SUFFICES ASSUME NEW e \in Event, Honest(u, e) PROVE Honest(u, e)'
  BY DEF Told
<1>1. e.type = "auth_ok" => HonestSnapshot(u, e.friends, e.pending)'
  BY SnapshotGrows DEF Honest
<1>2. QED BY <1>1 DEF Honest

\* What a step that takes no consent back leaves as it was.
LEMMA Frame ==
  ASSUME Consent, wanted \subseteq wanted', agreed \subseteq agreed'
  PROVE  /\ UNCHANGED friendships => friendships' \subseteq (wanted \cap agreed)'
         /\ UNCHANGED database => RowsInv'
         /\ jobs' \subseteq jobs => JobsInv'
         /\ UNCHANGED <<inbox, queue>> => ToldInv'
         /\ UNCHANGED snapshot => ReadInv'
         /\ UNCHANGED lists => ListsInv'
<1>1. UNCHANGED friendships => friendships' \subseteq (wanted \cap agreed)'
  BY DEF Consent
<1>2. UNCHANGED database => RowsInv'
  BY DEF Consent, RowsInv, database
<1>3. jobs' \subseteq jobs => JobsInv'
  BY DEF Consent, JobsInv, HonestJob
<1>4. ASSUME UNCHANGED <<inbox, queue>> PROVE ToldInv'
  <2>1. ASSUME NEW u \in User
        PROVE  inbox[u] \in Seq(Told(u)') /\ queue[u] \in Seq(Told(u)')
    BY ToldGrows, SeqGrows DEF Consent, ToldInv
  <2>2. QED BY <1>4, <2>1 DEF ToldInv
<1>5. UNCHANGED snapshot => ReadInv'
  BY SnapshotGrows DEF Consent, ReadInv
<1>6. UNCHANGED lists => ListsInv'
  BY LinkedGrows DEF Consent, ListsInv, lists
<1>7. QED BY <1>1, <1>2, <1>3, <1>4, <1>5, <1>6

LEMMA InitInv == Init => IInv
<1> SUFFICES ASSUME Init PROVE IInv
  OBVIOUS
<1>1. NoRow \in Row /\ NoRow.status = "none"
  BY MaxEventsAssumption DEF NoRow, Row
<1>2. NothingRead \in [friends : SUBSET User, pending : SUBSET Request]
      /\ NothingRead.friends = {} /\ NothingRead.pending = {}
  BY DEF NothingRead
<1>3. <<>> \in Seq(Event) /\ \A u : <<>> \in Seq(Told(u))
  OBVIOUS
<1>4. TypeOK
  BY <1>1, <1>2, <1>3, MaxEventsAssumption DEF Init, TypeOK
<1>5. SocketInv
  <2>1. events = 0 /\ \A u \in User : socket[u] = 0
    BY DEF Init
  <2>2. 0 <= 0
    OBVIOUS
  <2>3. QED BY <2>1, <2>2, Zenon DEF SocketInv
<1>6. RowsInv
  BY <1>1 DEF Init, RowsInv
<1>7. ToldInv
  BY <1>3 DEF Init, ToldInv
<1>8. ReadInv
  BY <1>2 DEF Init, ReadInv, HonestSnapshot
<1>9. JobsInv /\ ListsInv /\ friendships \subseteq wanted \cap agreed
  BY DEF Init, JobsInv, ListsInv
<1>10. QED BY <1>4, <1>5, <1>6, <1>7, <1>8, <1>9 DEF IInv, Consent

-----------------------------------------------------------------------------
(* What users ask for *)

LEMMA SendKeeps ==
  ASSUME IInv, NEW u \in User, NEW op \in {"request", "accept", "reject", "remove"},
         NEW pair \in Pair, NEW n \in 0..MaxEvents, Send(u, op, pair, n),
         wanted \subseteq wanted', agreed \subseteq agreed', wanted' \subseteq Pair,
         agreed' \subseteq Pair, u \in {pair[1], pair[2]},
         op = "request" => pair \in wanted',
         op = "accept" => pair \in wanted' \cap agreed',
         friends' \in [User -> SUBSET User], incoming' \in [User -> SUBSET Request],
         outgoing' \in [User -> SUBSET Request],
         \A w \in User : friends'[w] \subseteq friends[w] /\ incoming'[w] \subseteq incoming[w]
  PROVE  IInv'
<1>1. TypeOK /\ SocketInv /\ Consent
  BY DEF IInv
<1>2. events + 1 \in 1..MaxEvents /\ events' \in 0..MaxEvents /\ events' = events + 1
  BY <1>1, MaxEventsAssumption DEF Send, TypeOK
<1>3. socket[u] \in 0..MaxEvents
  BY <1>1 DEF TypeOK
<1>4. PICK j : j = [k |-> events + 1, user |-> u, socket |-> socket[u],
                    op |-> op, pair |-> pair, n |-> n, step |-> "sent"]
  OBVIOUS
<1>5. j \in Job
  BY <1>2, <1>3, <1>4 DEF Job
<1>6. /\ j.user = u /\ j.pair = pair /\ j.op = op /\ j.step = "sent"
      /\ jobs' = jobs \cup {j}
  BY <1>4 DEF Send
<1>7. TypeOK'
  BY <1>1, <1>2, <1>5, <1>6 DEF TypeOK, Send, database, session
<1>8. SocketInv'
  <2>1. ASSUME NEW w \in User PROVE socket[w] <= events + 1
    BY <1>1 DEF SocketInv, TypeOK
  <2>2. QED BY <1>2, <2>1 DEF SocketInv, Send, session
<1>9. HonestJob(j)'
  BY <1>6 DEF HonestJob
<1>10. JobsInv'
  <2>1. \A i \in jobs : HonestJob(i)'
    BY <1>1 DEF Consent, JobsInv, HonestJob
  <2>2. QED BY <1>6, <1>9, <2>1 DEF JobsInv
<1>11. ListsInv'
  BY <1>1, LinkedGrows DEF Consent, ListsInv
<1>12. /\ UNCHANGED <<database, snapshot, inbox, queue>> /\ UNCHANGED friendships
  BY DEF Send, session, database
<1>13. friendships' \subseteq (wanted \cap agreed)' /\ RowsInv' /\ ToldInv' /\ ReadInv'
  BY <1>1, <1>12, Frame
<1>14. QED BY <1>7, <1>8, <1>10, <1>11, <1>13 DEF IInv, Consent

LEMMA AskKeeps == ASSUME IInv, NEW u \in User, Asks(u) PROVE IInv'
<1>1. /\ "request" # "accept" /\ "request" # "reject" /\ "request" # "remove"
      /\ "accept" # "reject" /\ "accept" # "remove"
  OBVIOUS
<1>2. /\ TypeOK /\ ListsInv /\ 0 \in 0..MaxEvents
  BY MaxEventsAssumption DEF IInv, Consent
<1>3. ASSUME NEW p \in Pair, p[1] = u, SendRequest(p) PROVE IInv'
  <2>1. /\ wanted' = wanted \cup {p} /\ UNCHANGED <<friends, incoming, outgoing, agreed>>
        /\ Send(u, "request", p, 0)
    BY <1>3 DEF SendRequest, lists
  <2>2. /\ wanted \subseteq wanted' /\ wanted' \subseteq Pair /\ p \in wanted'
        /\ agreed \subseteq agreed' /\ agreed' \subseteq Pair /\ u \in {p[1], p[2]}
    BY <1>2, <1>3, <2>1 DEF TypeOK
  <2>3. /\ friends' \in [User -> SUBSET User] /\ incoming' \in [User -> SUBSET Request]
        /\ outgoing' \in [User -> SUBSET Request]
        /\ \A w \in User : friends'[w] \subseteq friends[w] /\ incoming'[w] \subseteq incoming[w]
    BY <1>2, <2>1 DEF TypeOK
  <2>4. QED BY <1>2, <1>1, <2>1, <2>2, <2>3, SendKeeps
<1>4. ASSUME NEW r \in incoming[u], AcceptRequest(u, r) \/ RejectRequest(u, r) PROVE IInv'
  <2>1. r \in Request /\ r.pair \in wanted /\ r.pair[2] = u
    BY <1>2 DEF TypeOK, ListsInv
  <2>2. r.pair \in Pair /\ r.n \in 0..MaxEvents
    BY <2>1 DEF Request
  <2>3. /\ incoming' = [incoming EXCEPT ![u] = incoming[u] \ {r}]
        /\ UNCHANGED <<friends, outgoing, wanted>>
    BY <1>4 DEF AcceptRequest, RejectRequest, consent
  <2>4. /\ friends' \in [User -> SUBSET User] /\ incoming' \in [User -> SUBSET Request]
        /\ outgoing' \in [User -> SUBSET Request]
        /\ \A w \in User : friends'[w] \subseteq friends[w] /\ incoming'[w] \subseteq incoming[w]
    BY <1>2, <2>3 DEF TypeOK
  <2>5. CASE AcceptRequest(u, r)
    <3>1. agreed' = agreed \cup {r.pair} /\ Send(u, "accept", r.pair, r.n)
      BY <2>5 DEF AcceptRequest
    <3>2. /\ wanted' \subseteq Pair /\ agreed' \subseteq Pair /\ agreed \subseteq agreed'
          /\ wanted \subseteq wanted' /\ r.pair \in wanted' \cap agreed'
          /\ u \in {r.pair[1], r.pair[2]}
      BY <1>2, <2>1, <2>2, <2>3, <3>1 DEF TypeOK
    <3>3. QED BY <1>1, <2>2, <2>4, <3>1, <3>2, SendKeeps
  <2>6. CASE RejectRequest(u, r)
    <3>1. agreed' = agreed /\ Send(u, "reject", r.pair, r.n)
      BY <2>6 DEF RejectRequest, consent
    <3>2. /\ wanted' \subseteq Pair /\ agreed' \subseteq Pair /\ agreed \subseteq agreed'
          /\ wanted \subseteq wanted' /\ u \in {r.pair[1], r.pair[2]}
      BY <1>2, <2>1, <2>3, <3>1 DEF TypeOK
    <3>3. QED BY <1>1, <2>2, <2>4, <3>1, <3>2, SendKeeps
  <2>7. QED BY <1>4, <2>5, <2>6
<1>5. ASSUME NEW v \in friends[u] \ {u}, RemoveFriend(u, v) PROVE IInv'
  <2>1. <<u, v>> \in Pair /\ u \in {<<u, v>>[1], <<u, v>>[2]}
    BY <1>2 DEF TypeOK, Pair
  <2>2. /\ friends' = [friends EXCEPT ![u] = friends[u] \ {v}]
        /\ UNCHANGED <<incoming, outgoing, wanted, agreed>>
        /\ Send(u, "remove", <<u, v>>, 0)
    BY <1>5 DEF RemoveFriend, consent
  <2>3. /\ friends' \in [User -> SUBSET User] /\ incoming' \in [User -> SUBSET Request]
        /\ outgoing' \in [User -> SUBSET Request]
        /\ \A w \in User : friends'[w] \subseteq friends[w] /\ incoming'[w] \subseteq incoming[w]
    BY <1>2, <2>2 DEF TypeOK
  <2>4. /\ wanted' \subseteq Pair /\ agreed' \subseteq Pair /\ agreed \subseteq agreed'
        /\ wanted \subseteq wanted'
    BY <1>2, <2>2 DEF TypeOK
  <2>5. QED BY <1>1, <1>2, <2>1, <2>2, <2>3, <2>4, SendKeeps
<1>6. QED BY <1>3, <1>4, <1>5 DEF Asks

-----------------------------------------------------------------------------
(* The server *)

\* A handler that only works on the database, and on itself.
LEMMA WorkKeeps ==
  ASSUME IInv, NEW j \in jobs, Unread,
         rows' \in [Pair -> Row], friendships' \in SUBSET Pair, jobs' \in SUBSET Job,
         friendships' \subseteq wanted \cap agreed, RowsInv',
         \A i \in jobs' : i \in jobs \/ HonestJob(i)
  PROVE  IInv'
<1>1. TypeOK /\ SocketInv /\ Consent
  BY DEF IInv
<1>2. UNCHANGED <<snapshot, inbox, queue, lists, socket, events, wanted, agreed>>
  BY DEF Unread, session, consent
<1>3. TypeOK'
  BY <1>1 DEF TypeOK, Unread, session, lists, consent
<1>4. SocketInv'
  BY <1>1, <1>2 DEF SocketInv
<1>5. JobsInv'
  BY <1>1, <1>2 DEF Consent, JobsInv, HonestJob
<1>6. ToldInv' /\ ReadInv' /\ ListsInv'
  BY <1>1, <1>2, Frame
<1>7. QED BY <1>2, <1>3, <1>4, <1>5, <1>6 DEF IInv, Consent

\* A handler that goes on to another step.
LEMMA BecomesKeeps ==
  ASSUME IInv, NEW j \in jobs, NEW i \in Job, Becomes(j, i), HonestJob(i)
  PROVE  jobs' \in SUBSET Job /\ \A k \in jobs' : k \in jobs \/ HonestJob(k)
BY DEF IInv, TypeOK, Becomes

StepName == {"sent", "read", "insert", "repair", "written"}

LEMMA Steps ==
  ASSUME NEW j \in Job, NEW step \in StepName
  PROVE  /\ [j EXCEPT !.step = step] \in Job
         /\ [j EXCEPT !.step = step].user = j.user
         /\ [j EXCEPT !.step = step].op = j.op
         /\ [j EXCEPT !.step = step].pair = j.pair
         /\ [j EXCEPT !.step = step].step = step
BY DEF Job, StepName

\* What a handler becomes when it has read a row of its pair.
LEMMA AboutJob ==
  ASSUME IInv, NEW j \in Job, NEW p \in Pair,
         NEW step \in StepName
  PROVE  \E i \in Job : /\ i = About(j, p, step) /\ i.user = j.user /\ i.op = j.op
                         /\ i.pair = p /\ i.step = step
<1>1. rows[p].n \in 0..MaxEvents
  BY DEF IInv, TypeOK, Row
<1>2. PICK n \in 0..MaxEvents : n = rows[p].n
  BY <1>1
<1>3. PICK i : i = [j EXCEPT !.pair = p, !.n = n, !.step = step]
  OBVIOUS
<1>4. i \in Job /\ i.user = j.user /\ i.op = j.op /\ i.pair = p /\ i.step = step
  BY <1>3 DEF Job, StepName
<1>5. i = About(j, p, step)
  BY <1>2, <1>3 DEF About
<1>6. QED BY <1>4, <1>5

LEMMA FindKeeps == ASSUME IInv, NEW j \in jobs, ReadRequest(j) PROVE IInv'
<1>1. /\ TypeOK /\ Consent /\ j \in Job /\ HonestJob(j) /\ j.op = "request"
      /\ j.pair \in Pair /\ UNCHANGED database
  BY DEF IInv, Consent, JobsInv, TypeOK, ReadRequest, Job
<1>2. jobs' \in SUBSET Job /\ \A i \in jobs' : i \in jobs \/ HonestJob(i)
  <2>1. CASE Becomes(j, [j EXCEPT !.step = "insert"])
    <3>1. PICK i \in Job : /\ i = [j EXCEPT !.step = "insert"]
                           /\ i.user = j.user /\ i.op = j.op /\ i.pair = j.pair
                           /\ i.step = "insert"
      BY <1>1, Steps DEF StepName
    <3>2. HonestJob(i)
      BY <1>1, <3>1 DEF HonestJob
    <3>3. QED BY <2>1, <3>1, <3>2, BecomesKeeps
  <2>2. CASE Find(j)
    <3>1. PICK p \in Existing(j.pair) :
            Becomes(j, About(j, p, IF rows[p].status = "accepted" THEN "repair" ELSE "written"))
      BY <2>2 DEF Find
    <3>2. /\ p \in Pair /\ p \in Both(j.pair) /\ rows[p].status # "none"
      BY <1>1, <3>1 DEF Existing, Both, Reverse, Pair
    <3>3. PICK step \in StepName :
            /\ step = (IF rows[p].status = "accepted" THEN "repair" ELSE "written")
            /\ step = "repair" => rows[p].status = "accepted"
      BY DEF StepName
    <3>4. PICK i \in Job : /\ i = About(j, p, step) /\ i.user = j.user /\ i.op = j.op
                           /\ i.pair = p /\ i.step = step
      <4>1. j \in Job /\ p \in Pair
        BY <1>1, <3>2
      <4>2. QED BY <4>1, AboutJob
    <3>5. p \in wanted /\ (rows[p].status = "accepted" => p \in wanted \cap agreed)
      BY <1>1, <3>2 DEF Consent, RowsInv
    <3>6. j.user \in {p[1], p[2]}
      BY <1>1, <3>2 DEF HonestJob, Both, Reverse
    <3>7. HonestJob(i)
      BY <1>1, <3>3, <3>4, <3>5, <3>6 DEF HonestJob
    <3>8. QED BY <3>1, <3>3, <3>4, <3>7, BecomesKeeps
  <2>3. QED BY <2>1, <2>2 DEF ReadRequest
<1>3. Unread /\ UNCHANGED <<rows, friendships, wanted, agreed>>
  BY <1>1 DEF ReadRequest, Unread, database, consent
<1>4. RowsInv'
  BY <1>1, <1>3, Frame
<1>5. QED BY <1>1, <1>2, <1>3, <1>4, WorkKeeps DEF TypeOK, Consent

\* A handler goes on for the same pair, or ends.
LEMMA OneStep ==
  ASSUME IInv, NEW j \in jobs,
         NEW step \in {"read", "insert", "written"}, NEW n \in 0..MaxEvents,
         \/ jobs' = jobs \ {j}
         \/ Becomes(j, [j EXCEPT !.n = n, !.step = step])
         \/ Becomes(j, [j EXCEPT !.step = step, !.n = n])
         \/ Becomes(j, [j EXCEPT !.step = step])
  PROVE  jobs' \in SUBSET Job /\ \A i \in jobs' : i \in jobs \/ HonestJob(i)
<1>1. j \in Job /\ HonestJob(j) /\ jobs \in SUBSET Job
  BY DEF IInv, TypeOK, Consent, JobsInv
<1>2. CASE jobs' = jobs \ {j}
  BY <1>1, <1>2
<1>3. ASSUME NEW i, Becomes(j, i),
             \/ i = [j EXCEPT !.n = n, !.step = step]
             \/ i = [j EXCEPT !.step = step, !.n = n]
             \/ i = [j EXCEPT !.step = step]
      PROVE  jobs' \in SUBSET Job /\ \A k \in jobs' : k \in jobs \/ HonestJob(k)
  <2>1. /\ i \in Job /\ i.user = j.user /\ i.op = j.op /\ i.pair = j.pair
        /\ i.step = step
    BY <1>1, <1>3 DEF Job
  <2>2. HonestJob(i)
    BY <1>1, <2>1 DEF HonestJob
  <2>3. QED BY <1>3, <2>1, <2>2, BecomesKeeps
<1>4. QED BY <1>2, <1>3

\* A handler that writes rows and friendships.
LEMMA WriteKeeps ==
  ASSUME IInv, NEW j \in jobs,
         ReadDecision(j) \/ Insert(j) \/ Repair(j) \/ Accept(j) \/ Reject(j) \/ Remove(j)
  PROVE  IInv'
<1>1. /\ TypeOK /\ Consent /\ j \in Job /\ HonestJob(j) /\ j.pair \in Pair
      /\ j.k \in 1..MaxEvents /\ j.n \in 0..MaxEvents /\ 0 \in 0..MaxEvents
      /\ j.k \in 0..MaxEvents /\ RowsInv /\ friendships \subseteq wanted \cap agreed
      /\ rows \in [Pair -> Row] /\ friendships \in SUBSET Pair
  BY MaxEventsAssumption DEF IInv, Consent, JobsInv, TypeOK, Job
<1>2. Unread /\ UNCHANGED <<wanted, agreed>>
  BY DEF ReadDecision, Insert, Repair, Accept, Reject, Remove, Unread, consent
<1>3. CASE ReadDecision(j)
  <2>1. jobs' \in SUBSET Job /\ \A i \in jobs' : i \in jobs \/ HonestJob(i)
    BY <1>1, <1>3, OneStep DEF ReadDecision
  <2>2. UNCHANGED <<rows, friendships>> /\ UNCHANGED database
    BY <1>3 DEF ReadDecision, database
  <2>3. RowsInv'
    BY <1>1, <1>2, <2>2, Frame
  <2>4. QED BY <1>1, <1>2, <2>1, <2>2, <2>3, WorkKeeps
<1>4. CASE Insert(j)
  <2>1. jobs' \in SUBSET Job /\ \A i \in jobs' : i \in jobs \/ HonestJob(i)
    BY <1>1, <1>4, OneStep DEF Insert
  <2>2. UNCHANGED friendships
    BY <1>4 DEF Insert
  <2>3. rows' \in [Pair -> Row] /\ RowsInv'
    <3>1. CASE UNCHANGED rows
      BY <1>1, <1>2, <2>2, <3>1 DEF RowsInv
    <3>2. CASE rows' = [rows EXCEPT ![j.pair] = [n |-> j.k, status |-> "pending"]]
      <4>1. PICK r \in Row : r = [n |-> j.k, status |-> "pending"] /\ r.status = "pending"
        <5>1. [n |-> j.k, status |-> "pending"] \in Row
          BY <1>1 DEF Row
        <5>2. QED BY <5>1
      <4>2. rows' = [rows EXCEPT ![j.pair] = r]
        BY <3>2, <4>1
      <4>3. j.pair \in wanted
        BY <1>1, <1>4 DEF Insert, HonestJob
      <4>4. QED BY <1>1, <1>2, <2>2, <4>1, <4>2, <4>3 DEF RowsInv
    <3>3. QED BY <1>4, <3>1, <3>2 DEF Insert
  <2>4. QED BY <1>1, <1>2, <2>1, <2>2, <2>3, WorkKeeps
<1>5. CASE Repair(j)
  <2>1. jobs' \in SUBSET Job /\ \A i \in jobs' : i \in jobs \/ HonestJob(i)
    BY <1>1, <1>5, OneStep DEF Repair
  <2>2. UNCHANGED rows /\ friendships' = friendships \cup {j.pair}
    BY <1>5 DEF Repair
  <2>3. j.pair \in wanted \cap agreed
    BY <1>1, <1>5 DEF Repair, HonestJob
  <2>4. RowsInv'
    BY <1>1, <1>2, <2>2 DEF RowsInv
  <2>5. QED BY <1>1, <1>2, <2>1, <2>2, <2>3, <2>4, WorkKeeps
<1>6. CASE Accept(j)
  <2>1. jobs' \in SUBSET Job /\ \A i \in jobs' : i \in jobs \/ HonestJob(i)
    BY <1>1, <1>6, OneStep DEF Accept
  <2>2. friendships' = friendships \cup {j.pair}
    BY <1>6 DEF Accept
  <2>3. j.pair \in wanted \cap agreed
    BY <1>1, <1>6 DEF Accept, HonestJob
  <2>4. PICK r \in Row : r = [n |-> j.n, status |-> "accepted"] /\ r.status = "accepted"
    <3>1. [n |-> j.n, status |-> "accepted"] \in Row
      BY <1>1 DEF Row
    <3>2. QED BY <3>1
  <2>5. UNCHANGED rows \/ rows' = [rows EXCEPT ![j.pair] = r]
    BY <1>1, <1>6, <2>4 DEF Accept
  <2>6. rows' \in [Pair -> Row] /\ RowsInv'
    BY <1>1, <1>2, <2>2, <2>3, <2>4, <2>5 DEF RowsInv
  <2>7. QED BY <1>1, <1>2, <2>1, <2>2, <2>3, <2>6, WorkKeeps
<1>7. CASE Reject(j)
  <2>1. jobs' \in SUBSET Job /\ \A i \in jobs' : i \in jobs \/ HonestJob(i)
    BY <1>1, <1>7, OneStep DEF Reject
  <2>2. UNCHANGED friendships
    BY <1>7 DEF Reject
  <2>3. PICK r \in Row : r = [n |-> j.n, status |-> "rejected"] /\ r.status = "rejected"
    <3>1. [n |-> j.n, status |-> "rejected"] \in Row
      BY <1>1 DEF Row
    <3>2. QED BY <3>1
  <2>4. \/ UNCHANGED rows
        \/ rows[j.pair].status = "pending" /\ rows' = [rows EXCEPT ![j.pair] = r]
    BY <1>1, <1>7, <2>3 DEF Reject, IsPending
  <2>5. rows' \in [Pair -> Row] /\ RowsInv'
    BY <1>1, <1>2, <2>2, <2>3, <2>4 DEF RowsInv
  <2>6. QED BY <1>1, <1>2, <2>1, <2>2, <2>5, WorkKeeps
<1>8. CASE Remove(j)
  <2>1. PICK gone \in SUBSET Pair :
          /\ gone = {p \in Both(j.pair) : rows[p].status = "accepted"}
          /\ rows' = [p \in Pair |-> IF p \in gone THEN Deleted ELSE rows[p]]
          /\ \E n \in {0, 1} : Becomes(j, [j EXCEPT !.step = "written", !.n = n])
    <3>1. Both(j.pair) \subseteq Pair
      BY <1>1 DEF Both, Reverse, Pair
    <3>2. QED BY <1>8, <3>1 DEF Remove
  <2>2. 0 \in 0..MaxEvents /\ 1 \in 0..MaxEvents
    <3>1. PICK k \in 1..MaxEvents : k = j.k
      BY <1>1
    <3>2. QED BY MaxEventsAssumption, <3>1
  <2>3. jobs' \in SUBSET Job /\ \A i \in jobs' : i \in jobs \/ HonestJob(i)
    BY <1>1, <2>1, <2>2, OneStep
  <2>4. friendships' = friendships \ Both(j.pair)
    BY <1>8 DEF Remove
  <2>5. Deleted \in Row /\ Deleted.status = "none"
    BY <1>1 DEF Deleted, NoRow, Row
  <2>6. rows' \in [Pair -> Row]
    BY <1>1, <2>1, <2>5
  <2>7. RowsInv'
    <3>1. ASSUME NEW p \in Pair
          PROVE  /\ rows'[p].status # "none" => p \in wanted
                 /\ rows'[p].status = "accepted" => p \in friendships'
      <4>1. CASE p \in gone
        BY <2>1, <2>5, <4>1
      <4>2. CASE p \notin gone
        <5>1. rows'[p] = rows[p]
          BY <2>1, <4>2
        <5>2. rows[p].status = "accepted" => p \notin Both(j.pair)
          BY <2>1, <4>2
        <5>3. QED BY <1>1, <2>4, <5>1, <5>2 DEF RowsInv
      <4>3. QED BY <4>1, <4>2
    <3>2. QED BY <1>2, <3>1 DEF RowsInv
  <2>8. friendships' \in SUBSET Pair /\ friendships' \subseteq wanted \cap agreed
    BY <1>1, <2>4
  <2>9. QED BY <1>2, <2>3, <2>6, <2>7, <2>8, WorkKeeps
<1>9. QED BY <1>3, <1>4, <1>5, <1>6, <1>7, <1>8

-----------------------------------------------------------------------------
(* What clients are told *)

LEMMA MessageType ==
  ASSUME NEW j \in Job,
         NEW type \in {"friend_request", "friend_accept", "friend_reject", "friend_remove",
                       "done_request", "done_accept", "done_reject", "done_remove"}
  PROVE  /\ Message(j, type) \in Event /\ Message(j, type).type = type
         /\ Message(j, type).pair = j.pair /\ type # "auth_ok"
BY DEF Message, Event, Job

LEMMA HonestMessage ==
  ASSUME NEW j \in Job, HonestJob(j), NEW u \in {j.pair[1], j.pair[2]},
         NEW type \in {"friend_request", "friend_accept", "friend_reject", "friend_remove",
                       "done_request", "done_accept", "done_reject", "done_remove"},
         type \in {"friend_request", "done_request"} => j.op = "request",
         type = "friend_accept" => j.op = "accept"
  PROVE  Message(j, type) \in Told(u)
<1>1. PICK e \in Event : e = Message(j, type) /\ e.type = type /\ e.pair = j.pair
  BY MessageType
<1>2. Honest(u, e)
  BY <1>1, MessageType DEF Honest, HonestJob
<1>3. QED BY <1>1, <1>2 DEF Told

LEMMA TellsHonestly ==
  ASSUME IInv, NEW j \in jobs
  PROVE  /\ Reply(j) \in Seq(Told(j.user))
         /\ Notice(j) \in Seq(Told(Other(j.pair, j.user)))
<1>1. j \in Job /\ HonestJob(j) /\ j.op \in {"request", "accept", "reject", "remove"}
  BY DEF IInv, Consent, JobsInv, TypeOK, Job
<1>2. j.user \in {j.pair[1], j.pair[2]} /\ Other(j.pair, j.user) \in {j.pair[1], j.pair[2]}
  BY <1>1 DEF HonestJob, Other
<1>3. ASSUME NEW u \in {j.pair[1], j.pair[2]}
      PROVE  /\ j.op = "request" => /\ Message(j, "friend_request") \in Told(u)
                                    /\ Message(j, "done_request") \in Told(u)
             /\ j.op = "accept" => Message(j, "friend_accept") \in Told(u)
             /\ Message(j, "friend_reject") \in Told(u) /\ Message(j, "friend_remove") \in Told(u)
             /\ Message(j, "done_accept") \in Told(u) /\ Message(j, "done_reject") \in Told(u)
             /\ Message(j, "done_remove") \in Told(u)
  BY <1>1, HonestMessage
<1>4. Reply(j) \in Seq(Told(j.user))
  <2>1. PICK u \in {j.pair[1], j.pair[2]} : u = j.user
    BY <1>2
  <2>2. CASE j.op = "request"
    <3>1. PICK e \in Told(u) : e = Message(j, "done_request")
      BY <1>3, <2>2
    <3>2. Reply(j) = <<e>>
      BY <2>2, <3>1 DEF Reply
    <3>3. QED BY <2>1, <3>2
  <2>3. CASE j.op = "accept"
    <3>1. PICK e \in Told(u) : e = Message(j, "friend_accept")
      BY <1>3, <2>3
    <3>2. PICK f \in Told(u) : f = Message(j, "done_accept")
      BY <1>3
    <3>3. Reply(j) = <<e, f>>
      BY <2>3, <3>1, <3>2 DEF Reply
    <3>4. QED BY <2>1, <3>3
  <2>4. CASE j.op = "reject"
    <3>1. PICK e \in Told(u) : e = Message(j, "done_reject")
      BY <1>3
    <3>2. Reply(j) = <<e>>
      BY <2>4, <3>1 DEF Reply
    <3>3. QED BY <2>1, <3>2
  <2>5. CASE j.op = "remove"
    <3>1. PICK e \in Told(u) : e = Message(j, "done_remove")
      BY <1>3
    <3>2. Reply(j) = <<e>> \/ Reply(j) = <<>>
      BY <2>5, <3>1 DEF Reply
    <3>3. <<e>> \in Seq(Told(u)) /\ <<>> \in Seq(Told(u))
      OBVIOUS
    <3>4. QED BY <2>1, <3>2, <3>3
  <2>6. QED BY <1>1, <2>2, <2>3, <2>4, <2>5
<1>5. Notice(j) \in Seq(Told(Other(j.pair, j.user)))
  <2>1. PICK u \in {j.pair[1], j.pair[2]} : u = Other(j.pair, j.user)
    BY <1>2
  <2>2. CASE j.op = "request"
    <3>1. PICK e \in Told(u) : e = Message(j, "friend_request")
      BY <1>3, <2>2
    <3>2. Notice(j) = <<e>> \/ Notice(j) = <<>>
      BY <2>2, <3>1 DEF Notice
    <3>3. <<e>> \in Seq(Told(u)) /\ <<>> \in Seq(Told(u))
      OBVIOUS
    <3>4. QED BY <2>1, <3>2, <3>3
  <2>3. CASE j.op = "accept"
    <3>1. PICK e \in Told(u) : e = Message(j, "friend_accept")
      BY <1>3, <2>3
    <3>2. Notice(j) = <<e>>
      BY <2>3, <3>1 DEF Notice
    <3>3. QED BY <2>1, <3>2
  <2>4. CASE j.op = "reject"
    <3>1. PICK e \in Told(u) : e = Message(j, "friend_reject")
      BY <1>3
    <3>2. Notice(j) = <<e>>
      BY <2>4, <3>1 DEF Notice
    <3>3. QED BY <2>1, <3>2
  <2>5. CASE j.op = "remove"
    <3>1. PICK e \in Told(u) : e = Message(j, "friend_remove")
      BY <1>3
    <3>2. Notice(j) = <<e>>
      BY <2>5, <3>1 DEF Notice
    <3>3. QED BY <2>1, <3>2
  <2>6. QED BY <1>1, <2>2, <2>3, <2>4, <2>5
<1>6. QED BY <1>4, <1>5

LEMMA ToldTypes ==
  ASSUME NEW u, NEW s \in Seq(Told(u))
  PROVE  s \in Seq(Event)
<1>1. Told(u) \subseteq Event
  BY DEF Told
<1>2. QED BY <1>1, SeqGrows

LEMMA TellKeeps ==
  ASSUME IInv, NEW j \in jobs, Finish(j) \/ Fails(j)
  PROVE  IInv'
<1>1. TypeOK /\ SocketInv /\ Consent
  BY DEF IInv
<1>2. /\ jobs' \subseteq jobs
      /\ UNCHANGED <<rows, friendships, snapshot, friends, incoming, outgoing,
                     wanted, agreed, socket>>
  BY DEF Finish, Fails, database, session, lists, consent
<1>3. /\ friendships' \subseteq (wanted \cap agreed)'
      /\ RowsInv' /\ JobsInv' /\ ReadInv' /\ ListsInv'
  BY <1>1, <1>2, Frame DEF database, lists
<1>4. CASE Finish(j)
  <2>1. \A w : Told(w)' = Told(w)
    BY <1>2 DEF Told, Honest, HonestSnapshot, Linked
  <2>2. PICK v : v = Other(j.pair, j.user)
    OBVIOUS
  <2>3. ASSUME NEW w \in User
        PROVE  inbox'[w] \in Seq(Told(w)) /\ queue'[w] \in Seq(Told(w))
    <3>1. inbox[w] \in Seq(Told(w)) /\ queue[w] \in Seq(Told(w))
      BY <1>1 DEF Consent, ToldInv
    <3>2. PICK s : s = IF w = j.user /\ Answerable(j) THEN Reply(j) ELSE <<>>
      OBVIOUS
    <3>3. PICK t : t = IF w = v /\ link[v] # "off" THEN Notice(j) ELSE <<>>
      OBVIOUS
    <3>4. inbox'[w] = inbox[w] \o s \o t
      BY <1>4, <2>2, <3>2, <3>3 DEF Finish
    <3>5. inbox'[w] \in Seq(Told(w))
      <4>0. <<>> \in Seq(Told(w))
        OBVIOUS
      <4>1. s \in Seq(Told(w))
        <5>1. CASE w = j.user /\ Answerable(j)
          <6>1. s = Reply(j) /\ w = j.user
            BY <3>2, <5>1
          <6>2. QED BY <6>1, TellsHonestly
        <5>2. CASE ~(w = j.user /\ Answerable(j))
          BY <3>2, <4>0, <5>2
        <5>3. QED BY <5>1, <5>2
      <4>2. t \in Seq(Told(w))
        <5>1. CASE w = v /\ link[v] # "off"
          <6>1. t = Notice(j) /\ w = Other(j.pair, j.user)
            BY <2>2, <3>3, <5>1
          <6>2. QED BY <6>1, TellsHonestly
        <5>2. CASE ~(w = v /\ link[v] # "off")
          BY <3>3, <4>0, <5>2
        <5>3. QED BY <5>1, <5>2
      <4>3. QED BY <3>1, <3>4, <4>1, <4>2
    <3>6. queue'[w] = queue[w] \/ (w = v /\ queue'[w] = queue[w] \o Notice(j))
      BY <1>1, <1>4, <2>2 DEF Finish, TypeOK
    <3>7. queue'[w] \in Seq(Told(w))
      <4>1. CASE w = v
        <5>1. PICK n \in Seq(Told(w)) : n = Notice(j)
          BY <2>2, <4>1, TellsHonestly
        <5>2. queue[w] \o n \in Seq(Told(w))
          BY <3>1, <5>1
        <5>3. QED BY <3>1, <3>6, <5>1, <5>2
      <4>2. CASE w # v
        BY <3>1, <3>6, <4>2
      <4>3. QED BY <4>1, <4>2
    <3>8. QED BY <3>5, <3>7
  <2>4. ToldInv'
    BY <2>1, <2>3 DEF ToldInv
  <2>5. inbox' \in [User -> Seq(Event)] /\ queue' \in [User -> Seq(Event)]
    <3>1. /\ inbox' = [w \in User |-> inbox'[w]] /\ queue' = [w \in User |-> queue'[w]]
      BY <1>1, <1>4 DEF Finish, TypeOK
    <3>2. QED BY <2>3, <3>1, ToldTypes
  <2>6. TypeOK'
    BY <1>1, <1>2, <1>4, <2>5 DEF TypeOK, Finish, session, consent
  <2>7. SocketInv'
    BY <1>1, <1>2, <1>4 DEF SocketInv, Finish
  <2>8. QED BY <1>3, <2>4, <2>6, <2>7 DEF IInv, Consent
<1>5. CASE Fails(j)
  <2>1. events' \in 0..MaxEvents /\ events' = events + 1
    BY <1>1, <1>5, MaxEventsAssumption DEF Fails, TypeOK
  <2>2. missed' \in [User -> BOOLEAN]
    BY <1>1, <1>5 DEF Fails, TypeOK
  <2>3. TypeOK'
    BY <1>1, <1>2, <1>5, <2>1, <2>2 DEF TypeOK, Fails, session
  <2>4. SocketInv'
    <3>1. ASSUME NEW w \in User PROVE socket[w] <= events + 1
      BY <1>1 DEF SocketInv, TypeOK
    <3>2. QED BY <1>2, <2>1, <3>1 DEF SocketInv
  <2>5. ToldInv'
    BY <1>1, <1>2, <1>5, Frame DEF Fails
  <2>6. QED BY <1>3, <2>3, <2>4, <2>5 DEF IInv, Consent
<1>6. QED BY <1>4, <1>5

-----------------------------------------------------------------------------
(* Connections and clients *)

LEMMA ForgottenIsHonest ==
  ASSUME TypeOK, Consent, wanted \subseteq wanted', agreed \subseteq agreed', NEW u \in User,
         NothingRead.friends = {}, NothingRead.pending = {},
         snapshot' = [snapshot EXCEPT ![u] = NothingRead]
  PROVE  ReadInv'
<1>1. ASSUME NEW w \in User
      PROVE  HonestSnapshot(w, snapshot[w].friends, snapshot[w].pending)'
  <2>1. CASE w = u
    <3>1. snapshot'[w] = NothingRead
      BY <2>1 DEF TypeOK
    <3>2. QED BY <3>1 DEF HonestSnapshot
  <2>2. CASE w # u
    <3>1. snapshot'[w] = snapshot[w] /\ HonestSnapshot(w, snapshot[w].friends, snapshot[w].pending)
      BY <2>2 DEF TypeOK, Consent, ReadInv
    <3>2. QED BY <3>1, LinkedGrows DEF HonestSnapshot
  <2>3. QED BY <2>1, <2>2
<1>2. QED BY <1>1 DEF ReadInv

\* What is put into a client's inbox or queue, when it may be told.
LEMMA InboxKeeps ==
  ASSUME TypeOK, Consent, wanted \subseteq wanted', agreed \subseteq agreed', NEW u \in User,
         NEW s \in Seq(Told(u)), NEW t \in Seq(Told(u)),
         inbox' = [inbox EXCEPT ![u] = s],
         UNCHANGED queue \/ queue' = [queue EXCEPT ![u] = t]
  PROVE  ToldInv'
<1>1. ASSUME NEW w \in User
      PROVE  inbox'[w] \in Seq(Told(w)') /\ queue'[w] \in Seq(Told(w)')
  <2>1. inbox[w] \in Seq(Told(w)) /\ queue[w] \in Seq(Told(w))
    BY DEF Consent, ToldInv
  <2>2. inbox'[w] \in Seq(Told(w)) /\ queue'[w] \in Seq(Told(w))
    BY <2>1 DEF TypeOK
  <2>3. QED BY <2>2, ToldGrows, SeqGrows
<1>2. QED BY <1>1 DEF ToldInv

LEMMA AuthKeeps == ASSUME IInv, NEW u \in User, Authenticates(u) PROVE IInv'
<1>1. TypeOK /\ SocketInv /\ Consent
  BY DEF IInv
<1>2. UNCHANGED <<rows, friendships, wanted, agreed, friends>>
  BY DEF Authenticates, Join, ReadFriends, ReadPending, Reads, AuthOk, Drop, database,
         lists, consent
<1>3. /\ wanted \subseteq wanted' /\ agreed \subseteq agreed' /\ UNCHANGED database
      /\ UNCHANGED friendships
  BY <1>2 DEF database
<1>4. friendships' \subseteq (wanted \cap agreed)' /\ RowsInv'
  BY <1>1, <1>3, Frame
<1>5. CASE Join(u)
  <2>1. UNCHANGED <<jobs, inbox, queue, snapshot, lists, socket, events>>
    BY <1>5 DEF Join
  <2>2. JobsInv' /\ ToldInv' /\ ReadInv' /\ ListsInv'
    BY <1>1, <1>3, <2>1, Frame
  <2>3. link' \in [User -> {"off", "joining", "on"}] /\ missed' \in [User -> BOOLEAN]
    BY <1>1, <1>5 DEF Join, TypeOK
  <2>4. TypeOK'
    BY <1>1, <1>5, <2>3 DEF Join, TypeOK, database, lists, consent
  <2>5. SocketInv'
    BY <1>1, <2>1 DEF SocketInv
  <2>6. QED BY <1>4, <2>2, <2>4, <2>5 DEF IInv, Consent
<1>6. CASE ReadFriends(u) \/ ReadPending(u)
  <2>1. UNCHANGED <<jobs, inbox, queue, lists, socket, events, link, missed>>
    BY <1>6 DEF ReadFriends, ReadPending, Reads
  <2>2. JobsInv' /\ ToldInv' /\ ListsInv'
    BY <1>1, <1>3, <2>1, Frame
  <2>3. PICK fs \in SUBSET User, ps \in SUBSET Request :
          /\ snapshot' = [snapshot EXCEPT ![u] = [friends |-> fs, pending |-> ps]]
          /\ HonestSnapshot(u, fs, ps)
    <3>1. PICK s \in [friends : SUBSET User, pending : SUBSET Request] :
            s = snapshot[u] /\ HonestSnapshot(u, s.friends, s.pending)
      BY <1>1 DEF TypeOK, Consent, ReadInv
    <3>2. FriendsOf(u) \in SUBSET User /\ \A v \in FriendsOf(u) : Linked(u, v)
      BY <1>1 DEF FriendsOf, Linked, Consent
    <3>3. PendingOf(u) \in SUBSET Request /\ \A r \in PendingOf(u) : r.pair \in wanted
      <4>1. ASSUME NEW r \in PendingOf(u) PROVE r \in Request /\ r.pair \in wanted
        <5>1. PICK p \in Pair : r = [pair |-> p, n |-> rows[p].n] /\ rows[p].status = "pending"
          BY DEF PendingOf
        <5>2. rows[p].n \in 0..MaxEvents /\ p \in wanted
          BY <1>1, <5>1 DEF TypeOK, Row, Consent, RowsInv
        <5>3. QED BY <5>1, <5>2 DEF Request
      <4>2. QED BY <4>1
    <3>4. CASE ReadFriends(u)
      <4>1. snapshot' = [snapshot EXCEPT ![u] = [friends |-> FriendsOf(u), pending |-> s.pending]]
        <5>1. PICK x : x = FriendsOf(u)
          OBVIOUS
        <5>2. snapshot' = [snapshot EXCEPT ![u].friends = x]
          BY <3>4, <5>1 DEF ReadFriends
        <5>3. [s EXCEPT !.friends = x] = [friends |-> x, pending |-> s.pending]
          OBVIOUS
        <5>4. snapshot' = [snapshot EXCEPT ![u] = [s EXCEPT !.friends = x]]
          BY <3>1, <5>2
        <5>5. QED BY <5>1, <5>3, <5>4
      <4>2. HonestSnapshot(u, FriendsOf(u), s.pending)
        BY <3>1, <3>2 DEF HonestSnapshot
      <4>3. QED BY <3>1, <3>2, <4>1, <4>2
    <3>5. CASE ReadPending(u)
      <4>1. snapshot' = [snapshot EXCEPT ![u] = [friends |-> s.friends, pending |-> PendingOf(u)]]
        <5>1. PICK x : x = PendingOf(u)
          OBVIOUS
        <5>2. snapshot' = [snapshot EXCEPT ![u].pending = x]
          BY <3>5, <5>1 DEF ReadPending
        <5>3. [s EXCEPT !.pending = x] = [friends |-> s.friends, pending |-> x]
          OBVIOUS
        <5>4. snapshot' = [snapshot EXCEPT ![u] = [s EXCEPT !.pending = x]]
          BY <3>1, <5>2
        <5>5. QED BY <5>1, <5>3, <5>4
      <4>2. HonestSnapshot(u, s.friends, PendingOf(u))
        BY <3>1, <3>3 DEF HonestSnapshot
      <4>3. QED BY <3>1, <3>3, <4>1, <4>2
    <3>6. QED BY <1>6, <3>4, <3>5
  <2>4. PICK s \in [friends : SUBSET User, pending : SUBSET Request] :
          s = [friends |-> fs, pending |-> ps] /\ s.friends = fs /\ s.pending = ps
    <3>1. [friends |-> fs, pending |-> ps] \in [friends : SUBSET User, pending : SUBSET Request]
      OBVIOUS
    <3>2. QED BY <3>1
  <2>5. snapshot' = [snapshot EXCEPT ![u] = s]
    BY <2>3, <2>4
  <2>6. ReadInv'
    <3>1. \A w \in User : HonestSnapshot(w, snapshot[w].friends, snapshot[w].pending)'
      <4>1. ASSUME NEW w \in User
            PROVE  HonestSnapshot(w, snapshot'[w].friends, snapshot'[w].pending)
        <5>1. CASE w = u
          BY <1>1, <2>3, <2>4, <2>5, <5>1 DEF TypeOK
        <5>2. CASE w # u
          <6>1. snapshot'[w] = snapshot[w]
            BY <1>1, <2>5, <5>2 DEF TypeOK
          <6>2. QED BY <1>1, <6>1 DEF Consent, ReadInv
        <5>3. QED BY <5>1, <5>2
      <4>2. QED BY <1>2, <4>1 DEF HonestSnapshot, Linked
    <3>2. QED BY <3>1 DEF ReadInv
  <2>7. read' \in [User -> SUBSET {"friends", "pending"}]
    <3>1. PICK what \in {"friends", "pending"} : read' = [read EXCEPT ![u] = read[u] \cup {what}]
      BY <1>6 DEF ReadFriends, ReadPending, Reads
    <3>2. QED BY <1>1, <3>1 DEF TypeOK
  <2>8. snapshot' \in [User -> [friends : SUBSET User, pending : SUBSET Request]]
    BY <1>1, <2>5 DEF TypeOK
  <2>9. TypeOK'
    BY <1>1, <1>2, <2>1, <2>7, <2>8 DEF TypeOK, lists
  <2>10. SocketInv'
    BY <1>1, <2>1 DEF SocketInv
  <2>11. QED BY <1>4, <2>2, <2>6, <2>9, <2>10 DEF IInv, Consent
<1>7. CASE AuthOk(u)
  <2>1. UNCHANGED <<jobs, lists, socket, events>>
    BY <1>7 DEF AuthOk
  <2>2. JobsInv' /\ ListsInv'
    BY <1>1, <1>3, <2>1, Frame
  <2>3. NothingRead \in [friends : SUBSET User, pending : SUBSET Request]
        /\ NothingRead.friends = {} /\ NothingRead.pending = {}
    BY DEF NothingRead
  <2>4. snapshot' = [snapshot EXCEPT ![u] = NothingRead]
    BY <1>7 DEF AuthOk
  <2>5. ReadInv'
    BY <1>1, <1>3, <2>3, <2>4, ForgottenIsHonest
  <2>6. PICK fs \in SUBSET User, ps \in SUBSET Request :
          snapshot[u] = [friends |-> fs, pending |-> ps] /\ HonestSnapshot(u, fs, ps)
    BY <1>1 DEF TypeOK, Consent, ReadInv
  <2>7. PICK e \in Told(u) : e = [type |-> "auth_ok", friends |-> snapshot[u].friends,
                                 pending |-> snapshot[u].pending]
    <3>1. PICK e \in Event :
            /\ e = [type |-> "auth_ok", friends |-> fs, pending |-> ps]
            /\ e.type = "auth_ok" /\ e.friends = fs /\ e.pending = ps
      <4>1. [type |-> "auth_ok", friends |-> fs, pending |-> ps] \in Event
        BY DEF Event
      <4>2. QED BY <4>1
    <3>2. Honest(u, e)
      BY <2>6, <3>1 DEF Honest
    <3>3. QED BY <2>6, <3>1, <3>2 DEF Told
  <2>8. inbox[u] \in Seq(Told(u)) /\ queue[u] \in Seq(Told(u))
    BY <1>1 DEF Consent, ToldInv
  <2>9. PICK s \in Seq(Told(u)) : inbox' = [inbox EXCEPT ![u] = inbox[u] \o s \o <<e>>]
    <3>1. PICK old \in 0..Len(queue[u]) :
            inbox' = [inbox EXCEPT ![u] = inbox[u] \o SubSeq(queue[u], old + 1, Len(queue[u]))
                                            \o <<e>>]
      BY <1>7, <2>7 DEF AuthOk
    <3>2. SubSeq(queue[u], old + 1, Len(queue[u])) \in Seq(Told(u))
      BY <2>8
    <3>3. QED BY <3>1, <3>2
  <2>10. PICK t \in Seq(Told(u)) : t = inbox[u] \o s \o <<e>>
    <3>1. inbox[u] \o s \o <<e>> \in Seq(Told(u))
      BY <2>8
    <3>2. QED BY <3>1
  <2>11. inbox' = [inbox EXCEPT ![u] = t] /\ queue' = [queue EXCEPT ![u] = <<>>]
    BY <1>7, <2>9, <2>10 DEF AuthOk
  <2>12. t \in Seq(Event) /\ <<>> \in Seq(Event) /\ <<>> \in Seq(Told(u))
    <3>1. t \in Seq(Event)
      BY ToldTypes
    <3>2. QED BY <3>1
  <2>13. inbox' \in [User -> Seq(Event)] /\ queue' \in [User -> Seq(Event)]
    BY <1>1, <2>11, <2>12 DEF TypeOK
  <2>14. ToldInv'
    BY <1>1, <1>3, <2>11, <2>12, InboxKeeps
  <2>15. /\ link' \in [User -> {"off", "joining", "on"}]
         /\ read' \in [User -> SUBSET {"friends", "pending"}]
         /\ snapshot' \in [User -> [friends : SUBSET User, pending : SUBSET Request]]
    BY <1>1, <1>7, <2>3, <2>4 DEF AuthOk, TypeOK
  <2>16. TypeOK'
    BY <1>1, <1>2, <1>7, <2>1, <2>13, <2>15 DEF AuthOk, TypeOK, lists
  <2>17. SocketInv'
    BY <1>1, <2>1 DEF SocketInv
  <2>18. QED BY <1>4, <2>2, <2>5, <2>14, <2>16, <2>17 DEF IInv, Consent
<1>8. CASE Drop(u)
  <2>1. jobs' \in SUBSET jobs /\ UNCHANGED <<queue, missed>>
    BY <1>8 DEF Drop
  <2>2. JobsInv'
    BY <1>1, <1>3, <2>1, Frame
  <2>3. NothingRead \in [friends : SUBSET User, pending : SUBSET Request]
        /\ NothingRead.friends = {} /\ NothingRead.pending = {}
    BY DEF NothingRead
  <2>4. snapshot' = [snapshot EXCEPT ![u] = NothingRead]
    BY <1>8 DEF Drop
  <2>5. ReadInv'
    BY <1>1, <1>3, <2>3, <2>4, ForgottenIsHonest
  <2>6. inbox' = [inbox EXCEPT ![u] = <<>>] /\ <<>> \in Seq(Told(u)) /\ <<>> \in Seq(Event)
    BY <1>8 DEF Drop
  <2>7. inbox' \in [User -> Seq(Event)]
    BY <1>1, <2>6 DEF TypeOK
  <2>8. ToldInv'
    BY <1>1, <1>3, <2>1, <2>6, InboxKeeps
  <2>9. /\ incoming' \in [User -> SUBSET Request] /\ outgoing' \in [User -> SUBSET Request]
        /\ \A w \in User : incoming'[w] \subseteq incoming[w]
    BY <1>1, <1>8 DEF Drop, TypeOK
  <2>10. ListsInv'
    BY <1>1, <1>2, <1>3, <2>9, LinkedGrows DEF ListsInv, Consent
  <2>11. events' = events + 1 /\ events' \in 0..MaxEvents
    BY <1>1, <1>8, MaxEventsAssumption DEF Drop, TypeOK
  <2>12. socket' = [socket EXCEPT ![u] = socket[u] + 1] /\ socket[u] \in 0..MaxEvents
    BY <1>1, <1>8 DEF Drop, TypeOK
  <2>13. ASSUME NEW w \in User PROVE socket'[w] \in 0..MaxEvents /\ socket'[w] <= events'
    BY <1>1, <2>11, <2>12, MaxEventsAssumption DEF TypeOK, SocketInv
  <2>14. SocketInv'
    BY <2>13 DEF SocketInv
  <2>15. socket' \in [User -> 0..MaxEvents]
    BY <1>1, <2>12, <2>13 DEF TypeOK
  <2>16. /\ link' \in [User -> {"off", "joining", "on"}]
         /\ read' \in [User -> SUBSET {"friends", "pending"}]
         /\ snapshot' \in [User -> [friends : SUBSET User, pending : SUBSET Request]]
    BY <1>1, <1>8, <2>3, <2>4 DEF Drop, TypeOK
  <2>17. TypeOK'
    BY <1>1, <1>2, <2>1, <2>7, <2>9, <2>11, <2>15, <2>16 DEF TypeOK
  <2>18. QED BY <1>4, <2>2, <2>5, <2>8, <2>10, <2>14, <2>17 DEF IInv, Consent
<1>9. QED BY <1>5, <1>6, <1>7, <1>8 DEF Authenticates

LEMMA HearKeeps == ASSUME IInv, NEW u \in User, Hears(u) PROVE IInv'
<1>1. TypeOK /\ SocketInv /\ Consent
  BY DEF IInv
<1>2. /\ UNCHANGED <<database, jobs, session, queue, missed, consent, events>>
      /\ inbox[u] # <<>> /\ inbox' = [inbox EXCEPT ![u] = Tail(inbox[u])]
  BY DEF Hears, OnRequest, OnFriendAccept, OnDecision, OnRemove, OnAuthOk, Takes
<1>3. /\ UNCHANGED <<database, friendships, jobs, queue, snapshot, socket, events, wanted, agreed>>
      /\ wanted \subseteq wanted' /\ agreed \subseteq agreed'
  BY <1>2 DEF database, session, consent
<1>4. friendships' \subseteq (wanted \cap agreed)' /\ RowsInv' /\ JobsInv' /\ ReadInv'
  BY <1>1, <1>3, Frame
<1>5. inbox[u] \in Seq(Told(u))
  BY <1>1 DEF Consent, ToldInv
<1>6. PICK e \in Told(u) : e = Head(inbox[u])
  BY <1>2, <1>5
<1>7. PICK rest \in Seq(Told(u)) : rest = Tail(inbox[u])
  <2>1. Tail(inbox[u]) \in Seq(Told(u))
    BY <1>2, <1>5
  <2>2. QED BY <2>1
<1>8. ToldInv'
  BY <1>1, <1>2, <1>3, <1>7, InboxKeeps
<1>9. inbox' \in [User -> Seq(Event)]
  <2>1. rest \in Seq(Event)
    BY ToldTypes
  <2>2. QED BY <1>1, <1>2, <1>7, <2>1 DEF TypeOK
<1>10. e \in Event /\ Honest(u, e)
  BY DEF Told
<1>11. ASSUME friends' \in [User -> SUBSET User], incoming' \in [User -> SUBSET Request],
              outgoing' \in [User -> SUBSET Request],
              \A w \in User : \A v \in friends'[w] : v \in friends[w] \/ (w = u /\ Linked(u, v)),
              \A w \in User : \A r \in incoming'[w] :
                r \in incoming[w] \/ (w = u /\ r.pair \in wanted /\ r.pair[2] = u)
       PROVE  IInv'
  <2>1. ListsInv'
    BY <1>1, <1>3, <1>11, LinkedGrows DEF Consent, ListsInv
  <2>2. TypeOK'
    BY <1>1, <1>2, <1>9, <1>11 DEF TypeOK, database, session, consent
  <2>3. SocketInv'
    BY <1>1, <1>3 DEF SocketInv
  <2>4. QED BY <1>4, <1>8, <2>1, <2>2, <2>3 DEF IInv, Consent
<1>12. CASE OnRequest(u)
  <2>1. e.type \in {"friend_request", "done_request"}
    BY <1>6, <1>12 DEF OnRequest, Takes
  <2>2. e.pair \in Pair /\ e.n \in 0..MaxEvents /\ e.pair \in wanted
    BY <1>10, <2>1 DEF Event, Honest
  <2>3. PICK r \in Request : r = Named(e) /\ r.pair = e.pair
    <3>1. [pair |-> e.pair, n |-> e.n] \in Request
      BY <2>2 DEF Request
    <3>2. QED BY <3>1 DEF Named
  <2>4. /\ UNCHANGED friends
        /\ \/ r.pair[2] = u /\ incoming' = [incoming EXCEPT ![u] = incoming[u] \cup {r}]
             /\ UNCHANGED outgoing
           \/ outgoing' = [outgoing EXCEPT ![u] = outgoing[u] \cup {r}] /\ UNCHANGED incoming
    BY <1>6, <1>12, <2>3 DEF OnRequest
  <2>5. /\ friends' \in [User -> SUBSET User] /\ incoming' \in [User -> SUBSET Request]
        /\ outgoing' \in [User -> SUBSET Request]
    <3>1. /\ incoming \in [User -> SUBSET Request] /\ outgoing \in [User -> SUBSET Request]
          /\ friends \in [User -> SUBSET User]
      BY <1>1 DEF TypeOK
    <3>2. PICK in \in SUBSET Request, out \in SUBSET Request :
            in = incoming[u] \cup {r} /\ out = outgoing[u] \cup {r}
      BY <3>1
    <3>3. /\ UNCHANGED friends
          /\ \/ incoming' = [incoming EXCEPT ![u] = in] /\ UNCHANGED outgoing
             \/ outgoing' = [outgoing EXCEPT ![u] = out] /\ UNCHANGED incoming
      BY <2>4, <3>2
    <3>4. QED BY <3>1, <3>3
  <2>6. \A w \in User : \A i \in incoming'[w] :
          i \in incoming[w] \/ (w = u /\ i.pair \in wanted /\ i.pair[2] = u)
    BY <1>1, <2>2, <2>3, <2>4 DEF TypeOK
  <2>7. QED BY <1>11, <2>4, <2>5, <2>6
<1>13. CASE OnFriendAccept(u)
  <2>1. e.type = "friend_accept" /\ e.type # "auth_ok"
    BY <1>6, <1>13 DEF OnFriendAccept, Takes
  <2>2. e.pair \in Pair /\ e.pair \in wanted \cap agreed /\ u \in {e.pair[1], e.pair[2]}
    BY <1>10, <2>1 DEF Event, Honest
  <2>3. PICK v \in User : v = Other(e.pair, u) /\ Linked(u, v)
    BY <2>2 DEF Other, Pair, Linked, Both, Reverse
  <2>4. /\ friends' = [friends EXCEPT ![u] = friends[u] \cup {v}]
        /\ outgoing' = [outgoing EXCEPT ![u] = {r \in outgoing[u] : r.pair[2] # v}]
        /\ UNCHANGED incoming
    BY <1>6, <1>13, <2>3 DEF OnFriendAccept
  <2>5. /\ friends' \in [User -> SUBSET User] /\ incoming' \in [User -> SUBSET Request]
        /\ outgoing' \in [User -> SUBSET Request]
    <3>1. outgoing' \in [User -> SUBSET Request]
      BY <1>1, <2>4 DEF TypeOK
    <3>2. friends' \in [User -> SUBSET User] /\ UNCHANGED incoming
      BY <1>1, <2>4 DEF TypeOK
    <3>3. QED BY <1>1, <3>1, <3>2 DEF TypeOK
  <2>6. \A w \in User : \A x \in friends'[w] : x \in friends[w] \/ (w = u /\ Linked(u, x))
    BY <1>1, <2>3, <2>4 DEF TypeOK
  <2>7. QED BY <1>11, <2>4, <2>5, <2>6
<1>14. CASE OnDecision(u)
  <2>1. /\ UNCHANGED friends
        /\ incoming' = [incoming EXCEPT ![u] = incoming[u] \ {Named(e)}]
        /\ outgoing' = [outgoing EXCEPT ![u] = outgoing[u] \ {Named(e)}]
    BY <1>6, <1>14 DEF OnDecision
  <2>2. /\ friends' \in [User -> SUBSET User] /\ incoming' \in [User -> SUBSET Request]
        /\ outgoing' \in [User -> SUBSET Request]
        /\ \A w \in User : incoming'[w] \subseteq incoming[w]
    BY <1>1, <2>1 DEF TypeOK
  <2>3. QED BY <1>11, <2>1, <2>2
<1>15. CASE OnRemove(u)
  <2>1. /\ UNCHANGED <<incoming, outgoing>>
        /\ friends' = [friends EXCEPT ![u] = friends[u] \ {e.pair[2]}]
    BY <1>6, <1>15 DEF OnRemove
  <2>2. /\ friends' \in [User -> SUBSET User] /\ incoming' \in [User -> SUBSET Request]
        /\ outgoing' \in [User -> SUBSET Request]
        /\ \A w \in User : friends'[w] \subseteq friends[w]
    BY <1>1, <2>1 DEF TypeOK
  <2>3. QED BY <1>11, <2>1, <2>2
<1>16. CASE OnAuthOk(u)
  <2>1. e.type = "auth_ok"
    BY <1>6, <1>16 DEF OnAuthOk, Takes
  <2>2. PICK fs \in SUBSET User, ps \in SUBSET Request : e.friends = fs /\ e.pending = ps
    BY <1>10, <2>1 DEF Event
  <2>3. (\A v \in fs : Linked(u, v)) /\ (\A r \in ps : r.pair \in wanted)
    BY <1>10, <2>1, <2>2 DEF Honest, HonestSnapshot
  <2>4. /\ friends' = [friends EXCEPT ![u] = friends[u] \cup fs]
        /\ incoming' = [incoming EXCEPT ![u] = incoming[u] \cup {r \in ps : r.pair[2] = u}]
        /\ outgoing' = [outgoing EXCEPT ![u] = outgoing[u] \cup {r \in ps : r.pair[1] = u}]
    BY <1>6, <1>16, <2>2 DEF OnAuthOk
  <2>5. /\ friends' \in [User -> SUBSET User] /\ incoming' \in [User -> SUBSET Request]
        /\ outgoing' \in [User -> SUBSET Request]
    BY <1>1, <2>4 DEF TypeOK
  <2>6. \A w \in User : \A v \in friends'[w] : v \in friends[w] \/ (w = u /\ Linked(u, v))
    BY <1>1, <2>3, <2>4 DEF TypeOK
  <2>7. \A w \in User : \A i \in incoming'[w] :
          i \in incoming[w] \/ (w = u /\ i.pair \in wanted /\ i.pair[2] = u)
    BY <1>1, <2>3, <2>4 DEF TypeOK
  <2>8. QED BY <1>11, <2>5, <2>6, <2>7
<1>17. QED BY <1>12, <1>13, <1>14, <1>15, <1>16 DEF Hears

-----------------------------------------------------------------------------
(* Theorems *)

LEMMA NextInv == IInv /\ [Next]_vars => IInv'
<1> SUFFICES ASSUME IInv, [Next]_vars PROVE IInv'
  OBVIOUS
<1>1. ASSUME NEW u \in User, Asks(u) \/ Authenticates(u) \/ Hears(u) PROVE IInv'
  BY <1>1, AskKeeps, AuthKeeps, HearKeeps
<1>2. ASSUME NEW j \in jobs, Handles(j) PROVE IInv'
  BY <1>2, FindKeeps, WriteKeeps, TellKeeps DEF Handles
<1>3. CASE UNCHANGED vars
  <2>1. /\ UNCHANGED <<rows, friendships, jobs, link, socket, read, snapshot, queue, inbox,
                       friends, incoming, outgoing, missed, wanted, agreed, events>>
        /\ UNCHANGED <<database, lists>>
    BY <1>3 DEF vars, database, session, lists, consent
  <2>2. TypeOK' /\ SocketInv'
    BY <2>1 DEF IInv, TypeOK, SocketInv
  <2>3. Consent'
    <3>1. Consent
      BY DEF IInv
    <3>2. QED BY <2>1, <3>1, Frame DEF Consent
  <2>4. QED BY <2>2, <2>3 DEF IInv
<1>4. QED BY <1>1, <1>2, <1>3 DEF Next

THEOREM Invariant == Spec => []IInv
BY InitInv, NextInv, PTL DEF Spec

\* Every variable keeps its type: rows name events that happened, what clients
\* and handlers carry about is well-formed.
THEOREM TypeCorrect == Spec => []TypeOK
<1>1. IInv => TypeOK
  BY DEF IInv
<1>2. QED BY <1>1, Invariant, PTL

\* friend-service.js and friends.py: nobody is anybody's friend without one of
\* them having asked and the other having accepted, whatever is overtaken, lost
\* or repeated.
THEOREM BefriendedByConsent == Spec => []ConsentFirst
<1>1. ASSUME IInv PROVE ConsentFirst
  <2>1. ASSUME NEW u \in User, NEW v \in friends[u]
        PROVE  Both(<<u, v>>) \cap wanted \cap agreed # {}
    BY <1>1 DEF IInv, Consent, ListsInv, Linked
  <2>2. QED BY <1>1, <2>1 DEF IInv, Consent, ConsentFirst
<1>2. QED BY <1>1, Invariant, PTL

\* friend-service.js: an accepted request has its friendship, in whatever order
\* the transactions of both users commit.
THEOREM TablesAgree == Spec => []AcceptedIsFriend
<1>1. IInv => AcceptedIsFriend
  BY DEF IInv, Consent, RowsInv, AcceptedIsFriend
<1>2. QED BY <1>1, Invariant, PTL

-----------------------------------------------------------------------------
(* Requests that are pending, on their way to who is to decide *)

Elements(s) == {s[i] : i \in DOMAIN s}

LEMMA ElementsNone == Elements(<<>>) = {}
<1>1. DOMAIN <<>> = {}
  OBVIOUS
<1>2. QED BY <1>1 DEF Elements

LEMMA ElementsOne == ASSUME NEW x PROVE Elements(<<x>>) = {x}
<1>1. DOMAIN <<x>> = {1} /\ <<x>>[1] = x
  OBVIOUS
<1>2. QED BY <1>1 DEF Elements

LEMMA ElementsTwo == ASSUME NEW x, NEW y PROVE Elements(<<x, y>>) = {x, y}
<1>1. DOMAIN <<x, y>> = {1, 2} /\ <<x, y>>[1] = x /\ <<x, y>>[2] = y
  OBVIOUS
<1>2. QED BY <1>1 DEF Elements

LEMMA ElementsTail ==
  ASSUME NEW S, NEW s \in Seq(S), s # <<>>
  PROVE  Elements(s) = {Head(s)} \cup Elements(Tail(s))
<1>1. /\ DOMAIN s = 1 .. Len(s) /\ Len(s) \in Nat \ {0} /\ Head(s) = s[1]
      /\ DOMAIN Tail(s) = 1 .. Len(s) - 1
      /\ \A i \in DOMAIN Tail(s) : Tail(s)[i] = s[i + 1]
  OBVIOUS
<1>2. /\ 1 \in DOMAIN s
      /\ \A i \in DOMAIN Tail(s) : i + 1 \in DOMAIN s /\ Tail(s)[i] = s[i + 1]
      /\ \A i \in DOMAIN s : i = 1 \/ (i - 1 \in DOMAIN Tail(s) /\ Tail(s)[i - 1] = s[i])
  BY <1>1
<1>3. ASSUME NEW x \in Elements(s) PROVE x \in {Head(s)} \cup Elements(Tail(s))
  <2>1. PICK i \in DOMAIN s : x = s[i]
    BY DEF Elements
  <2>2. CASE i = 1
    BY <1>1, <2>1, <2>2
  <2>3. CASE i # 1
    <3>1. i - 1 \in DOMAIN Tail(s) /\ Tail(s)[i - 1] = x
      BY <1>2, <2>1, <2>3
    <3>2. QED BY <3>1, Zenon DEF Elements
  <2>4. QED BY <2>2, <2>3
<1>4. ASSUME NEW x \in Elements(Tail(s)) PROVE x \in Elements(s)
  <2>1. PICK i \in DOMAIN Tail(s) : x = Tail(s)[i]
    BY DEF Elements
  <2>2. PICK k \in DOMAIN s : x = s[k]
    BY <1>2, <2>1
  <2>3. QED BY <2>2, Zenon DEF Elements
<1>5. Head(s) \in Elements(s)
  BY <1>1, <1>2, Zenon DEF Elements
<1>6. QED BY <1>3, <1>4, <1>5

LEMMA ElementsJoin ==
  ASSUME NEW S, NEW s \in Seq(S), NEW t \in Seq(S)
  PROVE  Elements(s \o t) = Elements(s) \cup Elements(t)
<1>1. /\ DOMAIN s = 1 .. Len(s) /\ DOMAIN t = 1 .. Len(t) /\ Len(s) \in Nat /\ Len(t) \in Nat
      /\ DOMAIN (s \o t) = 1 .. Len(s) + Len(t)
      /\ \A i \in DOMAIN (s \o t) : (s \o t)[i] = IF i <= Len(s) THEN s[i] ELSE t[i - Len(s)]
  OBVIOUS
<1>2. /\ \A i \in DOMAIN s : i \in DOMAIN (s \o t) /\ (s \o t)[i] = s[i]
      /\ \A i \in DOMAIN t : Len(s) + i \in DOMAIN (s \o t) /\ (s \o t)[Len(s) + i] = t[i]
      /\ \A i \in DOMAIN (s \o t) : \/ i \in DOMAIN s /\ (s \o t)[i] = s[i]
                                    \/ i - Len(s) \in DOMAIN t /\ (s \o t)[i] = t[i - Len(s)]
  BY <1>1
<1>3. ASSUME NEW x \in Elements(s \o t) PROVE x \in Elements(s) \cup Elements(t)
  <2>1. PICK i \in DOMAIN (s \o t) : x = (s \o t)[i]
    BY Zenon DEF Elements
  <2>2. (\E k \in DOMAIN s : x = s[k]) \/ (\E k \in DOMAIN t : x = t[k])
    BY <1>2, <2>1
  <2>3. QED BY <2>2, Zenon DEF Elements
<1>4. ASSUME NEW x \in Elements(s) \cup Elements(t) PROVE x \in Elements(s \o t)
  <2>1. (\E k \in DOMAIN s : x = s[k]) \/ (\E k \in DOMAIN t : x = t[k])
    BY Zenon DEF Elements
  <2>2. PICK i \in DOMAIN (s \o t) : x = (s \o t)[i]
    BY <1>2, <2>1
  <2>3. QED BY <2>2, Zenon DEF Elements
<1>5. QED BY <1>3, <1>4

LEMMA ElementsKept ==
  ASSUME NEW S, NEW s \in Seq(S), NEW n \in 0 .. Len(s), NEW k, k = SubSeq(s, n + 1, Len(s))
  PROVE  k \in Seq(S) /\ Elements(k) \subseteq Elements(s)
<1>1. /\ DOMAIN k = 1 .. Len(s) - n /\ DOMAIN s = 1 .. Len(s) /\ Len(s) \in Nat
      /\ \A i \in DOMAIN k : k[i] = s[n + i]
      /\ k \in Seq(S)
  OBVIOUS
<1>2. \A i \in DOMAIN k : n + i \in DOMAIN s /\ k[i] = s[n + i]
  BY <1>1
<1>3. QED BY <1>1, <1>2 DEF Elements

-----------------------------------------------------------------------------
(* Rows and their numbers *)

\* A request that may still insert its row.
Fresh(j) == j.op = "request" /\ j.step \in {"sent", "insert"}

\* No row of p will get the number n any more.
Used(p, n) == n \in 0 .. events /\ \A j \in jobs : Fresh(j) /\ j.pair = p => j.k # n

\* And it is not that of a pending one.
Over(p, n) == p \in Pair /\ Used(p, n) /\ ~(rows[p].status = "pending" /\ rows[p].n = n)

\* What a client may be told of requests.
Sound(e) ==
  /\ e.type \in {"friend_request", "done_request"} => Used(e.pair, e.n)
  /\ e.type \in {"friend_reject", "done_accept", "done_reject"} => Over(e.pair, e.n)
  /\ e.type = "auth_ok" => \A r \in e.pending : Used(r.pair, r.n)

JobBook(j) ==
  /\ Fresh(j) => j.user = j.pair[1]
  /\ j.op = "request" /\ ~Fresh(j) => Used(j.pair, j.n)
  /\ j.op \in {"accept", "reject"} =>
       /\ j.user = j.pair[2] /\ Used(j.pair, j.n)
       /\ j.step = "written" => Over(j.pair, j.n)

KeysBook ==
  /\ \A j \in jobs : j.k \in 1 .. events
  /\ \A i, j \in jobs : i.k = j.k => i = j

RowBook   == \A p \in Pair : Used(p, rows[p].n)
JobsBook  == \A j \in jobs : JobBook(j)
LinkBook  == \A u \in User : link[u] # "joining" => read[u] = {}
ListBook  == \A u \in User : \A r \in incoming[u] : Used(r.pair, r.n)
SnapBook  == \A u \in User : \A r \in snapshot[u].pending : Used(r.pair, r.n)
MailBook  == \A u \in User : \A e \in Elements(inbox[u]) \cup Elements(queue[u]) : Sound(e)

\* A pending request, as its addressee is to see it.
Asked(p) == [pair |-> p, n |-> rows[p].n]

Says(e, r) ==
  \/ e.type \in {"friend_request", "done_request"} /\ Named(e) = r
  \/ e.type = "auth_ok" /\ r \in e.pending

\* The addressee will be told at the next connection, or at the end of this one's start.
AtStart(u, r) ==
  \/ missed[u] \/ link[u] = "off"
  \/ link[u] = "joining" /\ ("pending" \notin read[u] \/ r \in snapshot[u].pending)

\* A handler is about to tell, or to do what the addressee decided.
Carries(j, p, n) ==
  /\ j.pair = p /\ j.n = n
  /\ \/ j.op = "request" /\ j.step = "written" /\ j.k = n /\ j.user = p[1]
     \/ j.op \in {"accept", "reject"} /\ j.step # "written" /\ j.user = p[2]

UnderWay(p, n) == \E j \in jobs : Carries(j, p, n)

Comes(u, r) == AtStart(u, r) \/ (\E e \in Elements(inbox[u]) : Says(e, r)) \/ r \in incoming[u]

ComingBook ==
  \A p \in Pair :
    rows[p].status = "pending" => UnderWay(p, rows[p].n) \/ Comes(p[2], Asked(p))

Books ==
  /\ KeysBook /\ RowBook /\ JobsBook /\ LinkBook /\ ListBook /\ SnapBook /\ MailBook
  /\ ComingBook

ShownInv == IInv /\ Books

LEMMA BooksInit == Init => Books
<1> SUFFICES ASSUME Init PROVE Books
  OBVIOUS
<1>1. /\ jobs = {} /\ events = 0 /\ \A p \in Pair : rows[p].n = 0 /\ rows[p].status = "none"
      /\ \A u \in User : /\ link[u] = "off" /\ read[u] = {} /\ incoming[u] = {}
                         /\ snapshot[u].pending = {} /\ inbox[u] = <<>> /\ queue[u] = <<>>
  BY DEF Init, NoRow, NothingRead
<1>2. KeysBook /\ RowBook /\ JobsBook /\ LinkBook /\ ListBook /\ SnapBook
  BY <1>1 DEF KeysBook, RowBook, Used, JobsBook, LinkBook, ListBook, SnapBook
<1>3. MailBook
  BY <1>1, ElementsNone DEF MailBook
<1>4. ComingBook
  BY <1>1 DEF ComingBook
<1>5. QED BY <1>2, <1>3, <1>4 DEF Books

LEMMA BooksImply == ShownInv => PendingIsShown
<1> SUFFICES ASSUME ShownInv, NEW p \in Pair, rows[p].status = "pending", UpToDate(p[2])
             PROVE  Asked(p) \in incoming[p[2]]
  BY DEF PendingIsShown, Asked
<1>1. jobs = {} /\ link[p[2]] = "on" /\ inbox[p[2]] = <<>> /\ ~missed[p[2]]
  BY DEF UpToDate
<1>2. ~UnderWay(p, rows[p].n) /\ ~AtStart(p[2], Asked(p))
  BY <1>1 DEF UnderWay, AtStart
<1>3. Elements(inbox[p[2]]) = {}
  BY <1>1, ElementsNone
<1>4. QED BY <1>2, <1>3 DEF ShownInv, Books, ComingBook, Comes

-----------------------------------------------------------------------------
(* What a step leaves *)

\* New numbers are new.
Later ==
  /\ events' \in {events, events + 1}
  /\ \A j \in jobs' :
       Fresh(j) => \/ \E i \in jobs : Fresh(i) /\ i.k = j.k /\ i.pair = j.pair
                   \/ j.k = events + 1

\* A row is pending as before, or was inserted.
RowsLater ==
  \A p \in Pair :
    rows'[p].status = "pending" =>
      \/ rows'[p] = rows[p]
      \/ \E j \in jobs : Fresh(j) /\ j.pair = p /\ j.k = rows'[p].n

LEMMA UsedStays ==
  ASSUME events \in Nat, Later, NEW p, NEW n, Used(p, n) PROVE Used(p, n)'
<1>1. n \in 0 .. events' /\ n # events + 1
  BY DEF Later, Used
<1>2. ASSUME NEW j \in jobs', Fresh(j), j.pair = p PROVE j.k # n
  BY <1>1, <1>2 DEF Later, Used
<1>3. QED BY <1>1, <1>2 DEF Used, Fresh

LEMMA OverStays ==
  ASSUME events \in Nat, Later, RowsLater, NEW p, NEW n, Over(p, n) PROVE Over(p, n)'
<1>1. Used(p, n) /\ Used(p, n)' /\ p \in Pair
  BY UsedStays DEF Over
<1>2. ~(rows'[p].status = "pending" /\ rows'[p].n = n)
  BY <1>1 DEF RowsLater, Used, Over
<1>3. QED BY <1>1, <1>2 DEF Over

LEMMA SoundStays ==
  ASSUME events \in Nat, Later, RowsLater, NEW e, Sound(e) PROVE Sound(e)'
BY UsedStays, OverStays DEF Sound

LEMMA JobStays ==
  ASSUME events \in Nat, Later, RowsLater, NEW j, JobBook(j) PROVE JobBook(j)'
<1>1. Fresh(j)' <=> Fresh(j)
  BY DEF Fresh
<1>2. QED BY <1>1, UsedStays, OverStays DEF JobBook

\* What a step that only adds numbers leaves as it was.
LEMMA Leaves ==
  ASSUME IInv, Books, Later, RowsLater
  PROVE  /\ UNCHANGED rows => RowBook'
         /\ jobs' \subseteq jobs => JobsBook'
         /\ UNCHANGED <<link, read>> => LinkBook'
         /\ (\A u \in User : incoming'[u] \subseteq incoming[u]) => ListBook'
         /\ UNCHANGED snapshot => SnapBook'
         /\ UNCHANGED <<inbox, queue>> => MailBook'
<1>1. events \in Nat
  BY MaxEventsAssumption DEF IInv, TypeOK
<1>2. UNCHANGED rows => RowBook'
  BY <1>1, UsedStays DEF Books, RowBook
<1>3. jobs' \subseteq jobs => JobsBook'
  BY <1>1, JobStays DEF Books, JobsBook
<1>4. UNCHANGED <<link, read>> => LinkBook'
  BY DEF Books, LinkBook
<1>5. (\A u \in User : incoming'[u] \subseteq incoming[u]) => ListBook'
  BY <1>1, UsedStays DEF Books, ListBook
<1>6. UNCHANGED snapshot => SnapBook'
  BY <1>1, UsedStays DEF Books, SnapBook
<1>7. UNCHANGED <<inbox, queue>> => MailBook'
  BY <1>1, SoundStays DEF Books, MailBook
<1>8. QED BY <1>2, <1>3, <1>4, <1>5, <1>6, <1>7

LEMMA SameRows == UNCHANGED rows => RowsLater
BY DEF RowsLater

LEMMA FewerJobs ==
  ASSUME KeysBook, events \in Nat, jobs' \subseteq jobs, events' \in {events, events + 1}
  PROVE  Later /\ KeysBook'
<1>1. Later
  BY DEF Later
<1>2. KeysBook'
  BY DEF KeysBook
<1>3. QED BY <1>1, <1>2

LEMMA NextStep ==
  ASSUME KeysBook, NEW j \in jobs, NEW i, Becomes(j, i), i.k = j.k, UNCHANGED events,
         Fresh(i) => Fresh(j) /\ i.pair = j.pair
  PROVE  Later /\ KeysBook'
<1>1. jobs' = (jobs \ {j}) \cup {i}
  BY DEF Becomes
<1>2. Later
  BY <1>1 DEF Later
<1>3. KeysBook'
  BY <1>1 DEF KeysBook
<1>4. QED BY <1>2, <1>3

-----------------------------------------------------------------------------
(* What users ask for *)

LEMMA SendBooks ==
  ASSUME IInv, Books, NEW u \in User, NEW op \in {"request", "accept", "reject", "remove"},
         NEW pair \in Pair, NEW n, Send(u, op, pair, n),
         op = "request" => u = pair[1],
         op \in {"accept", "reject"} => u = pair[2] /\ Used(pair, n),
         \A w \in User : incoming'[w] \subseteq incoming[w],
         \A p \in Pair :
           Asked(p) \in incoming[p[2]] =>
             \/ Asked(p) \in incoming'[p[2]]
             \/ op \in {"accept", "reject"} /\ pair = p /\ n = rows[p].n
  PROVE  Books'
<1>1. /\ events \in Nat /\ KeysBook /\ JobsBook
      /\ UNCHANGED <<rows, link, read, snapshot, queue, inbox, missed>>
  BY MaxEventsAssumption DEF IInv, TypeOK, Books, Send, database, session
<1>2. PICK j : /\ jobs' = jobs \cup {j} /\ j.k = events + 1 /\ j.user = u /\ j.op = op
               /\ j.pair = pair /\ j.n = n /\ j.step = "sent"
  <2>1. PICK j : j = [k |-> events + 1, user |-> u, socket |-> socket[u],
                      op |-> op, pair |-> pair, n |-> n, step |-> "sent"]
    OBVIOUS
  <2>2. QED BY <2>1 DEF Send
<1>3. events' = events + 1
  BY DEF Send
<1>4. Later
  BY <1>2, <1>3 DEF Later
<1>5. RowBook' /\ LinkBook' /\ ListBook' /\ SnapBook' /\ MailBook' /\ RowsLater
  BY <1>1, <1>4, SameRows, Leaves
<1>6. KeysBook'
  <2>1. \A i \in jobs : i.k \in 1 .. events' /\ i.k # j.k
    BY <1>1, <1>2, <1>3 DEF KeysBook
  <2>2. j.k \in 1 .. events'
    BY <1>1, <1>2, <1>3
  <2>3. QED BY <1>1, <1>2, <2>1, <2>2 DEF KeysBook
<1>7. JobsBook'
  <2>1. \A i \in jobs : JobBook(i)'
    BY <1>1, <1>4, <1>5, JobStays DEF JobsBook
  <2>2. op \in {"accept", "reject"} => Used(pair, n)'
    BY <1>1, <1>4, UsedStays
  <2>3. JobBook(j)'
    BY <1>2, <2>2 DEF JobBook, Fresh
  <2>4. QED BY <1>2, <2>1, <2>3 DEF JobsBook
<1>8. ComingBook'
  <2>1. ASSUME NEW p \in Pair, rows[p].status = "pending"
        PROVE  UnderWay(p, rows[p].n)' \/ Comes(p[2], Asked(p))'
    <3>1. Asked(p)' = Asked(p)
      BY <1>1 DEF Asked
    <3>2. CASE UnderWay(p, rows[p].n)
      BY <1>1, <1>2, <3>2 DEF UnderWay
    <3>3. CASE AtStart(p[2], Asked(p)) \/ \E e \in Elements(inbox[p[2]]) : Says(e, Asked(p))
      BY <1>1, <3>1, <3>3 DEF Comes, AtStart
    <3>4. CASE Asked(p) \in incoming[p[2]]
      <4>1. CASE Asked(p) \in incoming'[p[2]]
        BY <3>1, <4>1 DEF Comes
      <4>2. CASE op \in {"accept", "reject"} /\ pair = p /\ n = rows[p].n
        <5>1. j \in jobs' /\ j.pair = p /\ j.n = rows'[p].n /\ j.step # "written" /\ j.user = p[2]
              /\ j.op \in {"accept", "reject"}
          BY <1>1, <1>2, <4>2
        <5>2. QED BY <5>1 DEF UnderWay, Carries
      <4>3. QED BY <3>4, <4>1, <4>2
    <3>5. QED BY <2>1, <3>2, <3>3, <3>4 DEF Books, ComingBook, Comes
  <2>2. QED BY <1>1, <2>1 DEF ComingBook
<1>9. QED BY <1>5, <1>6, <1>7, <1>8 DEF Books

LEMMA AskBooks == ASSUME IInv, Books, NEW u \in User, Asks(u) PROVE Books'
<1>1. /\ incoming \in [User -> SUBSET Request] /\ ListsInv /\ ListBook
      /\ friends \in [User -> SUBSET User]
  BY DEF IInv, TypeOK, Consent, Books
<1>2. ASSUME NEW p \in Pair, p[1] = u, SendRequest(p) PROVE Books'
  <2>1. Send(u, "request", p, 0) /\ UNCHANGED incoming
    BY <1>2 DEF SendRequest, lists
  <2>2. QED BY <1>2, <2>1, SendBooks
<1>3. ASSUME NEW r \in incoming[u], AcceptRequest(u, r) \/ RejectRequest(u, r) PROVE Books'
  <2>1. r.pair \in Pair /\ r.pair[2] = u /\ Used(r.pair, r.n)
    BY <1>1 DEF Request, ListsInv, ListBook
  <2>2. /\ incoming' = [incoming EXCEPT ![u] = incoming[u] \ {r}]
        /\ \A w \in User : incoming'[w] \subseteq incoming[w]
    BY <1>1, <1>3 DEF AcceptRequest, RejectRequest
  <2>3. ASSUME NEW p \in Pair, Asked(p) \in incoming[p[2]], Asked(p) \notin incoming'[p[2]]
        PROVE  r.pair = p /\ r.n = rows[p].n
    <3>1. Asked(p) = r
      BY <1>1, <2>2, <2>3
    <3>2. QED BY <3>1 DEF Asked
  <2>4. CASE AcceptRequest(u, r)
    <3>1. Send(u, "accept", r.pair, r.n)
      BY <2>4 DEF AcceptRequest
    <3>2. QED BY <2>1, <2>2, <2>3, <3>1, SendBooks
  <2>5. CASE RejectRequest(u, r)
    <3>1. Send(u, "reject", r.pair, r.n)
      BY <2>5 DEF RejectRequest
    <3>2. QED BY <2>1, <2>2, <2>3, <3>1, SendBooks
  <2>6. QED BY <1>3, <2>4, <2>5
<1>4. ASSUME NEW v \in friends[u] \ {u}, RemoveFriend(u, v) PROVE Books'
  <2>1. Send(u, "remove", <<u, v>>, 0) /\ UNCHANGED incoming /\ <<u, v>> \in Pair
    BY <1>1, <1>4 DEF RemoveFriend, Pair
  <2>2. QED BY <2>1, SendBooks
<1>5. QED BY <1>2, <1>3, <1>4 DEF Asks

-----------------------------------------------------------------------------
(* What handlers do to the database *)

LEMMA WorkBooks ==
  ASSUME IInv, Books, Unread, Later, RowsLater, KeysBook', RowBook', JobsBook',
         \A p \in Pair :
           rows'[p].status = "pending" =>
             \/ UnderWay(p, rows[p].n)'
             \/ /\ rows'[p] = rows[p]
                /\ UnderWay(p, rows[p].n) => UnderWay(p, rows[p].n)'
  PROVE  Books'
<1>1. /\ UNCHANGED <<link, read, snapshot, queue, inbox, incoming, missed, events>>
      /\ ComingBook
  BY DEF Unread, session, lists, Books
<1>2. LinkBook' /\ ListBook' /\ SnapBook' /\ MailBook'
  BY <1>1, Leaves
<1>3. ComingBook'
  <2>1. ASSUME NEW p \in Pair, rows'[p].status = "pending", ~UnderWay(p, rows[p].n)'
        PROVE  Comes(p[2], Asked(p))'
    <3>1. rows'[p] = rows[p] /\ ~UnderWay(p, rows[p].n)
      BY <2>1
    <3>2. Comes(p[2], Asked(p))
      BY <1>1, <2>1, <3>1 DEF ComingBook
    <3>3. Asked(p)' = Asked(p)
      BY <3>1 DEF Asked
    <3>4. QED BY <1>1, <3>2, <3>3 DEF Comes, AtStart
  <2>2. QED BY <2>1 DEF ComingBook
<1>4. QED BY <1>2, <1>3 DEF Books

LEMMA StaysUnderWay ==
  ASSUME NEW j, jobs \ {j} \subseteq jobs', NEW p, NEW n, ~Carries(j, p, n), UnderWay(p, n)
  PROVE  UnderWay(p, n)'
BY DEF UnderWay, Carries

Same(i, j) == i.k = j.k /\ i.user = j.user /\ i.op = j.op /\ i.pair = j.pair

LEMMA Onward ==
  ASSUME NEW j \in Job, NEW step, NEW i, i = [j EXCEPT !.step = step]
  PROVE  Same(i, j) /\ i.step = step /\ i.n = j.n
BY DEF Job, Same

LEMMA OnwardAbout ==
  ASSUME NEW j \in Job, NEW p, NEW step
  PROVE  \E i : /\ i = About(j, p, step) /\ i.k = j.k /\ i.op = j.op /\ i.user = j.user
                /\ i.pair = p /\ i.n = rows[p].n /\ i.step = step
<1>1. PICK n : n = rows[p].n
  OBVIOUS
<1>2. PICK i : i = [j EXCEPT !.pair = p, !.n = n, !.step = step]
  OBVIOUS
<1>3. /\ i.k = j.k /\ i.op = j.op /\ i.user = j.user /\ i.pair = p /\ i.n = n /\ i.step = step
  BY <1>2 DEF Job
<1>4. QED BY <1>1, <1>2, <1>3 DEF About

LEMMA StepBooks ==
  ASSUME IInv, Books, RowsLater, Later, NEW j \in jobs, NEW i, Becomes(j, i), JobBook(i)'
  PROVE  JobsBook'
<1>1. events \in Nat /\ JobsBook /\ jobs' = (jobs \ {j}) \cup {i}
  BY MaxEventsAssumption DEF IInv, TypeOK, Books, Becomes
<1>2. \A k \in jobs : JobBook(k)'
  BY <1>1, JobStays DEF JobsBook
<1>3. QED BY <1>1, <1>2 DEF JobsBook

LEMMA FindBooks == ASSUME IInv, Books, NEW j \in jobs, ReadRequest(j) PROVE Books'
<1>1. /\ events \in Nat /\ KeysBook /\ JobBook(j) /\ RowBook /\ j \in Job /\ j.pair \in Pair
      /\ j.op = "request" /\ j.step = "sent" /\ UNCHANGED <<rows, events>> /\ Unread
  BY MaxEventsAssumption
     DEF IInv, TypeOK, Books, JobsBook, ReadRequest, Unread, database, Job
<1>2. RowsLater
  BY <1>1, SameRows
<1>3. PICK i :
        /\ Becomes(j, i) /\ i.k = j.k /\ i.user = j.user /\ i.op = j.op
        /\ \/ i.pair = j.pair /\ i.step = "insert"
           \/ /\ i.pair \in Pair /\ i.n = rows[i.pair].n
              /\ i.step \in {"repair", "written"}
  <2>1. CASE Becomes(j, [j EXCEPT !.step = "insert"])
    <3>1. PICK i : i = [j EXCEPT !.step = "insert"]
      OBVIOUS
    <3>2. Same(i, j) /\ i.step = "insert"
      BY <1>1, <3>1, Onward
    <3>3. QED BY <2>1, <3>1, <3>2 DEF Same
  <2>2. CASE Find(j)
    <3>1. PICK p \in Existing(j.pair), step \in {"repair", "written"} :
            Becomes(j, About(j, p, step))
      BY <2>2 DEF Find
    <3>2. p \in Pair
      BY <1>1, <3>1 DEF Existing, Both, Reverse, Pair
    <3>3. QED BY <1>1, <3>1, <3>2, OnwardAbout
  <2>3. QED BY <2>1, <2>2 DEF ReadRequest
<1>4. Fresh(i) => Fresh(j) /\ i.pair = j.pair
  BY <1>1, <1>3 DEF Fresh
<1>5. Later /\ KeysBook'
  BY <1>1, <1>3, <1>4, NextStep
<1>6. RowBook'
  BY <1>1, <1>2, <1>5, Leaves
<1>7. JobBook(i)'
  <2>1. CASE i.pair = j.pair /\ i.step = "insert"
    BY <1>1, <1>3, <2>1 DEF JobBook, Fresh
  <2>2. CASE i.pair \in Pair /\ i.n = rows[i.pair].n /\ i.step \in {"repair", "written"}
    <3>1. Used(i.pair, i.n)'
      BY <1>1, <1>5, <2>2, UsedStays DEF RowBook
    <3>2. QED BY <1>1, <1>3, <2>2, <3>1 DEF JobBook, Fresh
  <2>3. QED BY <1>3, <2>1, <2>2
<1>8. JobsBook'
  BY <1>2, <1>3, <1>5, <1>7, StepBooks
<1>9. ASSUME NEW p \in Pair, UnderWay(p, rows[p].n) PROVE UnderWay(p, rows[p].n)'
  <2>1. ~Carries(j, p, rows[p].n) /\ jobs \ {j} \subseteq jobs'
    BY <1>1, <1>3 DEF Carries, Becomes
  <2>2. QED BY <1>1, <1>9, <2>1, StaysUnderWay DEF UnderWay
<1>10. QED BY <1>1, <1>2, <1>5, <1>6, <1>8, <1>9, WorkBooks

LEMMA DecisionBooks == ASSUME IInv, Books, NEW j \in jobs, ReadDecision(j) PROVE Books'
<1>1. /\ events \in Nat /\ KeysBook /\ JobBook(j) /\ j \in Job
      /\ j.op \in {"accept", "reject"} /\ j.step = "sent" /\ UNCHANGED <<rows, events>> /\ Unread
  BY MaxEventsAssumption
     DEF IInv, TypeOK, Books, JobsBook, ReadDecision, Unread, database, Job
<1>2. RowsLater
  BY <1>1, SameRows
<1>3. CASE IsPending(j) /\ Becomes(j, [j EXCEPT !.step = "read"])
  <2>1. PICK i : i = [j EXCEPT !.step = "read"]
    OBVIOUS
  <2>2. Same(i, j) /\ i.step = "read" /\ i.n = j.n
    BY <1>1, <2>1, Onward
  <2>3. Becomes(j, i) /\ i.k = j.k /\ ~Fresh(i)
    BY <1>1, <1>3, <2>1, <2>2 DEF Same, Fresh
  <2>4. Later /\ KeysBook'
    BY <1>1, <2>3, NextStep
  <2>5. JobBook(i)'
    <3>1. Used(j.pair, j.n)'
      BY <1>1, <2>4, UsedStays DEF JobBook
    <3>2. QED BY <1>1, <2>2, <3>1 DEF JobBook, Same, Fresh
  <2>6. JobsBook' /\ RowBook'
    BY <1>1, <1>2, <2>3, <2>4, <2>5, StepBooks, Leaves
  <2>7. ASSUME NEW p \in Pair, UnderWay(p, rows[p].n) PROVE UnderWay(p, rows[p].n)'
    <3>1. CASE Carries(j, p, rows[p].n)
      <4>1. Carries(i, p, rows[p].n) /\ i \in jobs'
        BY <1>1, <2>2, <2>3, <3>1 DEF Carries, Same, Becomes
      <4>2. QED BY <1>1, <4>1 DEF UnderWay, Carries
    <3>2. CASE ~Carries(j, p, rows[p].n)
      <4>1. jobs \ {j} \subseteq jobs'
        BY <2>3 DEF Becomes
      <4>2. QED BY <1>1, <2>7, <3>2, <4>1, StaysUnderWay DEF UnderWay
    <3>3. QED BY <3>1, <3>2
  <2>8. QED BY <1>1, <1>2, <2>4, <2>6, <2>7, WorkBooks
<1>4. CASE ~IsPending(j) /\ jobs' = jobs \ {j}
  <2>1. Later /\ KeysBook'
    BY <1>1, <1>4, FewerJobs
  <2>2. JobsBook' /\ RowBook'
    BY <1>1, <1>2, <1>4, <2>1, Leaves
  <2>3. ASSUME NEW p \in Pair, rows[p].status = "pending", UnderWay(p, rows[p].n)
        PROVE  UnderWay(p, rows[p].n)'
    <3>1. ~Carries(j, p, rows[p].n)
      BY <1>4, <2>3 DEF Carries, IsPending
    <3>2. QED BY <1>1, <1>4, <2>3, <3>1, StaysUnderWay DEF UnderWay
  <2>4. QED BY <1>1, <1>2, <2>1, <2>2, <2>3, WorkBooks
<1>5. QED BY <1>3, <1>4 DEF ReadDecision

LEMMA InsertBooks == ASSUME IInv, Books, NEW j \in jobs, Insert(j) PROVE Books'
<1>1. /\ events \in Nat /\ KeysBook /\ JobBook(j) /\ RowBook /\ j \in Job /\ j.pair \in Pair
      /\ j.op = "request" /\ j.step = "insert" /\ UNCHANGED events /\ Unread /\ Fresh(j)
      /\ rows \in [Pair -> Row]
  BY MaxEventsAssumption DEF IInv, TypeOK, Books, JobsBook, Insert, Unread, Job, Fresh
<1>2. ASSUME NEW p, NEW n PROVE ~Carries(j, p, n)
  BY <1>1 DEF Carries
<1>3. CASE jobs' = jobs \ {j} /\ UNCHANGED rows
  <2>1. Later /\ KeysBook' /\ RowsLater
    BY <1>1, <1>3, FewerJobs, SameRows
  <2>2. JobsBook' /\ RowBook'
    BY <1>3, <2>1, Leaves
  <2>3. ASSUME NEW p \in Pair, UnderWay(p, rows[p].n) PROVE UnderWay(p, rows[p].n)'
    BY <1>2, <1>3, <2>3, StaysUnderWay DEF UnderWay
  <2>4. QED BY <1>1, <1>3, <2>1, <2>2, <2>3, WorkBooks
<1>4. CASE /\ rows' = [rows EXCEPT ![j.pair] = [n |-> j.k, status |-> "pending"]]
           /\ Becomes(j, [j EXCEPT !.n = j.k, !.step = "written"])
  <2>1. PICK i : i = [j EXCEPT !.n = j.k, !.step = "written"]
    OBVIOUS
  <2>2. Same(i, j) /\ i.step = "written" /\ i.n = j.k
    BY <1>1, <2>1 DEF Job, Same
  <2>3. Becomes(j, i) /\ i.k = j.k /\ ~Fresh(i) /\ jobs' = (jobs \ {j}) \cup {i}
    BY <1>1, <1>4, <2>1, <2>2 DEF Same, Fresh, Becomes
  <2>4. Later /\ KeysBook'
    BY <1>1, <2>3, NextStep
  <2>5. /\ rows'[j.pair].n = j.k
        /\ \A p \in Pair : p # j.pair => rows'[p] = rows[p]
    BY <1>1, <1>4
  <2>6. RowsLater
    BY <1>1, <2>5 DEF RowsLater
  <2>7. Used(j.pair, j.k)'
    <3>1. j.k \in 0 .. events'
      BY <1>1 DEF KeysBook
    <3>2. ASSUME NEW h \in jobs', Fresh(h) PROVE h.k # j.k
      BY <1>1, <2>3, <3>2 DEF KeysBook
    <3>3. QED BY <3>1, <3>2 DEF Used, Fresh
  <2>8. JobBook(i)'
    BY <1>1, <2>2, <2>7 DEF JobBook, Same, Fresh
  <2>9. JobsBook'
    BY <2>3, <2>4, <2>6, <2>8, StepBooks
  <2>10. RowBook'
    <3>1. ASSUME NEW p \in Pair PROVE Used(p, rows[p].n)'
      <4>1. CASE p = j.pair
        BY <2>5, <2>7, <4>1 DEF Used, Fresh
      <4>2. CASE p # j.pair
        <5>1. Used(p, rows[p].n) /\ rows'[p] = rows[p]
          BY <1>1, <2>5, <4>2 DEF RowBook
        <5>2. PICK n : n = rows[p].n /\ Used(p, n)
          BY <5>1
        <5>3. Used(p, n)'
          BY <1>1, <2>4, <5>2, UsedStays
        <5>4. QED BY <5>1, <5>2, <5>3 DEF Used, Fresh
      <4>3. QED BY <4>1, <4>2
    <3>2. QED BY <3>1 DEF RowBook
  <2>11. ASSUME NEW p \in Pair
         PROVE  \/ UnderWay(p, rows[p].n)'
                \/ /\ rows'[p] = rows[p]
                   /\ UnderWay(p, rows[p].n) => UnderWay(p, rows[p].n)'
    <3>1. CASE p = j.pair
      <4>1. Carries(i, p, rows'[p].n) /\ i \in jobs'
        BY <1>1, <2>2, <2>3, <2>5, <3>1 DEF Carries, Same, JobBook
      <4>2. QED BY <4>1 DEF UnderWay, Carries
    <3>2. CASE p # j.pair
      <4>1. rows'[p] = rows[p]
        BY <2>5, <3>2
      <4>2. ASSUME UnderWay(p, rows[p].n) PROVE UnderWay(p, rows[p].n)'
        BY <1>2, <2>3, <4>1, <4>2, StaysUnderWay DEF UnderWay
      <4>3. QED BY <4>1, <4>2
    <3>3. QED BY <3>1, <3>2
  <2>12. QED BY <1>1, <2>4, <2>6, <2>9, <2>10, <2>11, WorkBooks
<1>5. QED BY <1>3, <1>4 DEF Insert

LEMMA RepairBooks == ASSUME IInv, Books, NEW j \in jobs, Repair(j) PROVE Books'
<1>1. /\ events \in Nat /\ KeysBook /\ JobBook(j) /\ j \in Job
      /\ j.op = "request" /\ j.step = "repair" /\ UNCHANGED <<rows, events>> /\ Unread
      /\ ~Fresh(j)
  BY MaxEventsAssumption DEF IInv, TypeOK, Books, JobsBook, Repair, Unread, Job, Fresh
<1>2. RowsLater
  BY <1>1, SameRows
<1>3. PICK i : i = [j EXCEPT !.step = "written"]
  OBVIOUS
<1>4. Same(i, j) /\ i.step = "written" /\ i.n = j.n
  BY <1>1, <1>3, Onward
<1>5. Becomes(j, i) /\ i.k = j.k /\ ~Fresh(i) /\ jobs \ {j} \subseteq jobs'
  BY <1>3, <1>1, <1>4 DEF Repair, Same, Fresh, Becomes
<1>6. Later /\ KeysBook'
  BY <1>1, <1>5, NextStep
<1>7. JobBook(i)'
  <2>1. Used(j.pair, j.n)'
    BY <1>1, <1>6, UsedStays DEF JobBook
  <2>2. QED BY <1>1, <1>4, <2>1 DEF JobBook, Same, Fresh
<1>8. JobsBook' /\ RowBook'
  BY <1>1, <1>2, <1>5, <1>6, <1>7, StepBooks, Leaves
<1>9. ASSUME NEW p \in Pair, UnderWay(p, rows[p].n) PROVE UnderWay(p, rows[p].n)'
  <2>1. ~Carries(j, p, rows[p].n)
    BY <1>1 DEF Carries
  <2>2. QED BY <1>1, <1>5, <1>9, <2>1, StaysUnderWay DEF UnderWay
<1>10. QED BY <1>1, <1>2, <1>6, <1>8, <1>9, WorkBooks

LEMMA DecideBooks ==
  ASSUME IInv, Books, NEW j \in jobs, Accept(j) \/ Reject(j) PROVE Books'
<1>1. /\ events \in Nat /\ KeysBook /\ JobBook(j) /\ RowBook /\ j \in Job /\ j.pair \in Pair
      /\ j.op \in {"accept", "reject"} /\ j.step = "read" /\ UNCHANGED events /\ Unread
      /\ rows \in [Pair -> Row]
  BY MaxEventsAssumption DEF IInv, TypeOK, Books, JobsBook, Accept, Reject, Unread, Job
<1>2. PICK i : i = [j EXCEPT !.step = "written"]
  OBVIOUS
<1>3. Same(i, j) /\ i.step = "written" /\ i.n = j.n
  BY <1>1, <1>2, Onward
<1>4. Becomes(j, i) /\ i.k = j.k /\ ~Fresh(i) /\ jobs \ {j} \subseteq jobs'
  BY <1>2, <1>1, <1>3 DEF Accept, Reject, Same, Fresh, Becomes
<1>5. Later /\ KeysBook'
  BY <1>1, <1>4, NextStep
<1>6. ASSUME NEW p \in Pair
      PROVE  /\ rows'[p].n = rows[p].n
             /\ rows'[p] = rows[p] \/ rows'[p].status # "pending"
             /\ p = j.pair /\ rows'[p].n = j.n => rows'[p].status # "pending"
  <2>1. CASE Accept(j)
    BY <1>1, <2>1 DEF Accept
  <2>2. CASE Reject(j)
    BY <1>1, <2>2 DEF Reject, IsPending
  <2>3. QED BY <2>1, <2>2
<1>7. RowsLater
  BY <1>6 DEF RowsLater
<1>8. ASSUME NEW p, NEW n, Used(p, n) PROVE Used(p, n)'
  BY <1>1, <1>5, <1>8, UsedStays
<1>9. RowBook'
  <2>1. ASSUME NEW p \in Pair PROVE Used(p, rows[p].n)'
    <3>1. PICK n : n = rows[p].n /\ n = rows'[p].n /\ Used(p, n)
      BY <1>1, <1>6 DEF RowBook
    <3>2. Used(p, n)'
      BY <1>8, <3>1
    <3>3. QED BY <3>1, <3>2 DEF Used, Fresh
  <2>2. QED BY <2>1 DEF RowBook
<1>10. JobBook(i)'
  <2>1. Used(j.pair, j.n)' /\ i.user = i.pair[2] /\ i.op # "request"
    BY <1>1, <1>3, <1>8 DEF JobBook, Same
  <2>2. Over(j.pair, j.n)'
    BY <1>1, <1>6, <2>1 DEF Over
  <2>3. QED BY <1>1, <1>3, <2>1, <2>2 DEF JobBook, Same, Fresh
<1>11. JobsBook'
  BY <1>4, <1>5, <1>7, <1>10, StepBooks
<1>12. ASSUME NEW p \in Pair, rows'[p].status = "pending", UnderWay(p, rows[p].n)
       PROVE  UnderWay(p, rows[p].n)'
  <2>1. ~Carries(j, p, rows[p].n)
    BY <1>6, <1>12 DEF Carries
  <2>2. rows'[p].n = rows[p].n
    BY <1>6
  <2>3. QED BY <1>4, <1>12, <2>1, <2>2, StaysUnderWay DEF UnderWay
<1>13. QED BY <1>1, <1>5, <1>6, <1>7, <1>9, <1>11, <1>12, WorkBooks

LEMMA RemoveBooks == ASSUME IInv, Books, NEW j \in jobs, Remove(j) PROVE Books'
<1>1. /\ events \in Nat /\ KeysBook /\ RowBook /\ j \in Job /\ j.pair \in Pair
      /\ j.op = "remove" /\ UNCHANGED events /\ Unread
  BY MaxEventsAssumption DEF IInv, TypeOK, Books, Remove, Unread, Job
<1>2. PICK n : Becomes(j, [j EXCEPT !.step = "written", !.n = n])
  BY DEF Remove
<1>3. PICK i : i = [j EXCEPT !.step = "written", !.n = n]
  OBVIOUS
<1>4. Same(i, j) /\ i.step = "written"
  BY <1>1, <1>3 DEF Job, Same
<1>5. Becomes(j, i) /\ i.k = j.k /\ i.op = "remove" /\ ~Fresh(i) /\ jobs \ {j} \subseteq jobs'
  BY <1>1, <1>2, <1>3, <1>4 DEF Same, Fresh, Becomes
<1>6. Later /\ KeysBook'
  BY <1>1, <1>5, NextStep
<1>7. ASSUME NEW p \in Pair
      PROVE  rows'[p] = rows[p] \/ (rows'[p].n = 0 /\ rows'[p].status # "pending")
  BY DEF Remove, Deleted, NoRow
<1>8. RowsLater
  BY <1>7 DEF RowsLater
<1>9. RowBook'
  <2>1. ASSUME NEW p \in Pair PROVE Used(p, rows[p].n)'
    <3>1. CASE rows'[p] = rows[p]
      <4>1. PICK m : m = rows[p].n /\ m = rows'[p].n /\ Used(p, m)
        BY <1>1, <3>1 DEF RowBook
      <4>2. Used(p, m)'
        BY <1>1, <1>6, <4>1, UsedStays
      <4>3. QED BY <4>1, <4>2 DEF Used, Fresh
    <3>2. CASE rows'[p].n = 0
      <4>1. 0 \in 0 .. events' /\ \A h \in jobs' : h.k # 0
        BY <1>1, <1>6 DEF KeysBook
      <4>2. QED BY <3>2, <4>1 DEF Used, Fresh
    <3>3. QED BY <1>7, <3>1, <3>2
  <2>2. QED BY <2>1 DEF RowBook
<1>10. JobBook(i)'
  BY <1>5 DEF JobBook, Fresh
<1>11. JobsBook'
  BY <1>5, <1>6, <1>8, <1>10, StepBooks
<1>12. ASSUME NEW p \in Pair, rows'[p] = rows[p], UnderWay(p, rows[p].n)
       PROVE  UnderWay(p, rows[p].n)'
  <2>1. ~Carries(j, p, rows[p].n)
    BY <1>1 DEF Carries
  <2>2. QED BY <1>5, <1>12, <2>1, StaysUnderWay DEF UnderWay
<1>13. QED BY <1>1, <1>6, <1>7, <1>8, <1>9, <1>11, <1>12, WorkBooks

-----------------------------------------------------------------------------
(* What clients are told, of requests *)

LEMMA SoundMessage ==
  ASSUME NEW j \in Job,
         NEW type \in {"friend_request", "friend_accept", "friend_reject", "friend_remove",
                       "done_request", "done_accept", "done_reject", "done_remove"},
         type \in {"friend_request", "done_request"} => Used(j.pair, j.n),
         type \in {"friend_reject", "done_accept", "done_reject"} => Over(j.pair, j.n)
  PROVE  Sound(Message(j, type))
<1>1. PICK e : e = Message(j, type)
  OBVIOUS
<1>2. e.type = type /\ e.pair = j.pair /\ e.n = j.n /\ type # "auth_ok"
  BY <1>1 DEF Message
<1>3. Sound(e)
  BY <1>2 DEF Sound
<1>4. QED BY <1>1, <1>3

LEMMA TellsSoundly ==
  ASSUME IInv, Books, NEW j \in jobs, j.step = "written"
  PROVE  \A e \in Elements(Reply(j)) \cup Elements(Notice(j)) : Sound(e)
<1>1. j \in Job /\ JobBook(j) /\ j.op \in {"request", "accept", "reject", "remove"}
  BY DEF IInv, TypeOK, Books, JobsBook, Job
<1>2. CASE j.op = "request"
  <2>1. Used(j.pair, j.n)
    BY <1>1, <1>2 DEF JobBook, Fresh
  <2>2. Sound(Message(j, "done_request")) /\ Sound(Message(j, "friend_request"))
    BY <1>1, <2>1, SoundMessage
  <2>3. /\ Reply(j) = <<Message(j, "done_request")>>
        /\ Notice(j) \in {<<Message(j, "friend_request")>>, <<>>}
    BY <1>2 DEF Reply, Notice
  <2>4. QED BY <2>2, <2>3, ElementsNone, ElementsOne, ElementsTwo
<1>3. CASE j.op = "accept"
  <2>1. Over(j.pair, j.n)
    BY <1>1, <1>3 DEF JobBook
  <2>2. Sound(Message(j, "done_accept")) /\ Sound(Message(j, "friend_accept"))
    BY <1>1, <2>1, SoundMessage
  <2>3. /\ Reply(j) = <<Message(j, "friend_accept"), Message(j, "done_accept")>>
        /\ Notice(j) = <<Message(j, "friend_accept")>>
    BY <1>3 DEF Reply, Notice
  <2>4. QED BY <2>2, <2>3, ElementsNone, ElementsOne, ElementsTwo
<1>4. CASE j.op = "reject"
  <2>1. Over(j.pair, j.n)
    BY <1>1, <1>4 DEF JobBook
  <2>2. Sound(Message(j, "done_reject")) /\ Sound(Message(j, "friend_reject"))
    BY <1>1, <2>1, SoundMessage
  <2>3. /\ Reply(j) = <<Message(j, "done_reject")>>
        /\ Notice(j) = <<Message(j, "friend_reject")>>
    BY <1>4 DEF Reply, Notice
  <2>4. QED BY <2>2, <2>3, ElementsNone, ElementsOne, ElementsTwo
<1>5. CASE j.op = "remove"
  <2>1. Sound(Message(j, "done_remove")) /\ Sound(Message(j, "friend_remove"))
    BY <1>1, SoundMessage
  <2>2. /\ Reply(j) \in {<<Message(j, "done_remove")>>, <<>>}
        /\ Notice(j) = <<Message(j, "friend_remove")>>
    BY <1>5 DEF Reply, Notice
  <2>3. QED BY <2>1, <2>2, ElementsNone, ElementsOne
<1>6. QED BY <1>1, <1>2, <1>3, <1>4, <1>5

LEMMA FinishTells ==
  ASSUME IInv, NEW j \in jobs, Finish(j), NEW w \in User
  PROVE  /\ Elements(inbox[w]) \subseteq Elements(inbox'[w])
         /\ Elements(inbox'[w]) \subseteq
              Elements(inbox[w]) \cup Elements(Reply(j)) \cup Elements(Notice(j))
         /\ Elements(queue'[w]) \subseteq Elements(queue[w]) \cup Elements(Notice(j))
         /\ w = Other(j.pair, j.user) /\ link[w] # "off" =>
              Elements(Notice(j)) \subseteq Elements(inbox'[w])
<1>1. /\ inbox[w] \in Seq(Event) /\ queue[w] \in Seq(Event)
      /\ queue \in [User -> Seq(Event)]
  BY DEF IInv, TypeOK
<1>2. PICK v : v = Other(j.pair, j.user)
  OBVIOUS
<1>3. PICK notice \in Seq(Event), reply \in Seq(Event) : notice = Notice(j) /\ reply = Reply(j)
  BY TellsHonestly, ToldTypes
<1>4. <<>> \in Seq(Event)
  OBVIOUS
<1>5. PICK s : s = IF w = j.user /\ Answerable(j) THEN reply ELSE <<>>
  OBVIOUS
<1>6. PICK t : t = IF w = v /\ link[v] # "off" THEN notice ELSE <<>>
  OBVIOUS
<1>7. s \in {reply, <<>>} /\ s \in Seq(Event)
  BY <1>4, <1>5
<1>8. t \in {notice, <<>>} /\ t \in Seq(Event) /\ (w = v /\ link[v] # "off" => t = notice)
  BY <1>4, <1>6
<1>9. inbox'[w] = inbox[w] \o s \o t
  BY <1>2, <1>3, <1>5, <1>6 DEF Finish
<1>10. queue'[w] = queue[w] \/ queue'[w] = queue[w] \o notice
  BY <1>1, <1>2, <1>3 DEF Finish
<1>11. Elements(inbox'[w]) = Elements(inbox[w]) \cup Elements(s) \cup Elements(t)
  <2>1. PICK b \in Seq(Event) : b = inbox[w] \o s
    <3>1. inbox[w] \o s \in Seq(Event)
      BY <1>1, <1>7
    <3>2. QED BY <3>1
  <2>2. Elements(b) = Elements(inbox[w]) \cup Elements(s)
    BY <1>1, <1>7, <2>1, ElementsJoin, Zenon
  <2>3. inbox'[w] = b \o t
    BY <1>9, <2>1
  <2>4. Elements(b \o t) = Elements(b) \cup Elements(t)
    BY <1>8, ElementsJoin
  <2>5. QED BY <2>2, <2>3, <2>4
<1>12. Elements(queue[w] \o notice) = Elements(queue[w]) \cup Elements(notice)
  BY <1>1, ElementsJoin
<1>13. Elements(<<>>) = {}
  BY ElementsNone
<1>14. Elements(s) \subseteq Elements(reply) /\ Elements(t) \subseteq Elements(notice)
  BY <1>7, <1>8, <1>13
<1>15. w = v /\ link[w] # "off" => t = notice
  BY <1>6
<1>16. QED BY <1>2, <1>3, <1>10, <1>11, <1>12, <1>14, <1>15

LEMMA FinishBooks == ASSUME IInv, Books, NEW j \in jobs, Finish(j) PROVE Books'
<1>1. /\ events \in Nat /\ KeysBook /\ MailBook /\ ComingBook /\ j \in Job
      /\ j.step = "written" /\ jobs' = jobs \ {j}
      /\ UNCHANGED <<rows, events, link, read, snapshot, incoming, missed>>
  BY MaxEventsAssumption DEF IInv, TypeOK, Books, Finish, database, session, lists
<1>2. Later /\ KeysBook' /\ RowsLater
  BY <1>1, FewerJobs, SameRows
<1>3. RowBook' /\ JobsBook' /\ LinkBook' /\ ListBook' /\ SnapBook'
  BY <1>1, <1>2, Leaves
<1>4. MailBook'
  <2>1. ASSUME NEW w \in User, NEW e \in Elements(inbox'[w]) \cup Elements(queue'[w])
        PROVE  Sound(e)'
    <3>1. \/ e \in Elements(inbox[w]) \cup Elements(queue[w])
          \/ e \in Elements(Reply(j)) \cup Elements(Notice(j))
      BY FinishTells
    <3>2. Sound(e)
      BY <1>1, <3>1, TellsSoundly DEF MailBook
    <3>3. QED BY <1>1, <1>2, <3>2, SoundStays
  <2>2. QED BY <2>1 DEF MailBook
<1>5. ComingBook'
  <2>1. ASSUME NEW p \in Pair, rows[p].status = "pending"
        PROVE  UnderWay(p, rows[p].n)' \/ Comes(p[2], Asked(p))'
    <3>1. Asked(p)' = Asked(p) /\ p[2] \in User
      BY <1>1 DEF Asked, Pair
    <3>2. CASE UnderWay(p, rows[p].n) /\ ~Carries(j, p, rows[p].n)
      BY <1>1, <3>2, StaysUnderWay DEF UnderWay
    <3>3. CASE Carries(j, p, rows[p].n)
      <4>1. /\ j.op = "request" /\ j.pair = p /\ j.n = rows[p].n /\ j.n = j.k /\ j.user = p[1]
            /\ Other(j.pair, j.user) = p[2]
        BY <1>1, <3>3 DEF Carries, Other
      <4>2. Notice(j) = <<Message(j, "friend_request")>>
        BY <4>1 DEF Notice
      <4>3. Message(j, "friend_request") \in Elements(Notice(j))
        BY <4>2, ElementsOne
      <4>4. Says(Message(j, "friend_request"), Asked(p))
        BY <4>1 DEF Says, Message, Named, Asked
      <4>5. CASE link[p[2]] = "off"
        BY <1>1, <4>5 DEF Comes, AtStart
      <4>6. CASE link[p[2]] # "off"
        <5>1. Message(j, "friend_request") \in Elements(inbox'[p[2]])
          BY <3>1, <4>1, <4>3, <4>6, FinishTells
        <5>2. PICK e \in Elements(inbox'[p[2]]) : Says(e, Asked(p))
          BY <4>4, <5>1
        <5>3. QED BY <3>1, <5>2 DEF Comes, Says
      <4>7. QED BY <4>5, <4>6
    <3>4. CASE Comes(p[2], Asked(p))
      <4>1. Elements(inbox[p[2]]) \subseteq Elements(inbox'[p[2]])
        BY <3>1, FinishTells
      <4>2. QED BY <1>1, <3>1, <3>4, <4>1 DEF Comes, AtStart, Says
    <3>5. QED BY <1>1, <2>1, <3>2, <3>3, <3>4 DEF ComingBook
  <2>2. QED BY <1>1, <2>1 DEF ComingBook
<1>6. QED BY <1>2, <1>3, <1>4, <1>5 DEF Books

LEMMA FailBooks == ASSUME IInv, Books, NEW j \in jobs, Fails(j) PROVE Books'
<1>1. /\ events \in Nat /\ KeysBook /\ ComingBook
      /\ j.pair \in Pair /\ jobs' = jobs \ {j} /\ events' = events + 1
      /\ UNCHANGED <<rows, link, read, snapshot, incoming, inbox, queue>>
  BY MaxEventsAssumption DEF IInv, TypeOK, Job, Books, Fails, database, session, lists
<1>2. Later /\ KeysBook' /\ RowsLater
  BY <1>1, FewerJobs, SameRows
<1>3. RowBook' /\ JobsBook' /\ LinkBook' /\ ListBook' /\ SnapBook' /\ MailBook'
  BY <1>1, <1>2, Leaves
<1>4. ASSUME NEW u \in User PROVE missed[u] \/ u = j.pair[2] => missed'[u]
  BY <1>4, Zenon DEF Fails
<1>5. ComingBook'
  <2>1. ASSUME NEW p \in Pair, rows[p].status = "pending"
        PROVE  UnderWay(p, rows[p].n)' \/ Comes(p[2], Asked(p))'
    <3>1. Asked(p)' = Asked(p) /\ p[2] \in User
      BY <1>1 DEF Asked, Pair
    <3>2. CASE UnderWay(p, rows[p].n) /\ ~Carries(j, p, rows[p].n)
      BY <1>1, <3>2, StaysUnderWay DEF UnderWay
    <3>3. CASE Carries(j, p, rows[p].n)
      <4>1. missed'[p[2]]
        BY <1>4, <3>1, <3>3 DEF Carries
      <4>2. QED BY <4>1 DEF Comes, AtStart
    <3>4. CASE missed[p[2]]
      <4>1. missed'[p[2]]
        BY <1>4, <3>1, <3>4
      <4>2. QED BY <4>1 DEF Comes, AtStart
    <3>5. CASE Comes(p[2], Asked(p)) /\ ~missed[p[2]]
      BY <1>1, <3>1, <3>5 DEF Comes, AtStart
    <3>6. QED BY <1>1, <2>1, <3>2, <3>3, <3>4, <3>5 DEF ComingBook
  <2>2. QED BY <1>1, <2>1 DEF ComingBook
<1>6. QED BY <1>2, <1>3, <1>5 DEF Books

LEMMA HandleBooks == ASSUME IInv, Books, NEW j \in jobs, Handles(j) PROVE Books'
BY FindBooks, DecisionBooks, InsertBooks, RepairBooks, DecideBooks, RemoveBooks, FinishBooks,
   FailBooks DEF Handles

-----------------------------------------------------------------------------
(* What connections and clients do *)

LEMMA ClientBooks ==
  ASSUME IInv, Books, NEW u \in User, UNCHANGED rows, jobs' \subseteq jobs,
         events' \in {events, events + 1},
         LinkBook', ListBook', SnapBook', MailBook',
         \A w \in User \ {u} : missed[w] => missed'[w],
         \A w \in User \ {u} :
           /\ link'[w] = link[w] /\ read'[w] = read[w] /\ snapshot'[w] = snapshot[w]
           /\ inbox'[w] = inbox[w] /\ incoming'[w] = incoming[w],
         \A p \in Pair :
           p[2] = u /\ rows[p].status = "pending" /\ Comes(u, Asked(p)) => Comes(u, Asked(p))',
         \A p \in Pair :
           UnderWay(p, rows[p].n) => UnderWay(p, rows[p].n)' \/ link'[p[2]] = "off"
  PROVE  Books'
<1>1. events \in Nat /\ KeysBook /\ ComingBook
  BY MaxEventsAssumption DEF IInv, TypeOK, Books
<1>2. Later /\ KeysBook' /\ RowsLater
  BY <1>1, FewerJobs, SameRows
<1>3. RowBook' /\ JobsBook'
  BY <1>2, Leaves
<1>4. ComingBook'
  <2>1. ASSUME NEW p \in Pair, rows[p].status = "pending"
        PROVE  UnderWay(p, rows[p].n)' \/ Comes(p[2], Asked(p))'
    <3>1. Asked(p)' = Asked(p) /\ p[2] \in User
      BY DEF Asked, Pair
    <3>2. CASE UnderWay(p, rows[p].n)
      BY <3>2 DEF Comes, AtStart
    <3>3. CASE Comes(p[2], Asked(p)) /\ p[2] = u
      BY <2>1, <3>1, <3>3 DEF Comes, AtStart, Says
    <3>4. CASE Comes(p[2], Asked(p)) /\ p[2] # u
      <4>1. CASE missed[p[2]]
        <5>1. missed'[p[2]]
          BY <3>1, <3>4, <4>1
        <5>2. QED BY <5>1 DEF Comes, AtStart
      <4>2. CASE ~missed[p[2]]
        BY <3>1, <3>4, <4>2 DEF Comes, AtStart
      <4>3. QED BY <4>1, <4>2
    <3>5. QED BY <1>1, <2>1, <3>2, <3>3, <3>4 DEF ComingBook
  <2>2. QED BY <2>1 DEF ComingBook
<1>5. QED BY <1>2, <1>3, <1>4 DEF Books

LEMMA JoinBooks == ASSUME IInv, Books, NEW u \in User, Join(u) PROVE Books'
<1>1. /\ events \in Nat /\ KeysBook /\ LinkBook /\ TypeOK
      /\ UNCHANGED <<rows, jobs, events, read, snapshot, inbox, queue, incoming>>
      /\ link[u] = "off" /\ link' = [link EXCEPT ![u] = "joining"]
  BY MaxEventsAssumption DEF IInv, TypeOK, Books, Join, database, lists
<1>2. ListBook' /\ SnapBook' /\ MailBook'
  BY <1>1, FewerJobs, SameRows, Leaves
<1>3. LinkBook' /\ "pending" \notin read'[u] /\ link'[u] = "joining"
  BY <1>1 DEF LinkBook, TypeOK
<1>4. ASSUME NEW p \in Pair PROVE Comes(u, Asked(p))'
  BY <1>3 DEF Comes, AtStart
<1>5. ASSUME NEW w \in User \ {u} PROVE missed[w] => missed'[w]
  BY <1>1 DEF Join, TypeOK
<1>6. \A w \in User \ {u} : link'[w] = link[w]
  BY <1>1 DEF TypeOK
<1>7. \A p \in Pair : UnderWay(p, rows[p].n) => UnderWay(p, rows[p].n)'
  BY <1>1 DEF UnderWay, Carries
<1>8. QED BY <1>1, <1>2, <1>3, <1>4, <1>5, <1>6, <1>7, ClientBooks

LEMMA ReadBooks ==
  ASSUME IInv, Books, NEW u \in User, ReadFriends(u) \/ ReadPending(u) PROVE Books'
<1>1. /\ events \in Nat /\ KeysBook /\ LinkBook /\ SnapBook /\ RowBook /\ TypeOK
      /\ UNCHANGED <<rows, jobs, events, link, inbox, queue, incoming, missed>>
      /\ link[u] = "joining"
      /\ \A w \in User \ {u} : read'[w] = read[w] /\ snapshot'[w] = snapshot[w]
  BY MaxEventsAssumption
     DEF IInv, TypeOK, Books, ReadFriends, ReadPending, Reads, database, lists
<1>2. /\ ListBook' /\ MailBook'
      /\ \A p : \A n : Used(p, n) => Used(p, n)'
  BY <1>1, FewerJobs, SameRows, Leaves, UsedStays
<1>3. LinkBook'
  BY <1>1 DEF LinkBook
<1>4. \A p \in Pair : UnderWay(p, rows[p].n) => UnderWay(p, rows[p].n)'
  BY <1>1 DEF UnderWay, Carries
<1>5. CASE ReadFriends(u)
  <2>1. snapshot'[u].pending = snapshot[u].pending
    <3>1. PICK x : x = FriendsOf(u)
      OBVIOUS
    <3>2. snapshot' = [snapshot EXCEPT ![u].friends = x]
      BY <1>5, <3>1 DEF ReadFriends
    <3>3. QED BY <1>1, <3>2 DEF TypeOK
  <2>2. SnapBook'
    <3>1. ASSUME NEW w \in User, NEW r \in snapshot'[w].pending PROVE Used(r.pair, r.n)'
      <4>1. r \in snapshot[w].pending
        BY <1>1, <2>1, <3>1
      <4>2. QED BY <1>1, <1>2, <4>1 DEF SnapBook
    <3>2. QED BY <3>1 DEF SnapBook
  <2>3. /\ read' = [read EXCEPT ![u] = read[u] \cup {"friends"}]
        /\ read \in [User -> SUBSET {"friends", "pending"}]
    BY <1>1, <1>5 DEF ReadFriends, Reads, TypeOK
  <2>4. "pending" \in read'[u] => "pending" \in read[u]
    BY <2>3
  <2>5. ASSUME NEW p \in Pair, Comes(u, Asked(p)) PROVE Comes(u, Asked(p))'
    BY <1>1, <2>1, <2>4, <2>5 DEF Comes, AtStart, Asked, Says
  <2>6. QED BY <1>1, <1>2, <1>3, <1>4, <2>2, <2>5, ClientBooks
<1>6. CASE ReadPending(u)
  <2>1. snapshot'[u].pending = PendingOf(u)
    <3>1. PICK x : x = PendingOf(u)
      OBVIOUS
    <3>2. snapshot' = [snapshot EXCEPT ![u].pending = x]
      BY <1>6, <3>1 DEF ReadPending
    <3>3. QED BY <1>1, <3>1, <3>2 DEF TypeOK
  <2>2. SnapBook'
    <3>1. ASSUME NEW w \in User, NEW r \in snapshot'[w].pending PROVE Used(r.pair, r.n)'
      <4>1. CASE w = u
        <5>1. PICK p \in Pair : r = [pair |-> p, n |-> rows[p].n]
          BY <2>1, <3>1, <4>1 DEF PendingOf
        <5>2. Used(r.pair, r.n)
          BY <1>1, <5>1 DEF RowBook
        <5>3. QED BY <1>2, <5>2
      <4>2. CASE w # u
        BY <1>1, <1>2, <3>1, <4>2 DEF SnapBook
      <4>3. QED BY <4>1, <4>2
    <3>2. QED BY <3>1 DEF SnapBook
  <2>3. ASSUME NEW p \in Pair, p[2] = u, rows[p].status = "pending" PROVE Comes(u, Asked(p))'
    <3>1. Asked(p) \in PendingOf(u)
      BY <2>3 DEF Asked, PendingOf
    <3>2. link'[u] = "joining" /\ Asked(p)' \in snapshot'[u].pending
      BY <1>1, <2>1, <3>1 DEF Asked
    <3>3. QED BY <3>2 DEF Comes, AtStart
  <2>4. QED BY <1>1, <1>2, <1>3, <1>4, <2>2, <2>3, ClientBooks
<1>7. QED BY <1>5, <1>6

LEMMA StartBooks == ASSUME IInv, Books, NEW u \in User, AuthOk(u) PROVE Books'
<1>1. /\ events \in Nat /\ KeysBook /\ LinkBook /\ SnapBook /\ MailBook /\ TypeOK
      /\ UNCHANGED <<rows, jobs, events, incoming, missed>>
      /\ link' = [link EXCEPT ![u] = "on"] /\ read' = [read EXCEPT ![u] = {}]
      /\ snapshot' = [snapshot EXCEPT ![u] = NothingRead]
      /\ queue' = [queue EXCEPT ![u] = <<>>]
      /\ \A w \in User \ {u} : inbox'[w] = inbox[w]
      /\ link[u] = "joining" /\ "pending" \in read[u]
  <2>1. /\ UNCHANGED <<rows, jobs, events, incoming, missed>>
        /\ link' = [link EXCEPT ![u] = "on"] /\ read' = [read EXCEPT ![u] = {}]
        /\ snapshot' = [snapshot EXCEPT ![u] = NothingRead]
        /\ queue' = [queue EXCEPT ![u] = <<>>]
        /\ read[u] = {"friends", "pending"}
    BY DEF AuthOk, database, lists
  <2>2. events \in Nat /\ TypeOK
    BY MaxEventsAssumption DEF IInv, TypeOK
  <2>3. KeysBook /\ LinkBook /\ SnapBook /\ MailBook
    BY DEF Books
  <2>4. \A w \in User \ {u} : inbox'[w] = inbox[w]
    BY <2>2 DEF AuthOk, TypeOK
  <2>5. "pending" \in read[u] /\ link[u] = "joining"
    BY <2>1, <2>3 DEF LinkBook
  <2>6. QED BY <2>1, <2>2, <2>3, <2>4, <2>5
<1>2. Later /\ RowsLater
  BY <1>1, FewerJobs, SameRows
<1>3. ListBook' /\ \A p : \A n : Used(p, n) => Used(p, n)'
  BY <1>1, <1>2, Leaves, UsedStays
<1>4. PICK e : e = [type |-> "auth_ok", friends |-> snapshot[u].friends,
                    pending |-> snapshot[u].pending]
  OBVIOUS
<1>5. Sound(e) /\ e.type = "auth_ok" /\ e.pending = snapshot[u].pending
  BY <1>1, <1>4 DEF Sound, SnapBook
<1>6. /\ Elements(inbox[u]) \subseteq Elements(inbox'[u]) /\ e \in Elements(inbox'[u])
      /\ Elements(inbox'[u]) \subseteq Elements(inbox[u]) \cup Elements(queue[u]) \cup {e}
  <2>1. inbox[u] \in Seq(Event) /\ queue[u] \in Seq(Event)
    BY <1>1 DEF TypeOK
  <2>2. e \in Event
    <3>1. PICK fs \in SUBSET User, ps \in SUBSET Request :
            fs = snapshot[u].friends /\ ps = snapshot[u].pending
      BY <1>1 DEF TypeOK
    <3>2. QED BY <1>4, <3>1 DEF Event
  <2>3. PICK old \in 0 .. Len(queue[u]) :
          inbox' = [inbox EXCEPT ![u] = inbox[u] \o SubSeq(queue[u], old + 1, Len(queue[u]))
                                          \o <<e>>]
    BY <1>4 DEF AuthOk
  <2>4. PICK k : k = SubSeq(queue[u], old + 1, Len(queue[u]))
    OBVIOUS
  <2>5. k \in Seq(Event) /\ Elements(k) \subseteq Elements(queue[u])
    BY <2>1, <2>4, ElementsKept
  <2>6. inbox'[u] = inbox[u] \o k \o <<e>>
    BY <1>1, <2>3, <2>4 DEF TypeOK
  <2>7. PICK b \in Seq(Event) : b = inbox[u] \o k
    <3>1. inbox[u] \o k \in Seq(Event)
      BY <2>1, <2>5
    <3>2. QED BY <3>1
  <2>8. Elements(b) = Elements(inbox[u]) \cup Elements(k)
    BY <2>1, <2>5, <2>7, ElementsJoin, Zenon
  <2>9. <<e>> \in Seq(Event) /\ Elements(<<e>>) = {e}
    BY <2>2, ElementsOne
  <2>10. Elements(b \o <<e>>) = Elements(b) \cup {e}
    <3>1. PICK t \in Seq(Event) : t = <<e>>
      BY <2>9
    <3>2. Elements(b \o t) = Elements(b) \cup Elements(t)
      BY ElementsJoin
    <3>3. QED BY <2>9, <3>1, <3>2
  <2>11. QED BY <2>5, <2>6, <2>7, <2>8, <2>10
<1>7. SnapBook'
  <2>1. ASSUME NEW w \in User, NEW r \in snapshot'[w].pending PROVE Used(r.pair, r.n)'
    <3>1. w # u /\ r \in snapshot[w].pending
      BY <1>1, <2>1 DEF TypeOK, NothingRead
    <3>2. QED BY <1>1, <1>3, <3>1 DEF SnapBook
  <2>2. QED BY <2>1 DEF SnapBook
<1>8. MailBook'
  <2>1. ASSUME NEW w \in User, NEW f \in Elements(inbox'[w]) \cup Elements(queue'[w])
        PROVE  Sound(f)'
    <3>1. CASE w = u
      <4>1. queue'[w] = <<>> /\ Elements(queue'[w]) = {}
        BY <1>1, <3>1, ElementsNone DEF TypeOK
      <4>2. f \in Elements(inbox[w]) \cup Elements(queue[w]) \/ f = e
        BY <1>6, <3>1, <4>1
      <4>3. Sound(f)
        BY <1>1, <1>5, <4>2 DEF MailBook
      <4>4. QED BY <1>1, <1>2, <4>3, SoundStays
    <3>2. CASE w # u
      <4>1. inbox'[w] = inbox[w] /\ queue'[w] = queue[w]
        BY <1>1, <3>2 DEF TypeOK
      <4>2. Sound(f)
        BY <1>1, <4>1 DEF MailBook
      <4>3. QED BY <1>1, <1>2, <4>2, SoundStays
    <3>3. QED BY <3>1, <3>2
  <2>2. QED BY <2>1 DEF MailBook
<1>9. LinkBook'
  BY <1>1 DEF LinkBook, TypeOK
<1>10. ASSUME NEW p \in Pair, Comes(u, Asked(p)) PROVE Comes(u, Asked(p))'
  <2>1. Asked(p)' = Asked(p)
    BY <1>1 DEF Asked
  <2>2. CASE missed[u]
    BY <1>1, <2>2 DEF Comes, AtStart
  <2>3. CASE Asked(p) \in snapshot[u].pending
    <3>1. Says(e, Asked(p))
      BY <1>5, <2>3 DEF Says
    <3>2. \E f \in Elements(inbox'[u]) : Says(f, Asked(p))
      BY <1>6, <3>1
    <3>3. QED BY <2>1, <3>2 DEF Comes, Says
  <2>4. CASE (\E f \in Elements(inbox[u]) : Says(f, Asked(p))) \/ Asked(p) \in incoming[u]
    BY <1>1, <1>6, <2>1, <2>4 DEF Comes, Says
  <2>5. QED BY <1>1, <1>10, <2>2, <2>3, <2>4 DEF Comes, AtStart
<1>11. \A w \in User \ {u} : /\ link'[w] = link[w] /\ read'[w] = read[w]
                             /\ snapshot'[w] = snapshot[w]
  BY <1>1 DEF TypeOK
<1>12. \A p \in Pair : UnderWay(p, rows[p].n) => UnderWay(p, rows[p].n)'
  BY <1>1 DEF UnderWay, Carries
<1>13. QED BY <1>1, <1>3, <1>7, <1>8, <1>9, <1>10, <1>11, <1>12, ClientBooks

LEMMA DropBooks == ASSUME IInv, Books, NEW u \in User, Drop(u) PROVE Books'
<1>1. /\ events \in Nat /\ KeysBook /\ LinkBook /\ SnapBook /\ MailBook /\ TypeOK
      /\ UNCHANGED <<rows, queue, missed>> /\ jobs' \subseteq jobs /\ events' = events + 1
      /\ link' = [link EXCEPT ![u] = "off"] /\ read' = [read EXCEPT ![u] = {}]
      /\ snapshot' = [snapshot EXCEPT ![u] = NothingRead]
      /\ inbox' = [inbox EXCEPT ![u] = <<>>]
      /\ \A w \in User : incoming'[w] \subseteq incoming[w]
      /\ \A w \in User \ {u} : incoming'[w] = incoming[w]
  <2>1. events \in Nat /\ TypeOK
    BY MaxEventsAssumption DEF IInv, TypeOK
  <2>2. KeysBook /\ LinkBook /\ SnapBook /\ MailBook
    BY DEF Books
  <2>3. UNCHANGED incoming \/ incoming' = [incoming EXCEPT ![u] = {}]
    BY DEF Drop
  <2>4. /\ \A w \in User : incoming'[w] \subseteq incoming[w]
        /\ \A w \in User \ {u} : incoming'[w] = incoming[w]
    BY <2>1, <2>3 DEF TypeOK
  <2>5. /\ UNCHANGED <<rows, queue, missed>> /\ jobs' \subseteq jobs /\ events' = events + 1
        /\ link' = [link EXCEPT ![u] = "off"] /\ read' = [read EXCEPT ![u] = {}]
        /\ snapshot' = [snapshot EXCEPT ![u] = NothingRead]
        /\ inbox' = [inbox EXCEPT ![u] = <<>>]
    BY DEF Drop, database
  <2>6. QED BY <2>1, <2>2, <2>4, <2>5
<1>2. Later /\ RowsLater
  BY <1>1, FewerJobs, SameRows
<1>3. ListBook' /\ \A p : \A n : Used(p, n) => Used(p, n)'
  BY <1>1, <1>2, Leaves, UsedStays
<1>4. SnapBook'
  <2>1. ASSUME NEW w \in User, NEW r \in snapshot'[w].pending PROVE Used(r.pair, r.n)'
    <3>1. w # u /\ r \in snapshot[w].pending
      BY <1>1, <2>1 DEF TypeOK, NothingRead
    <3>2. QED BY <1>1, <1>3, <3>1 DEF SnapBook
  <2>2. QED BY <2>1 DEF SnapBook
<1>5. MailBook'
  <2>1. ASSUME NEW w \in User, NEW f \in Elements(inbox'[w]) \cup Elements(queue'[w])
        PROVE  Sound(f)'
    <3>1. f \in Elements(inbox[w]) \cup Elements(queue[w])
      <4>1. inbox'[w] = inbox[w] \/ Elements(inbox'[w]) = {}
        BY <1>1, ElementsNone DEF TypeOK
      <4>2. QED BY <1>1, <2>1, <4>1
    <3>2. Sound(f)
      BY <1>1, <3>1 DEF MailBook
    <3>3. QED BY <1>1, <1>2, <3>2, SoundStays
  <2>2. QED BY <2>1 DEF MailBook
<1>6. LinkBook' /\ link'[u] = "off"
  BY <1>1 DEF LinkBook, TypeOK
<1>7. ASSUME NEW p \in Pair PROVE Comes(u, Asked(p))'
  BY <1>6 DEF Comes, AtStart
<1>8. \A w \in User \ {u} : /\ link'[w] = link[w] /\ read'[w] = read[w]
                            /\ snapshot'[w] = snapshot[w] /\ inbox'[w] = inbox[w]
  BY <1>1 DEF TypeOK
<1>9. ASSUME NEW p \in Pair, UnderWay(p, rows[p].n)
      PROVE  UnderWay(p, rows[p].n)' \/ link'[p[2]] = "off"
  <2>1. PICK j \in jobs : Carries(j, p, rows[p].n)
    BY <1>9 DEF UnderWay
  <2>2. CASE j \in jobs'
    BY <1>1, <2>1, <2>2 DEF UnderWay, Carries
  <2>3. CASE j \notin jobs'
    <3>1. j.user = u /\ j.step = "sent"
      BY <2>3 DEF Drop
    <3>2. p[2] = u
      BY <2>1, <3>1 DEF Carries
    <3>3. QED BY <1>6, <3>2
  <2>4. QED BY <2>2, <2>3
<1>10. QED BY <1>1, <1>3, <1>4, <1>5, <1>6, <1>7, <1>8, <1>9, ClientBooks

LEMMA AuthBooks == ASSUME IInv, Books, NEW u \in User, Authenticates(u) PROVE Books'
BY JoinBooks, ReadBooks, StartBooks, DropBooks DEF Authenticates

LEMMA HearBooks == ASSUME IInv, Books, NEW u \in User, Hears(u) PROVE Books'
<1>1. /\ events \in Nat /\ KeysBook /\ MailBook /\ ListBook /\ TypeOK
      /\ UNCHANGED <<rows, jobs, events, link, read, snapshot, queue, missed>>
      /\ inbox[u] # <<>> /\ inbox' = [inbox EXCEPT ![u] = Tail(inbox[u])]
  BY MaxEventsAssumption
     DEF IInv, TypeOK, Books, Hears, OnRequest, OnFriendAccept, OnDecision, OnRemove, OnAuthOk,
         Takes, database, session
<1>2. Later /\ RowsLater
  BY <1>1, FewerJobs, SameRows
<1>3. LinkBook' /\ SnapBook' /\ \A p : \A n : Used(p, n) => Used(p, n)'
  BY <1>1, <1>2, Leaves, UsedStays
<1>4. inbox'[u] = Tail(inbox[u]) /\ \A w \in User \ {u} : inbox'[w] = inbox[w]
  BY <1>1 DEF TypeOK
<1>5. PICK e : e = Head(inbox[u])
  OBVIOUS
<1>6. Elements(inbox[u]) = {e} \cup Elements(inbox'[u])
  <2>1. inbox[u] \in Seq(Event)
    BY <1>1 DEF TypeOK
  <2>2. QED BY <1>1, <1>4, <1>5, <2>1, ElementsTail
<1>7. MailBook'
  <2>1. ASSUME NEW w \in User, NEW f \in Elements(inbox'[w]) \cup Elements(queue'[w])
        PROVE  Sound(f)'
    <3>1. f \in Elements(inbox[w]) \cup Elements(queue[w])
      BY <1>1, <1>4, <1>6, <2>1
    <3>2. Sound(f)
      BY <1>1, <3>1 DEF MailBook
    <3>3. QED BY <1>1, <1>2, <3>2, SoundStays
  <2>2. QED BY <2>1 DEF MailBook
<1>8. Sound(e)
  BY <1>1, <1>6 DEF MailBook
<1>9. /\ \A w \in User \ {u} : incoming'[w] = incoming[w]
      /\ \A r \in incoming'[u] : r \in incoming[u] \/ Used(r.pair, r.n)
      /\ \A p \in Pair : p[2] = u /\ rows[p].status = "pending" =>
           /\ Asked(p) \in incoming[u] => Asked(p) \in incoming'[u]
           /\ Says(e, Asked(p)) => Asked(p) \in incoming'[u]
  <2>1. CASE OnRequest(u)
    <3>1. /\ e.type \in {"friend_request", "done_request"}
          /\ \/ Named(e).pair[2] = u
                /\ incoming' = [incoming EXCEPT ![u] = incoming[u] \cup {Named(e)}]
             \/ Named(e).pair[1] = u /\ UNCHANGED incoming
      BY <1>5, <2>1 DEF OnRequest, Takes
    <3>2. Used(Named(e).pair, Named(e).n)
      BY <1>8, <3>1 DEF Sound, Named
    <3>3. ASSUME NEW p \in Pair, p[2] = u, Says(e, Asked(p)) PROVE Asked(p) \in incoming'[u]
      <4>1. Named(e) = Asked(p) /\ Asked(p).pair = p /\ p[1] # u
        BY <3>1, <3>3 DEF Says, Asked, Pair
      <4>2. QED BY <1>1, <3>1, <4>1 DEF TypeOK
    <3>4. QED BY <1>1, <3>1, <3>2, <3>3 DEF TypeOK
  <2>2. CASE OnFriendAccept(u) \/ OnRemove(u)
    <3>1. UNCHANGED incoming /\ e.type \in {"friend_accept", "friend_remove", "done_remove"}
      BY <1>5, <2>2 DEF OnFriendAccept, OnRemove, Takes
    <3>2. QED BY <3>1 DEF Says
  <2>3. CASE OnDecision(u)
    <3>1. /\ e.type \in {"friend_reject", "done_accept", "done_reject"}
          /\ incoming' = [incoming EXCEPT ![u] = incoming[u] \ {Named(e)}]
      BY <1>5, <2>3 DEF OnDecision, Takes
    <3>2. Over(e.pair, e.n)
      BY <1>8, <3>1 DEF Sound
    <3>3. \A p \in Pair : rows[p].status = "pending" => Named(e) # Asked(p)
      BY <3>2 DEF Over, Named, Asked
    <3>4. \A p : ~Says(e, Asked(p))
      BY <3>1 DEF Says
    <3>5. QED BY <1>1, <3>1, <3>3, <3>4 DEF TypeOK
  <2>4. CASE OnAuthOk(u)
    <3>1. /\ e.type = "auth_ok"
          /\ incoming' =
               [incoming EXCEPT ![u] = incoming[u] \cup {r \in e.pending : r.pair[2] = u}]
      BY <1>5, <2>4 DEF OnAuthOk, Takes
    <3>2. /\ incoming'[u] = incoming[u] \cup {r \in e.pending : r.pair[2] = u}
          /\ \A w \in User \ {u} : incoming'[w] = incoming[w]
      BY <1>1, <3>1 DEF TypeOK
    <3>3. \A r \in e.pending : Used(r.pair, r.n)
      BY <1>8, <3>1 DEF Sound
    <3>4. ASSUME NEW p \in Pair, p[2] = u, Says(e, Asked(p)) PROVE Asked(p) \in incoming'[u]
      <4>1. Asked(p) \in e.pending /\ Asked(p).pair = p
        BY <3>1, <3>4 DEF Says, Asked
      <4>2. QED BY <3>2, <3>4, <4>1
    <3>5. QED BY <3>2, <3>3, <3>4
  <2>5. QED BY <2>1, <2>2, <2>3, <2>4 DEF Hears
<1>10. ListBook'
  <2>1. ASSUME NEW w \in User, NEW r \in incoming'[w] PROVE Used(r.pair, r.n)'
    <3>1. Used(r.pair, r.n)
      BY <1>1, <1>9, <2>1 DEF ListBook
    <3>2. QED BY <1>3, <3>1
  <2>2. QED BY <2>1 DEF ListBook
<1>11. ASSUME NEW p \in Pair, p[2] = u, rows[p].status = "pending", Comes(u, Asked(p))
       PROVE  Comes(u, Asked(p))'
  <2>1. Asked(p)' = Asked(p)
    BY <1>1 DEF Asked
  <2>2. CASE AtStart(u, Asked(p))
    BY <1>1, <2>1, <2>2 DEF Comes, AtStart
  <2>3. CASE Asked(p) \in incoming[u] \/ Says(e, Asked(p))
    <3>1. Asked(p) \in incoming'[u]
      BY <1>9, <1>11, <2>3
    <3>2. QED BY <2>1, <3>1 DEF Comes
  <2>4. CASE \E f \in Elements(inbox'[u]) : Says(f, Asked(p))
    BY <2>1, <2>4 DEF Comes, Says
  <2>5. QED BY <1>6, <1>11, <2>2, <2>3, <2>4 DEF Comes
<1>12. \A p \in Pair : UnderWay(p, rows[p].n) => UnderWay(p, rows[p].n)'
  BY <1>1 DEF UnderWay, Carries
<1>13. QED BY <1>1, <1>3, <1>4, <1>7, <1>9, <1>10, <1>11, <1>12, ClientBooks

-----------------------------------------------------------------------------

LEMMA NextShown == ShownInv /\ [Next]_vars => ShownInv'
<1> SUFFICES ASSUME ShownInv, [Next]_vars PROVE ShownInv'
  OBVIOUS
<1>1. IInv /\ Books /\ IInv'
  BY NextInv DEF ShownInv
<1>2. ASSUME NEW u \in User, Asks(u) \/ Authenticates(u) \/ Hears(u) PROVE Books'
  BY <1>1, <1>2, AskBooks, AuthBooks, HearBooks
<1>3. ASSUME NEW j \in jobs, Handles(j) PROVE Books'
  BY <1>1, <1>3, HandleBooks
<1>4. CASE UNCHANGED vars
  <2>1. UNCHANGED <<rows, jobs, link, read, snapshot, queue, inbox, incoming, missed, events>>
    BY <1>4 DEF vars, database, session, lists
  <2>2. events \in Nat /\ KeysBook
    BY <1>1, MaxEventsAssumption DEF IInv, TypeOK, Books
  <2>3. Later /\ KeysBook' /\ RowsLater
    BY <2>1, <2>2, FewerJobs, SameRows
  <2>4. /\ RowBook' /\ JobsBook' /\ LinkBook' /\ ListBook' /\ SnapBook' /\ MailBook'
    BY <1>1, <2>1, <2>3, Leaves
  <2>5. ComingBook'
    BY <1>1, <2>1 DEF Books, ComingBook, UnderWay, Carries, Comes, AtStart, Asked, Says
  <2>6. QED BY <1>1, <2>3, <2>4, <2>5 DEF Books, ShownInv
<1>5. QED BY <1>1, <1>2, <1>3, <1>4 DEF Next, ShownInv

\* friend-service.js and friends.py: once nothing is under way and a client was
\* told everything since it connected, every request still pending for its user
\* is in its list to be decided, whatever was read, queued, overtaken or decided
\* before.
THEOREM RequestsAreShown == Spec => []PendingIsShown
<1>1. Init => ShownInv
  BY InitInv, BooksInit DEF ShownInv
<1>2. QED BY <1>1, NextShown, BooksImply, PTL DEF Spec

=============================================================================
