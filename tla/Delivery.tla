------------------------------ MODULE Delivery ------------------------------
(***************************************************************************)
(* What text messaging promises, whatever happens to the connections: a    *)
(* message its sender has sent reaches its receiver's history at most once *)
(* at a time, the sender's "delivered" mark is never ahead of that, and    *)
(* the sender's "read" mark is never ahead of the receiver reading it.     *)
(* Each of the two may delete its own history of the other; what was sent  *)
(* before may then arrive, and be confirmed, all the same.                 *)
(***************************************************************************)
EXTENDS Naturals

CONSTANT Msg            \* the messages the users ever compose (msg_id)

VARIABLES
  sent,                 \* messages handed to a channel by their sender
  saved,                \* those in their sender's history
  copies,               \* copies[m]: rows of m in its receiver's history
  delivered,            \* messages the sender's history shows as delivered
  readByReceiver,       \* messages the receiver's history shows as read
  seen,                 \* messages the sender's history shows as read
  erased,               \* messages their receiver has ever deleted
  erasedRead            \* those it had read

vars == <<sent, saved, copies, delivered, readByReceiver, seen, erased, erasedRead>>

Arrived == {m \in Msg : copies[m] > 0}

Init ==
  /\ sent = {} /\ saved = {}
  /\ copies = [m \in Msg |-> 0]
  /\ delivered = {} /\ seen = {}
  /\ readByReceiver = {}
  /\ erased = {} /\ erasedRead = {}

\* The sender hands m to the channel, once, and keeps it in the history.
Save(m) ==
  /\ m \notin sent
  /\ sent' = sent \cup {m}
  /\ saved' = saved \cup {m}
  /\ UNCHANGED <<copies, delivered, readByReceiver, seen, erased, erasedRead>>

\* The receiver keeps a copy that arrives when it has none, and no other.
Arrive(m) ==
  /\ m \in sent
  /\ copies[m] = 0
  /\ copies' = [copies EXCEPT ![m] = 1]
  /\ UNCHANGED <<sent, saved, delivered, readByReceiver, seen, erased, erasedRead>>

\* The sender learns that m arrived.
Confirm(m) ==
  /\ m \in saved
  /\ m \in Arrived \cup erased
  /\ delivered' = delivered \cup {m}
  /\ UNCHANGED <<sent, saved, copies, readByReceiver, seen, erased, erasedRead>>

\* The receiver reads messages it holds.
Read(S) ==
  /\ S \subseteq Arrived
  /\ readByReceiver' = readByReceiver \cup S
  /\ UNCHANGED <<sent, saved, copies, delivered, seen, erased, erasedRead>>

\* The sender learns that messages were read.
LearnRead(S) ==
  /\ S \subseteq saved
  /\ S \subseteq readByReceiver \cup erasedRead
  /\ seen' = seen \cup S
  /\ UNCHANGED <<sent, saved, copies, delivered, readByReceiver, erased, erasedRead>>

\* A user deletes a conversation: F it had sent, E it had received.
Delete(F, E) ==
  /\ E \subseteq Arrived
  /\ saved' = saved \ F
  /\ delivered' = delivered \ F
  /\ seen' = seen \ F
  /\ copies' = [m \in Msg |-> IF m \in E THEN 0 ELSE copies[m]]
  /\ readByReceiver' = readByReceiver \ E
  /\ erased' = erased \cup E
  /\ erasedRead' = erasedRead \cup (readByReceiver \cap E)
  /\ UNCHANGED sent

Next ==
  \/ \E m \in Msg : Save(m) \/ Arrive(m) \/ Confirm(m)
  \/ \E S \in SUBSET Msg : Read(S) \/ LearnRead(S)
  \/ \E F, E \in SUBSET Msg : Delete(F, E)

Spec == Init /\ [][Next]_vars
=============================================================================
