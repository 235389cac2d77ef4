\* Both clients encrypt; two connections, so that one is followed by another;
\* one user deletes, as the sender of one message and the receiver of the other.
SPECIFICATION FairSpec
CONSTANTS
  ana = ana
  bo = bo
  m1 = m1
  m2 = m2
  User <- MCUser
  Msg <- MCMsg
  Sender <- MCSender
  Receiver <- MCReceiver
  Encrypting <- MCUser
  Deleting = {bo}
  MaxLinks = 2
INVARIANTS
  TypeOK
  OneRowPerMessage
  MarksAreHonest
  KeysAreFresh
PROPERTIES
  ResendDelivers
  DeliverySpec
\* Every message may be sent and read, and the connections may be used up.
CHECK_DEADLOCK FALSE
