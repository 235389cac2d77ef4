---------------------------- MODULE MCMessaging -----------------------------
(***************************************************************************)
(* Instances of Messaging for TLC: two clients and one message each way.   *)
(***************************************************************************)
EXTENDS Messaging

CONSTANTS ana, bo, m1, m2

MCUser == {ana, bo}
MCMsg == {m1, m2}
MCSender == (m1 :> ana) @@ (m2 :> bo)
MCReceiver == (m1 :> bo) @@ (m2 :> ana)
=============================================================================
