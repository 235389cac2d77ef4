------------------------------ MODULE MCAudio ------------------------------
(* Two calls, two coroutines at once, and queues that are full at once. *)
EXTENDS Audio

=============================================================================
