----------------------------- MODULE MCPresence -----------------------------
(* One client and one or two other users. *)
EXTENDS Presence

=============================================================================
