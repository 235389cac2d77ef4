----------------------------- MODULE MCSession ------------------------------
(* Two users who take turns on one machine, in two sessions. *)
EXTENDS Session

=============================================================================
