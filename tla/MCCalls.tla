------------------------------- MODULE MCCalls ------------------------------
(* Two users who call each other. *)
EXTENDS Calls

=============================================================================
