----------------------------- MODULE MCFriends ------------------------------
(* Two clients. *)
EXTENDS Friends, TLC

CONSTANTS a, b

Symmetry == Permutations({a, b})

=============================================================================
