------------------------------- MODULE MCChat -------------------------------
(* More messages than a window loads; they are interchangeable. *)
EXTENDS Chat

Symmetry == Permutations(Incoming)

=============================================================================
