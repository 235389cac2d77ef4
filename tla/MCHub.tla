------------------------------- MODULE MCHub --------------------------------
(* Two friends, one of them on two sockets, and a stranger. *)
EXTENDS Hub, TLC

CONSTANTS a, b, c, a1, a2, b1

MCOwner      == (a1 :> a) @@ (a2 :> a) @@ (b1 :> b)
MCBefriended == {<<a, b>>, <<b, a>>}
MCStatus     == {"online", "offline"}
NoSocket     == {}
Symmetry     == Permutations({a1, a2})

=============================================================================
