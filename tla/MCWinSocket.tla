----------------------------- MODULE MCWinSocket -----------------------------
(* Model checking of WinSocket: objects and handles are interchangeable. *)
EXTENDS WinSocket, TLC

CONSTANTS Remote

Everywhere == {AnyAddr, Remote}

Symmetry == Permutations(Objs) \cup Permutations(Handles)
=============================================================================
