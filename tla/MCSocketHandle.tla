--------------------------- MODULE MCSocketHandle ---------------------------
(* Model checking of SocketHandle: objects and descriptors are            *)
(* interchangeable, so the runs of invariants use their symmetry.         *)
EXTENDS SocketHandle, TLC

CONSTANTS Loopback, Remote

LoopbackOnly == {Loopback}
LoopbackAndRemote == {Loopback, Remote}

Symmetry == Permutations(Objs) \cup Permutations(Fds)
=============================================================================
