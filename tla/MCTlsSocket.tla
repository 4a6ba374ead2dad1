---------------------------- MODULE MCTlsSocket ----------------------------
(* Model checking of TlsSocket: storage and descriptors are                *)
(* interchangeable.                                                        *)
EXTENDS TlsSocket, TLC

Symmetry == Permutations(Objs) \cup Permutations(Fds)
=============================================================================
