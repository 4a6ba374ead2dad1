---------------------------- MODULE MCTlsContext ----------------------------
(* Model checking of TlsContext: threads are interchangeable. *)
EXTENDS TlsContext, TLC

Symmetry == Permutations(Threads)

(* One thread at a time; and threads side by side that make and end        *)
(* objects while another object keeps the context.                         *)
Safe ==
  [threads : {{t} : t \in Threads}, slots : {Slots}, keeper : {FALSE}]
    \cup [threads : {Threads}, slots : {{1, 2}}, keeper : {TRUE}]

(* Threads side by side and nothing else. *)
Bare == [threads : {Threads}, slots : {Slots}, keeper : {FALSE}]
=============================================================================
