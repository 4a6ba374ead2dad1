----------------------------- MODULE ByteStream -----------------------------
(***************************************************************************)
(* What a connected pair of sockets promises about one direction: bytes    *)
(* arrive in the order they were handed to send(), each at most once.  A   *)
(* connection that breaks loses the end of what is under way, never its    *)
(* middle.  A stream that has become lossy lost bytes anywhere, though it  *)
(* neither reordered nor repeated any.                                     *)
(*                                                                         *)
(* Bytes are numbered in the order the sender hands them over.             *)
(***************************************************************************)
EXTENDS Integers, Sequences

CONSTANT MaxWrite   \* the largest buffer handed to one send()

VARIABLES
  handed,    \* bytes handed to send()
  wire,      \* bytes that may still arrive
  delivered, \* bytes the receiver's caller has
  broken,    \* nothing sent from now on arrives
  lossy      \* bytes have gone missing from the middle of the stream

vars == <<handed, wire, delivered, broken, lossy>>

Init ==
  /\ handed = 0 /\ wire = <<>> /\ delivered = <<>>
  /\ broken = FALSE /\ lossy = FALSE

Fresh(n) == [i \in 1..n |-> handed + i]

Write(n) ==
  /\ handed' = handed + n
  /\ wire' = IF broken THEN wire ELSE wire \o Fresh(n)
  /\ UNCHANGED <<delivered, broken, lossy>>

Read(n) ==
  /\ delivered' = delivered \o SubSeq(wire, 1, n)
  /\ wire' = SubSeq(wire, n + 1, Len(wire))
  /\ UNCHANGED <<handed, broken, lossy>>

Break(n) ==
  /\ broken' = TRUE
  /\ wire' = SubSeq(wire, 1, n)
  /\ UNCHANGED <<handed, delivered, lossy>>

Lose(i, j) ==
  /\ lossy' = TRUE
  /\ wire' = SubSeq(wire, 1, i) \o SubSeq(wire, j, Len(wire))
  /\ UNCHANGED <<handed, delivered, broken>>

Next ==
  \/ \E n \in 1..MaxWrite : Write(n)
  \/ \E n \in 0..Len(wire) : Read(n) \/ Break(n)
  \/ \E i, j \in 0..Len(wire) + 1 : i < j /\ Lose(i, j)

Spec == Init /\ [][Next]_vars
=============================================================================
