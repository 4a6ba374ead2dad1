------------------------------ MODULE MCByteOp ------------------------------
(* Model checking of ByteOp: byte sequences of up to MaxText bytes, each   *)
(* with bits on both sides of every cut.                                   *)
EXTENDS ByteOp

CONSTANTS MaxText, Sample

ShortTexts == UNION {[1..n -> Sample] : n \in 0..MaxText}
=============================================================================
