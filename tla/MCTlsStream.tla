----------------------------- MODULE MCTlsStream -----------------------------
(* Model checking of TlsStream: connections and buffers are model values. *)
EXTENDS TlsStream
=============================================================================
