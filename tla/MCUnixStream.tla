---------------------------- MODULE MCUnixStream ----------------------------
(* Model checking of UnixStream: its constants are numbers. *)
EXTENDS UnixStream
=============================================================================
