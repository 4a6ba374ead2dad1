---------------------------- MODULE MCUtilities ----------------------------
(* Model checking of the utilities: calls of the receive utilities, with   *)
(* two byte values and a delimiter of two equal bytes, so that it can lie  *)
(* across the end of a receive(); and the conversions of byte_op.  The two *)
(* have no variable in common, and one run takes the behaviours of both.   *)
EXTENDS ReceiveUtil, MCByteOp

Bytes == {"x", "d"}
TwoDs == <<"d", "d">>

(* Each utility at its limits, with no time and with some. *)
Calls ==
  [op : {"delimiter"}, size : {3}, expire : {6}]
    \cup [op : {"size"}, size : {2}, expire : {6}]
    \cup [op : {"at_least"}, size : {2}, expire : {0, 6}]
    \cup [op : {"remaining"}, size : {0, 1}, expire : {6}]

NoConversion ==
  /\ pc = "none" /\ arg = <<>> /\ out = <<>> /\ number = 0
  /\ it = 1 /\ i = 0 /\ text = <<>> /\ prev_byte = 0

NoCall == Init /\ request = CHOOSE r \in Requests : TRUE

UtilInit == (Init /\ NoConversion) \/ (NoCall /\ ByteInit)

UtilNext ==
  \/ pc = "none" /\ Next /\ UNCHANGED byte_vars
  \/ ByteNext /\ UNCHANGED vars

(* The fairness of ReceiveUtil's Spec; the conversions need none. *)
UtilSpec == UtilInit /\ [][UtilNext]_<<vars, byte_vars>> /\ WF_vars(Step)
=============================================================================
