----------------------------- MODULE UnixStream -----------------------------
(***************************************************************************)
(* One direction of a connection between two unix_socket objects           *)
(* (src/src/unix_socket.cpp), or two win_socket objects (win_socket.cpp):  *)
(* the loop of send() in one thread, the loop of receive() in another, and *)
(* the kernel's two buffers between them.  Each system call is a step; the *)
(* kernel moves bytes between any two.  The loops are the same text but    *)
(* for one thing: win_socket looks for the reason of a failed ::send() in  *)
(* errno, where Winsock does not put it, so no retry is ever made.         *)
(*                                                                         *)
(* A byte is its position in what the sender has handed to send().         *)
(***************************************************************************)
EXTENDS Integers, Sequences, SequencesExt

CONSTANTS
  Systems,   \* those the library is built for
  Packet,    \* cfg::net::packet_size
  MaxRetry,  \* cfg::net::io_max_retry
  SndCap,    \* the kernel's send buffer
  RcvCap,    \* the kernel's receive buffer
  MaxWrite,  \* bound: bytes in one call of send()
  MaxBytes   \* bound: bytes handed to send() in all

ASSUME StreamAssumption ==
  /\ Systems \subseteq {"unix", "windows"}
  /\ {Packet, SndCap, RcvCap, MaxWrite} \subseteq Nat \ {0}
  /\ {MaxRetry, MaxBytes} \subseteq Nat

VARIABLES
  system,      \* the one this library is built for
  \* the sending object
  open,        \* it has not been disconnected
  sending,     \* send() is running
  handed,      \* bytes handed to send() so far
  data_span,   \* what send() has still to pass to the kernel
  retry_count,
  failed,      \* some send() threw: its caller knows the stream is cut
  full,        \* history: ::send() has found the kernel's buffer full
  \* the kernel
  accepted,    \* history: every byte it took, in order
  sndbuf, rcvbuf,
  reset,       \* the connection broke
  err,         \* the receiving side has not been told so yet
  \* the receiving object
  receiving,   \* receive() is running
  ret,         \* what receive() has collected
  got,         \* what the receiver's caller has
  outcome      \* how the last receive() ended

sender == <<system, open, sending, handed, data_span, retry_count, failed, full>>
kernel == <<accepted, sndbuf, rcvbuf, reset, err>>
receiver == <<receiving, ret, got, outcome>>
vars == <<sender, kernel, receiver>>

MinOf(a, b) == IF a < b THEN a ELSE b

Init ==
  /\ system \in Systems
  /\ open = TRUE /\ sending = FALSE /\ handed = 0 /\ data_span = <<>>
  /\ retry_count = 0 /\ failed = FALSE /\ full = FALSE
  /\ accepted = <<>> /\ sndbuf = <<>> /\ rcvbuf = <<>>
  /\ reset = FALSE /\ err = FALSE
  /\ receiving = FALSE /\ ret = <<>> /\ got = <<>> /\ outcome = "none"
-----------------------------------------------------------------------------
(* The sender. *)

SendCall(n) ==
  /\ open /\ ~sending /\ handed + n <= MaxBytes
  /\ sending' = TRUE
  /\ handed' = handed + n
  /\ data_span' = [i \in 1..n |-> handed + i]
  /\ retry_count' = 0
  /\ UNCHANGED <<system, open, failed, full, kernel, receiver>>

Chunk == MinOf(Len(data_span), Packet)

SendLooping == sending /\ data_span # <<>>

(* data_span.last(data_span.size() - n) *)
Shrink(n) == data_span' = SubSeq(data_span, n + 1, Len(data_span))

(* A mutant: a partial send is taken for a full one. *)
Mut_PartialTakenForFull ==
  /\ SendLooping /\ ~reset
  /\ \E n \in 1..MinOf(Chunk, SndCap - Len(sndbuf)) :
       /\ sndbuf' = sndbuf \o SubSeq(data_span, 1, n)
       /\ accepted' = accepted \o SubSeq(data_span, 1, n)
       /\ Shrink(Chunk)
  /\ retry_count' = 0
  /\ UNCHANGED <<system, open, sending, handed, failed, full, rcvbuf, reset, err, receiver>>

(* ::send() takes as much of the chunk as it has room for. *)
SendAccepted ==
  /\ SendLooping /\ ~reset
  /\ \E n \in 1..MinOf(Chunk, SndCap - Len(sndbuf)) :
       /\ sndbuf' = sndbuf \o SubSeq(data_span, 1, n)
       /\ accepted' = accepted \o SubSeq(data_span, 1, n)
       /\ Shrink(n)
  /\ retry_count' = 0
  /\ UNCHANGED <<system, open, sending, handed, failed, full, rcvbuf, reset, err, receiver>>

(* EWOULDBLOCK: send() sleeps, counts the retry, and shrinks the span by   *)
(* the whole chunk although the kernel took nothing.                       *)
SendWouldBlock ==
  /\ SendLooping /\ ~reset /\ Len(sndbuf) = SndCap
  /\ system = "unix" /\ retry_count < MaxRetry
  /\ retry_count' = retry_count + 1
  /\ Shrink(Chunk)
  /\ full' = TRUE
  /\ UNCHANGED <<system, open, sending, handed, failed, kernel, receiver>>

(* A mutant: any error is taken for EWOULDBLOCK and tried again. *)
Mut_OnlyRetriesThrow ==
  /\ SendLooping /\ ~reset /\ Len(sndbuf) = SndCap /\ retry_count >= MaxRetry
  /\ sending' = FALSE /\ data_span' = <<>> /\ failed' = TRUE
  /\ full' = (full \/ ~reset)
  /\ UNCHANGED <<system, open, handed, retry_count, kernel, receiver>>

(* The retries are used up, or the connection is broken. *)
SendThrows ==
  /\ SendLooping
  /\ reset \/ (Len(sndbuf) = SndCap /\ retry_count >= MaxRetry)
  /\ sending' = FALSE /\ data_span' = <<>> /\ failed' = TRUE
  /\ full' = (full \/ ~reset)
  /\ UNCHANGED <<system, open, handed, retry_count, kernel, receiver>>

(* A mutant: the reason is found, and the chunk skipped as on unix. *)
Mut_WinWouldBlock ==
  /\ SendLooping /\ ~reset /\ Len(sndbuf) = SndCap
  /\ system = "windows"
  /\ Shrink(Chunk)
  /\ full' = TRUE
  /\ UNCHANGED <<system, open, sending, handed, retry_count, failed, kernel, receiver>>

(* On Windows a full buffer is an error like any other. *)
WinSendThrows ==
  /\ SendLooping /\ ~reset /\ Len(sndbuf) = SndCap
  /\ system = "windows"
  /\ sending' = FALSE /\ data_span' = <<>> /\ failed' = TRUE
  /\ full' = TRUE
  /\ UNCHANGED <<system, open, handed, retry_count, kernel, receiver>>

SendReturn ==
  /\ sending /\ data_span = <<>>
  /\ sending' = FALSE
  /\ UNCHANGED <<system, open, handed, data_span, retry_count, failed, full, kernel, receiver>>

(* disconnect() or the destructor: what the kernel took is still sent. *)
Disconnect ==
  /\ open /\ ~sending
  /\ open' = FALSE
  /\ UNCHANGED <<system, sending, handed, data_span, retry_count, failed, full, kernel, receiver>>
-----------------------------------------------------------------------------
(* The kernel and the network. *)

Deliver ==
  /\ ~reset /\ sndbuf # <<>> /\ Len(rcvbuf) < RcvCap
  /\ rcvbuf' = Append(rcvbuf, Head(sndbuf))
  /\ sndbuf' = Tail(sndbuf)
  /\ UNCHANGED <<accepted, reset, err, sender, receiver>>

FinArrived == ~open /\ ~reset /\ sndbuf = <<>>

(* The connection breaks: what has not arrived is lost. *)
Reset ==
  /\ ~reset /\ ~FinArrived
  /\ reset' = TRUE /\ err' = TRUE
  /\ sndbuf' = <<>>
  /\ UNCHANGED <<accepted, rcvbuf, sender, receiver>>
-----------------------------------------------------------------------------
(* The receiver. *)

ReceiveCall ==
  /\ ~receiving
  /\ receiving' = TRUE /\ ret' = <<>>
  /\ UNCHANGED <<got, outcome, sender, kernel>>

(* A mutant: the packet is appended whole, whatever recv() returned. *)
Mut_WholePacket ==
  /\ receiving /\ rcvbuf # <<>>
  /\ LET n == MinOf(Len(rcvbuf), Packet) IN
       /\ ret' = ret \o SubSeq(rcvbuf, 1, n)
                     \o [i \in 1..Packet - n |-> Head(rcvbuf)]
       /\ rcvbuf' = SubSeq(rcvbuf, n + 1, Len(rcvbuf))
  /\ UNCHANGED <<receiving, got, outcome, accepted, sndbuf, reset, err, sender>>

(* recv() returns data: collect it and ask again. *)
RecvData ==
  /\ receiving /\ rcvbuf # <<>>
  /\ LET n == MinOf(Len(rcvbuf), Packet) IN
       /\ ret' = ret \o SubSeq(rcvbuf, 1, n)
       /\ rcvbuf' = SubSeq(rcvbuf, n + 1, Len(rcvbuf))
  /\ UNCHANGED <<receiving, got, outcome, accepted, sndbuf, reset, err, sender>>

Return(how) ==
  /\ receiving' = FALSE
  /\ got' = IF how = "data" THEN got \o ret ELSE got
  /\ ret' = <<>>
  /\ outcome' = how

(* A mutant: EWOULDBLOCK is an error like the others. *)
Mut_BlockThrows ==
  /\ receiving /\ rcvbuf = <<>> /\ ~reset /\ ~FinArrived
  /\ Return("error")
  /\ UNCHANGED <<sender, kernel>>

(* EWOULDBLOCK: nothing there now. *)
RecvWouldBlock ==
  /\ receiving /\ rcvbuf = <<>> /\ ~reset /\ ~FinArrived
  /\ Return("data")
  /\ UNCHANGED <<sender, kernel>>

(* A mutant: the end of the connection is told before the data. *)
Mut_EofDropsData ==
  /\ receiving /\ rcvbuf = <<>> /\ (FinArrived \/ (reset /\ ~err))
  /\ Return("disconnected")
  /\ UNCHANGED <<sender, kernel>>

(* recv() returns 0: data collected first is returned first. *)
RecvEof ==
  /\ receiving /\ rcvbuf = <<>> /\ (FinArrived \/ (reset /\ ~err))
  /\ Return(IF ret # <<>> THEN "data" ELSE "disconnected")
  /\ UNCHANGED <<sender, kernel>>

(* Any other error, told once: the exception drops what was collected. *)
RecvError ==
  /\ receiving /\ rcvbuf = <<>> /\ reset /\ err
  /\ Return("error")
  /\ err' = FALSE
  /\ UNCHANGED <<accepted, sndbuf, rcvbuf, reset, sender>>

SendStep ==
  SendAccepted \/ SendWouldBlock \/ SendThrows \/ WinSendThrows \/ SendReturn
RecvStep == RecvData \/ RecvWouldBlock \/ RecvEof \/ RecvError

Next ==
  \/ \E n \in 1..MaxWrite : SendCall(n)
  \/ SendStep \/ Disconnect
  \/ Deliver \/ Reset
  \/ ReceiveCall \/ RecvStep

(* A running call goes on, the network carries what it has, and the        *)
(* receiving program calls receive() again and again.                      *)
Fairness ==
  /\ WF_vars(SendStep) /\ WF_vars(Deliver)
  /\ WF_vars(RecvStep) /\ WF_vars(ReceiveCall)

Spec == Init /\ [][Next]_vars /\ Fairness
-----------------------------------------------------------------------------
Bytes == 1..MaxBytes

(* Every variable stays in its range, the buffers within their capacity,   *)
(* and an idle call keeps nothing.                                         *)
TypeOK ==
  /\ {open, sending, failed, full, reset, err, receiving} \subseteq BOOLEAN
  /\ handed \in 0..MaxBytes
  /\ retry_count \in 0..MaxRetry
  /\ {data_span, accepted, sndbuf, rcvbuf, ret, got} \subseteq Seq(Bytes)
  /\ Len(sndbuf) <= SndCap /\ Len(rcvbuf) <= RcvCap
  /\ outcome \in {"none", "data", "disconnected", "error"}
  /\ ~sending => data_span = <<>>
  /\ ~receiving => ret = <<>>

(* However sends, partial sends, arrivals and receives interleave, every   *)
(* byte the kernel took is in exactly one place, in its order; when the    *)
(* connection breaks, even in the middle of a receive() that throws away   *)
(* what it had collected, what is left is a prefix of it.                  *)
Conserved ==
  /\ IsPrefix(got \o ret \o rcvbuf, accepted)
  /\ ~reset => accepted = got \o ret \o rcvbuf \o sndbuf

(* "Socket closed normally." is said only when everything the sender       *)
(* passed to the kernel has been returned, unless the break was reported   *)
(* by an exception before.                                                 *)
CleanClose == outcome = "disconnected" /\ ~reset => got = accepted

(* The bytes that may still reach the receiver's caller. *)
Wire == ret \o rcvbuf \o sndbuf \o (IF reset THEN <<>> ELSE data_span)

Stream == INSTANCE ByteStream
            WITH wire <- Wire, delivered <- got, broken <- reset, lossy <- full

(* The promise of a stream socket: the bytes handed over arrive in order,  *)
(* once, and, as long as the kernel's buffer had room at every try, with   *)
(* nothing missing; a full buffer costs bytes but never the order.         *)
ImplementsStream == Stream!Spec

AllAccepted == accepted = [i \in 1..handed - Len(data_span) |-> i]

(* A send() that has not thrown passed everything it was given.            *)
NothingSkipped == ~failed /\ ~reset => AllAccepted

(* Only unix_socket skips bytes in silence, and only where the kernel's    *)
(* buffer was full: win_socket throws at once instead.                     *)
SkippedOnlyWhenFull ==
  ~failed /\ ~reset /\ (system = "windows" \/ ~full) => AllAccepted

(* send() comes back: it returns or throws. *)
SendReturns == sending ~> ~sending

(* Every byte the kernel took reaches the receiver's caller, unless the    *)
(* connection breaks.                                                      *)
AcceptedArrives ==
  \A n \in Bytes : Len(accepted) >= n ~> (Len(got) >= n \/ reset)
=============================================================================
