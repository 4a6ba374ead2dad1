------------------------------ MODULE TlsStream ------------------------------
(***************************************************************************)
(* send() and receive() of tls_socket (src/src/tls_socket.cpp), after the  *)
(* handshake, for the connections one thread uses in turn: their loops     *)
(* around SSL_write and SSL_read, the write that OpenSSL keeps when there  *)
(* is no room for it, and the error queue, which OpenSSL has once for each *)
(* thread and which SSL_get_error looks at whatever the connection.        *)
(*                                                                         *)
(* A message is what a caller hands to one send(), by number; it is cut    *)
(* into records, and <<m, k>> is the k-th record of message m.             *)
(***************************************************************************)
EXTENDS Integers, Sequences, SequencesExt

CONSTANTS
  Conns,      \* connections of the thread
  Senders,    \* bound: those on which it calls send()
  Bufs,       \* addresses of the buffers handed to send()
  Nothing,    \* no write is kept
  MaxRetry,   \* cfg::net::io_max_retry
  Room,       \* records the kernel's send buffer takes
  MaxRecords, \* bound: records of a message
  MaxSends,   \* bound: calls of send()
  MaxArrive   \* bound: records that arrive on a connection

ASSUME TlsStreamAssumption ==
  /\ Senders \subseteq Conns
  /\ {MaxRetry, MaxSends, MaxArrive} \subseteq Nat
  /\ {Room, MaxRecords} \subseteq Nat \ {0}
  /\ Nothing \notin [buf : Bufs, msg : Nat, k : Nat, len : Nat]

VARIABLES
  \* the thread
  call,        \* the operation it is in, and on which connection
  retry_count,
  ret,         \* records receive() has collected
  told,        \* how the last call on each connection ended
  sends,       \* calls of send() so far
  \* OpenSSL
  strict_eof,  \* version 3: the end of the stream without notice is an error
  queue,       \* the thread's error queue is not empty
  kept,        \* the write each connection has begun and must go on with
  fatal,       \* connections whose session an end without notice has ended
  cut,         \* connections whose session a send() has ended
  \* the connections
  wire,        \* records written, in order
  inflight,    \* of these, how many the kernel's buffer still holds
  arrived,     \* records that have arrived
  unread,      \* of these, how many SSL_read has not taken
  ended,       \* how the peer ended the connection
  \* history
  got,         \* records receive() has returned
  promised,    \* records of the sends that returned without an exception
  reused,      \* connections that were handed other data in a kept buffer
  refused      \* connections that were handed another buffer than the kept,
               \* or less than what is kept

thread == <<call, retry_count, ret, told, sends>>
ssl == <<strict_eof, queue, kept, fatal, cut>>
net == <<wire, inflight, arrived, unread, ended>>
history == <<got, promised, reused, refused>>
vars == <<thread, ssl, net, history>>

Idle == [op |-> "none"]

Init ==
  /\ call = Idle /\ retry_count = 0 /\ ret = 0 /\ sends = 0
  /\ told = [c \in Conns |-> "ok"]
  /\ strict_eof \in BOOLEAN /\ queue = FALSE
  /\ kept = [c \in Conns |-> Nothing] /\ fatal = {} /\ cut = {}
  /\ wire = [c \in Conns |-> <<>>] /\ inflight = [c \in Conns |-> 0]
  /\ arrived = [c \in Conns |-> 0] /\ unread = [c \in Conns |-> 0]
  /\ ended = [c \in Conns |-> "no"]
  /\ got = [c \in Conns |-> 0] /\ promised = [c \in Conns |-> <<>>]
  /\ reused = {} /\ refused = {}
-----------------------------------------------------------------------------
(* The network, the peers, and handshakes of this thread. *)

Drain(c) ==
  /\ inflight[c] > 0
  /\ inflight' = [inflight EXCEPT ![c] = @ - 1]
  /\ UNCHANGED <<thread, ssl, wire, arrived, unread, ended, history>>

Arrive(c) ==
  /\ ended[c] = "no" /\ arrived[c] < MaxArrive
  /\ arrived' = [arrived EXCEPT ![c] = @ + 1]
  /\ unread' = [unread EXCEPT ![c] = @ + 1]
  /\ UNCHANGED <<thread, ssl, wire, inflight, ended, history>>

(* The peer says close_notify, closes the connection without, or resets it.*)
End(c, how) ==
  /\ ended[c] = "no"
  /\ ended' = [ended EXCEPT ![c] = how]
  /\ UNCHANGED <<thread, ssl, wire, inflight, arrived, unread, history>>

(* A handshake, of whichever connection, empties the error queue. *)
Handshake ==
  /\ call = Idle /\ queue
  /\ queue' = FALSE
  /\ UNCHANGED <<thread, strict_eof, kept, fatal, cut, net, history>>
-----------------------------------------------------------------------------
(* send() *)

(* The call that is over: how it ended is what the caller is told. *)
Over(how) ==
  /\ call' = Idle
  /\ told' = [told EXCEPT ![call.conn] = how]
  /\ retry_count' = 0

Sending == call.op = "send"

Start(c, b, m, n) ==
  /\ call = Idle /\ sends < MaxSends
  /\ call' = [op |-> "send", conn |-> c, buf |-> b, msg |-> m, len |-> n]
  /\ sends' = sends + 1
  /\ UNCHANGED <<retry_count, ret, told, ssl, net>>

(* A new message of n records in buffer b. *)
Send(c, b, n) ==
  /\ Start(c, b, sends + 1, n)
  /\ reused' = IF kept[c] # Nothing /\ kept[c].buf = b THEN reused \cup {c}
                                                       ELSE reused
  /\ UNCHANGED <<got, promised, refused>>

(* The caller repeats the send that was interrupted. *)
SendAgain(c) ==
  /\ kept[c] # Nothing
  /\ Start(c, kept[c].buf, kept[c].msg, kept[c].len)
  /\ UNCHANGED history

(* The session is over, whatever becomes of the connection. *)
Dead(c) == c \in fatal \cup cut

(* The data ends before the record that is kept. *)
Short(c) == kept[c] # Nothing /\ call.len < kept[c].k

BadRetry(c) == kept[c] # Nothing /\ kept[c].buf # call.buf

(* The record SSL_write has in hand: the one kept, else the call's first.  *)
InHand(c) ==
  IF kept[c] # Nothing THEN kept[c]
  ELSE [buf |-> call.buf, msg |-> call.msg, k |-> 1, len |-> call.len]

Writing(c) ==
  /\ Sending /\ call.conn = c /\ call.len > 0
  /\ ~Short(c) /\ ~Dead(c) /\ ~BadRetry(c) /\ ended[c] # "reset"

Put(c) ==
  /\ inflight[c] < Room
  /\ wire' = [wire EXCEPT ![c] = Append(@, <<InHand(c).msg, InHand(c).k>>)]
  /\ inflight' = [inflight EXCEPT ![c] = @ + 1]

(* There is room for a record, and more to write. *)
WriteRecord(c) ==
  /\ Writing(c) /\ Put(c) /\ InHand(c).k < call.len
  /\ kept' = [kept EXCEPT ![c] = [buf |-> call.buf, msg |-> call.msg,
                                  k |-> InHand(c).k + 1, len |-> call.len]]
  /\ UNCHANGED <<thread, strict_eof, queue, fatal, cut, arrived, unread, ended, history>>

(* SSL_write returns the size of the data: all of it, it has no other.     *)
WriteDone(c) ==
  /\ Writing(c) /\ Put(c) /\ InHand(c).k = call.len
  /\ kept' = [kept EXCEPT ![c] = Nothing]
  /\ promised' = [promised EXCEPT ![c] = @ \o [k \in 1..call.len |-> <<call.msg, k>>]]
  /\ Over("ok")
  /\ UNCHANGED <<ret, sends, strict_eof, queue, fatal, cut, arrived, unread, ended,
                 got, reused, refused>>

(* A mutant: the write that is kept is begun again. *)
Mut_RetryFromStart(c) ==
  /\ Writing(c) /\ inflight[c] = Room
  /\ kept' = [kept EXCEPT ![c] = Nothing]
  /\ IF queue THEN Over("error")
     ELSE IF retry_count >= MaxRetry THEN Over("timeout")
     ELSE retry_count' = retry_count + 1 /\ UNCHANGED <<call, told>>
  /\ UNCHANGED <<ret, sends, strict_eof, queue, fatal, cut, net, history>>

(* A mutant: the retries are not counted. *)
Mut_RetryUncounted(c) ==
  /\ Writing(c) /\ inflight[c] = Room
  /\ kept' = [kept EXCEPT ![c] = InHand(c)]
  /\ IF queue THEN Over("error")
     ELSE IF retry_count > MaxRetry THEN Over("timeout")
     ELSE UNCHANGED <<call, told, retry_count>>
  /\ UNCHANGED <<ret, sends, strict_eof, queue, fatal, cut, net, history>>

(* No room: OpenSSL keeps the write, and SSL_get_error says so unless the  *)
(* queue has an error of some other call.                                  *)
WriteBlocks(c) ==
  /\ Writing(c) /\ inflight[c] = Room
  /\ kept' = [kept EXCEPT ![c] = InHand(c)]
  /\ IF queue THEN Over("error")
     ELSE IF retry_count >= MaxRetry THEN Over("timeout")
     ELSE retry_count' = retry_count + 1 /\ UNCHANGED <<call, told>>
  /\ UNCHANGED <<ret, sends, strict_eof, queue, fatal, cut, net, history>>

(* Another buffer than the one kept: "bad write retry" goes to the queue.  *)
WriteRefused(c) ==
  /\ Sending /\ call.conn = c
  /\ ~Short(c) /\ ~Dead(c) /\ BadRetry(c)
  /\ Over("refused")
  /\ queue' = TRUE /\ refused' = refused \cup {c}
  /\ UNCHANGED <<ret, sends, strict_eof, kept, fatal, cut, net, got, promised, reused>>

(* Less data than what is kept, or none: "bad length" goes to the queue,   *)
(* and the session is over.                                                *)
WriteShort(c) ==
  /\ Sending /\ call.conn = c /\ Short(c)
  /\ Over("refused")
  /\ queue' = TRUE /\ cut' = cut \cup {c} /\ refused' = refused \cup {c}
  /\ UNCHANGED <<ret, sends, strict_eof, kept, fatal, net, got, promised, reused>>

(* An empty span, or a session or connection that is over. *)
WriteFails(c) ==
  /\ Sending /\ call.conn = c /\ ~Short(c)
  /\ Dead(c) \/ (~BadRetry(c) /\ (call.len = 0 \/ ended[c] = "reset"))
  /\ Over("refused")
  /\ UNCHANGED <<ret, sends, ssl, net, history>>
-----------------------------------------------------------------------------
(* receive() *)

Reading(c) == call.op = "receive" /\ call.conn = c

(* SSL_read looks at what has come. *)
Open(c) == Reading(c) /\ c \notin cut

Receive(c) ==
  /\ call = Idle
  /\ call' = [op |-> "receive", conn |-> c]
  /\ UNCHANGED <<retry_count, ret, told, sends, ssl, net, history>>

ReadData(c) ==
  /\ Open(c) /\ unread[c] > 0
  /\ unread' = [unread EXCEPT ![c] = @ - 1]
  /\ ret' = ret + 1
  /\ UNCHANGED <<call, retry_count, told, sends, ssl, wire, inflight, arrived, ended,
                 history>>

(* A mutant: what was collected is dropped when the last read fails. *)
Mut_ErrorDropsData(how) ==
  /\ Over(how)
  /\ got' = IF how = "ok" THEN [got EXCEPT ![call.conn] = @ + ret] ELSE got
  /\ ret' = 0

(* What was collected is returned whatever the last SSL_read said. *)
Return(how) ==
  /\ Over(IF ret > 0 THEN "ok" ELSE how)
  /\ got' = [got EXCEPT ![call.conn] = @ + ret]
  /\ ret' = 0

(* A mutant: that nothing is there now is an error like the others. *)
Mut_WantIsError(c) ==
  /\ Open(c) /\ unread[c] = 0 /\ ended[c] = "no"
  /\ Return("error")
  /\ UNCHANGED <<sends, ssl, net, promised, reused, refused>>

(* Nothing there now. *)
ReadBlocks(c) ==
  /\ Open(c) /\ unread[c] = 0 /\ ended[c] = "no"
  /\ Return(IF queue THEN "error" ELSE "ok")
  /\ UNCHANGED <<sends, ssl, net, promised, reused, refused>>

(* close_notify is SSL_ERROR_ZERO_RETURN, which is an error to receive().  *)
ReadNotify(c) ==
  /\ Open(c) /\ unread[c] = 0 /\ ended[c] = "notify"
  /\ Return("error")
  /\ UNCHANGED <<sends, ssl, net, promised, reused, refused>>

(* The stream ends without notice: version 3 makes it an error of its own  *)
(* the first time.                                                         *)
ReadUnexpectedEof(c) ==
  /\ Open(c) /\ unread[c] = 0 /\ ended[c] = "eof"
  /\ strict_eof /\ c \notin fatal
  /\ queue' = TRUE /\ fatal' = fatal \cup {c}
  /\ Return("error")
  /\ UNCHANGED <<sends, strict_eof, kept, cut, net, promised, reused, refused>>

(* A mutant: the end is told before the data. *)
Mut_EofFirst(c) ==
  /\ Open(c)
  /\ ended[c] = "reset" \/ (ended[c] = "eof" /\ ~(strict_eof /\ c \notin fatal))
  /\ ended' = [ended EXCEPT ![c] = "eof"]
  /\ Return(IF queue THEN "error" ELSE "disconnected")
  /\ UNCHANGED <<sends, ssl, wire, inflight, arrived, unread, promised, reused, refused>>

(* SSL_ERROR_SYSCALL: with an empty queue m_sock.receive() is asked, which *)
(* finds the end of the stream (after a reset, too, once it was told).     *)
ReadSyscall(c) ==
  /\ Open(c) /\ unread[c] = 0
  /\ ended[c] = "reset" \/ (ended[c] = "eof" /\ ~(strict_eof /\ c \notin fatal))
  /\ ended' = [ended EXCEPT ![c] = "eof"]
  /\ Return(IF queue THEN "error" ELSE "disconnected")
  /\ UNCHANGED <<sends, ssl, wire, inflight, arrived, unread, promised, reused, refused>>

(* SSL_read says no more than that the session is over.  With an empty     *)
(* queue that is SSL_ERROR_SYSCALL too: m_sock.receive() takes whatever    *)
(* has come, which is dropped.                                             *)
ReadCut(c) ==
  /\ Reading(c) /\ c \in cut
  /\ IF queue
     THEN Return("error") /\ UNCHANGED <<unread, ended>>
     ELSE /\ Return(IF ended[c] = "eof" /\ unread[c] = 0 THEN "disconnected"
                                                         ELSE "error")
          /\ unread' = [unread EXCEPT ![c] = 0]
          /\ ended' = [ended EXCEPT ![c] = IF @ = "reset" THEN "eof" ELSE @]
  /\ UNCHANGED <<sends, ssl, wire, inflight, arrived, promised, reused, refused>>

SendStep(c) ==
  \/ WriteRecord(c) \/ WriteDone(c) \/ WriteBlocks(c)
  \/ WriteRefused(c) \/ WriteShort(c) \/ WriteFails(c)

ReceiveStep(c) ==
  \/ ReadData(c) \/ ReadBlocks(c)
  \/ ReadNotify(c) \/ ReadUnexpectedEof(c) \/ ReadSyscall(c) \/ ReadCut(c)

Next ==
  \/ \E c \in Senders, b \in Bufs, n \in 0..MaxRecords : Send(c, b, n)
  \/ \E c \in Senders : SendAgain(c)
  \/ \E c \in Conns, how \in {"notify", "eof", "reset"} : End(c, how)
  \/ \E c \in Conns : Receive(c) \/ Drain(c) \/ Arrive(c)
  \/ \E c \in Conns : SendStep(c) \/ ReceiveStep(c)
  \/ Handshake

(* A running call goes on. *)
Spec == Init /\ [][Next]_vars /\ WF_vars(\E c \in Conns : SendStep(c) \/ ReceiveStep(c))
-----------------------------------------------------------------------------
Records == Nat \X Nat
Writes == [buf : Bufs, msg : Nat, k : Nat \ {0}, len : Nat]
Sends == [op : {"send"}, conn : Conns, buf : Bufs, msg : Nat, len : Nat]
Receives == [op : {"receive"}, conn : Conns]

ThreadType ==
  /\ call \in {Idle} \cup Sends \cup Receives
  /\ retry_count \in 0..MaxRetry /\ sends \in 0..MaxSends
  /\ ret \in Nat /\ (ret > 0 => call.op = "receive")
  /\ told \in [Conns -> {"ok", "error", "timeout", "refused", "disconnected"}]

SslType ==
  /\ strict_eof \in BOOLEAN /\ queue \in BOOLEAN
  /\ kept \in [Conns -> Writes \cup {Nothing}]
  /\ fatal \subseteq Conns /\ cut \subseteq Conns

NetType ==
  /\ wire \in [Conns -> Seq(Records)] /\ inflight \in [Conns -> 0..Room]
  /\ arrived \in [Conns -> Nat] /\ unread \in [Conns -> Nat]
  /\ ended \in [Conns -> {"no", "notify", "eof", "reset"}]

HistoryType ==
  /\ got \in [Conns -> Nat] /\ promised \in [Conns -> Seq(Records)]
  /\ reused \subseteq Conns /\ refused \subseteq Conns

(* Every variable stays in its range, and only receive() collects. *)
TypeOK == ThreadType /\ SslType /\ NetType /\ HistoryType

(* What is on the wire is every message whose send() returned, in order    *)
(* and once, and then the records written of one that was interrupted: a   *)
(* send repeated after "Timeout sending data." goes on where it stopped.   *)
(* Only a caller who puts other data into the buffer that is kept can mix  *)
(* two messages.                                                           *)
WholeMessages ==
  \A c \in Conns \ reused :
    /\ IsPrefix(promised[c], wire[c])
    /\ LET rest == SubSeq(wire[c], Len(promised[c]) + 1, Len(wire[c]))
       IN IF kept[c] = Nothing THEN rest = <<>>
          ELSE rest = [k \in 1..kept[c].k - 1 |-> <<kept[c].msg, k>>]

(* A call that throws for a connection that is alive, and was given the    *)
(* buffer OpenSSL asks for, throws because of another connection of the    *)
(* thread, whose error is still in the queue.                              *)
FailuresAreOwn ==
  \A c \in Conns :
    told[c] = "error" /\ ended[c] = "no" /\ c \notin refused
      => \E d \in Conns \ {c} : d \in refused \cup fatal

(* No receive() drops data: what has arrived was returned, is collected,   *)
(* or waits to be read, through every error.  Only a caller who answers a  *)
(* timeout with a send() of less than was written by then loses data: it   *)
(* ends the session.                                                       *)
NothingDropped ==
  \A c \in Conns \ cut :
    arrived[c] = got[c] + unread[c] + (IF Reading(c) THEN ret ELSE 0)

(* socket_disconnected is thrown when the peer is gone and all of its data *)
(* has been returned, unless the caller has ended the session.             *)
DisconnectedIsLast ==
  \A c \in Conns \ cut :
    told[c] = "disconnected" => ended[c] = "eof" /\ got[c] = arrived[c]

(* send() and receive() come back. *)
CallReturns == call # Idle ~> call = Idle
=============================================================================
