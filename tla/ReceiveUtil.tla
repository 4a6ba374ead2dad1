---------------------------- MODULE ReceiveUtil ----------------------------
(***************************************************************************)
(* The receive utilities over a socket (src/src/socket_util.cpp):          *)
(* receive_until_delimiter, receive_until_size, receive_at_least and       *)
(* receive_remaining, one call after another on the same connection.  They *)
(* are templates over the socket; its receive() is what socket's and       *)
(* tls_socket's have in common, with the steps of both where they differ.  *)
(* They are one loop: look at the clock, call receive(), collect what came *)
(* and test it, or sleep a growing interval when nothing came.             *)
(*                                                                         *)
(* Time is counted from the start of the call; it passes inside receive()  *)
(* and, unit by unit, in the sleep, while the peer may send at any moment. *)
(***************************************************************************)
EXTENDS RetryInterval, Sequences

CONSTANTS
  Byte,      \* values of a byte
  Delim,     \* the delimiter
  Requests,  \* the calls made: utility, size (the limit for the delimiter), time_expire
  Jitter,    \* bound: how much longer than asked a sleep takes
  RecvCost,  \* bound: time one receive() takes
  MaxStream  \* bound: bytes the peer sends

Ops == {"delimiter", "size", "at_least", "remaining"}

ASSUME UtilAssumption ==
  /\ Delim \in Seq(Byte) \ {<<>>}
  /\ Requests # {} /\ Requests \subseteq [op : Ops, size : Nat, expire : Nat]
  /\ Jitter \in Nat /\ RecvCost \in Nat /\ MaxStream \in Nat

VARIABLES
  peer,        \* "open", "closed" or "broken"
  stream,      \* the bytes that have arrived on the connection
  taken,       \* how many of them receive() has taken from the kernel
  request,     \* the call: its operation, size and time_expire
  running,
  ret,         \* what the call has collected
  begin,       \* bytes taken before the call
  retry_count,
  elapsed,     \* steady_clock::now() - start
  wake,        \* when the sleep ends
  outcome

conn == <<peer, stream>>
clock == <<elapsed, wake>>
vars == <<peer, stream, taken, request, running, ret, begin, retry_count,
          elapsed, wake, outcome>>

Outcomes == {"none", "ok", "timeout", "excess", "disconnected", "error"}

Init ==
  /\ peer = "open" /\ stream = <<>> /\ taken = 0
  /\ request \in Requests /\ running = FALSE
  /\ ret = <<>> /\ begin = 0 /\ retry_count = 0
  /\ elapsed = 0 /\ wake = 0 /\ outcome = "none"
-----------------------------------------------------------------------------
(* The peer. *)

Arrive(b) ==
  /\ peer = "open" /\ Len(stream) < MaxStream
  /\ stream' = Append(stream, b)
  /\ UNCHANGED <<peer, taken, request, running, ret, begin, retry_count,
                 clock, outcome>>

Hangup ==
  /\ peer = "open"
  /\ peer' \in {"closed", "broken"}
  /\ UNCHANGED <<stream, taken, request, running, ret, begin, retry_count,
                 clock, outcome>>
-----------------------------------------------------------------------------
(* The call. *)

HasDelim(s) ==
  \E i \in 0..Len(s) - Len(Delim) : SubSeq(s, i + 1, i + Len(Delim)) = Delim

(* The call has what it was asked for. *)
Satisfied(s) ==
  CASE request.op = "delimiter" -> HasDelim(s)
    [] request.op = "at_least" -> Len(s) >= request.size
    [] OTHER -> Len(s) = request.size

(* The collected bytes would pass the limit. *)
Excess(n) == request.op # "at_least" /\ n > request.size

(* A call begins.  The size of receive_remaining() is what its buffer      *)
(* lacks of total_size; when it lacks nothing the call does nothing.       *)
Call(r) ==
  /\ ~running
  /\ request' = r
  /\ begin' = taken /\ ret' = <<>> /\ retry_count' = 0
  /\ elapsed' = 0 /\ wake' = 0
  /\ running' = ~(r.op = "remaining" /\ r.size = 0)
  /\ outcome' = IF running' THEN "none" ELSE "ok"
  /\ UNCHANGED <<conn, taken>>

Looking == running /\ wake <= elapsed

Finish(how) == running' = FALSE /\ outcome' = how

GoOn == UNCHANGED <<running, outcome>>

(* The loop's condition fails: socket_timeout. *)
Expired ==
  /\ Looking /\ elapsed >= request.expire
  /\ Finish("timeout")
  /\ UNCHANGED <<conn, taken, request, ret, begin, retry_count, clock>>

Receive == Looking /\ elapsed < request.expire

Waiting == SubSeq(stream, taken + 1, Len(stream))

Spend == \E c \in 0..RecvCost : elapsed' = elapsed + c

(* A mutant: the delimiter is looked for in the new bytes only. *)
Mut_SearchNewOnly ==
  /\ Receive /\ Waiting # <<>>
  /\ Spend
  /\ taken' = Len(stream)
  /\ \/ /\ Excess(Len(ret) + Len(Waiting))
        /\ Finish("excess")
        /\ UNCHANGED <<ret, retry_count>>
     \/ /\ ~Excess(Len(ret) + Len(Waiting))
        /\ ret' = ret \o Waiting
        /\ IF request.op = "delimiter" /\ HasDelim(Waiting) THEN Finish("ok") ELSE GoOn
        /\ retry_count' = 0
  /\ UNCHANGED <<conn, request, begin, wake>>

(* A mutant: each receive() overwrites what was collected. *)
Mut_Overwrite ==
  /\ Receive /\ Waiting # <<>>
  /\ Spend
  /\ taken' = Len(stream)
  /\ \/ /\ Excess(Len(ret) + Len(Waiting))
        /\ Finish("excess")
        /\ UNCHANGED <<ret, retry_count>>
     \/ /\ ~Excess(Len(ret) + Len(Waiting))
        /\ ret' = Waiting
        /\ IF Satisfied(ret') THEN Finish("ok") ELSE GoOn
        /\ retry_count' = 0
  /\ UNCHANGED <<conn, request, begin, wake>>

(* receive() returns data: check the limit, collect, test, or go on.  That *)
(* of tls_socket returns it even when the connection has broken.           *)
Collect ==
  /\ Receive /\ Waiting # <<>>
  /\ Spend
  /\ taken' = Len(stream)
  /\ \/ /\ Excess(Len(ret) + Len(Waiting))
        /\ Finish("excess")
        /\ UNCHANGED <<ret, retry_count>>
     \/ /\ ~Excess(Len(ret) + Len(Waiting))
        /\ ret' = ret \o Waiting
        /\ IF Satisfied(ret') THEN Finish("ok") ELSE GoOn
        /\ retry_count' = 0
  /\ UNCHANGED <<conn, request, begin, wake>>

(* A mutant: no sleep when nothing came. *)
Mut_NoSleep ==
  /\ Receive /\ Waiting = <<>> /\ peer = "open"
  /\ elapsed' = elapsed /\ wake' = elapsed'
  /\ retry_count' = Clamped(retry_count + 1)
  /\ UNCHANGED <<conn, taken, request, running, ret, begin, outcome>>

(* receive() returns nothing: sleep, a little longer at every retry.  The  *)
(* count is kept up to MaxRetry, from where the interval is the same.      *)
Pause ==
  /\ Receive /\ Waiting = <<>> /\ peer = "open"
  /\ Spend
  /\ retry_count' = Clamped(retry_count + 1)
  /\ \E j \in 0..Jitter :
       wake' = elapsed' + calculate_interval_retry(retry_count + 1) + j
  /\ UNCHANGED <<conn, taken, request, running, ret, begin, outcome>>

Sleep ==
  /\ running /\ elapsed < wake
  /\ elapsed' = elapsed + 1
  /\ UNCHANGED <<conn, taken, request, running, ret, begin, retry_count, wake, outcome>>

(* receive() throws.  On a broken connection socket's takes the last bytes *)
(* from the kernel and drops them with its exception; the kernel reports   *)
(* the error once, and an end of connection from then on.  To tls_socket's *)
(* a close_notify is an error, and a connection that broke may have ended. *)
ReceiveThrows ==
  /\ Receive
  /\ (peer = "closed" /\ Waiting = <<>>) \/ peer = "broken"
  /\ Finish("disconnected") \/ Finish("error")
  /\ peer' = "closed"
  /\ Spend
  /\ taken' = Len(stream)
  /\ UNCHANGED <<stream, request, ret, begin, retry_count, wake>>

Step == Expired \/ Collect \/ Pause \/ Sleep \/ ReceiveThrows

Next ==
  \/ \E b \in Byte : Arrive(b)
  \/ Hangup
  \/ \E r \in Requests : Call(r)
  \/ Step

(* The calling thread is scheduled. *)
Spec == Init /\ [][Next]_vars /\ WF_vars(Step)
-----------------------------------------------------------------------------
(* Every variable stays in its range, and no call but receive_at_least()   *)
(* collects more than its limit.                                           *)
TypeOK ==
  /\ peer \in {"open", "closed", "broken"}
  /\ stream \in Seq(Byte) /\ Len(stream) <= MaxStream
  /\ ret \in Seq(Byte)
  /\ request.op # "at_least" => Len(ret) <= request.size
  /\ request \in Requests /\ running \in BOOLEAN /\ outcome \in Outcomes
  /\ begin \in 0..taken /\ taken \in 0..Len(stream)
  /\ retry_count \in 0..MaxRetry
  /\ elapsed \in Nat /\ wake \in Nat

(* What a call collects, over any number of receives of any sizes, is what *)
(* came off the connection since the call began: nothing is skipped, and   *)
(* nothing of an earlier call is returned again.                           *)
CollectsTheStream ==
  running \/ outcome \in {"ok", "timeout"} => ret = SubSeq(stream, begin + 1, taken)

(* A call that goes on waiting, or gives up, does not have what it was     *)
(* asked for: no delimiter is missed where two receives meet.              *)
NotYet == running \/ outcome = "timeout" => ~Satisfied(ret)

(* No call outlives its time_expire by more than the longest pause, or by  *)
(* the one receive() that was running when it passed.                      *)
Punctual ==
  elapsed < request.expire + RecvCost + StepMax + Jitter

(* Every call ends, whatever the peer does. *)
CallEnds == running ~> ~running
=============================================================================
