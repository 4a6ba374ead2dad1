-------------------------- MODULE UnixStream_proofs --------------------------
(***************************************************************************)
(* Proofs about UnixStream for every size of packets and buffers and every *)
(* limit of retries.  The argument: each step that touches the bytes cuts  *)
(* a sequence in two and moves one part to the end of the next place, so   *)
(* the places, put one after the other, stay the same sequence; only a     *)
(* break of the connection and a full buffer take bytes away.              *)
(***************************************************************************)
EXTENDS UnixStream, SequenceTheorems, TLAPS

(* Two sequences that agree with the two ends of a third make it up. *)
LEMMA Join ==
  ASSUME NEW S, NEW x \in Seq(S), NEW y \in Seq(S), NEW a \in Seq(S),
         Len(x) + Len(y) = Len(a),
         \A i \in 1..Len(x) : x[i] = a[i],
         \A i \in 1..Len(y) : y[i] = a[Len(x) + i]
  PROVE  x \o y = a
<1>1. Len(x) \in Nat /\ Len(y) \in Nat
  BY LenProperties
<1>2. /\ x \o y \in Seq(S) /\ Len(x \o y) = Len(a)
      /\ \A i \in 1..Len(a) : (x \o y)[i] = IF i <= Len(x) THEN x[i] ELSE y[i - Len(x)]
  BY ConcatProperties
<1>3. \A i \in 1..Len(a) : (x \o y)[i] = a[i]
  BY <1>1, <1>2
<1> QED BY <1>2, <1>3, SeqEqual

(* A sequence is what comes before a cut and what comes after it. *)
LEMMA Split ==
  ASSUME NEW S, NEW a \in Seq(S), NEW n \in 0..Len(a)
  PROVE  /\ SubSeq(a, 1, n) \in Seq(S) /\ SubSeq(a, n + 1, Len(a)) \in Seq(S)
         /\ Len(SubSeq(a, 1, n)) = n /\ Len(SubSeq(a, n + 1, Len(a))) = Len(a) - n
         /\ \A i \in 1..n : SubSeq(a, 1, n)[i] = a[i]
         /\ \A i \in 1..Len(a) - n : SubSeq(a, n + 1, Len(a))[i] = a[n + i]
         /\ SubSeq(a, 1, n) \o SubSeq(a, n + 1, Len(a)) = a
<1>1. Len(a) \in Nat /\ \A i \in 1..Len(a) : a[i] \in S
  BY LenProperties, ElementOfSeq
<1>2. /\ SubSeq(a, 1, n) \in Seq(S)
      /\ Len(SubSeq(a, 1, n)) = n
      /\ \A i \in 1..n : SubSeq(a, 1, n)[i] = a[i]
  BY <1>1, SubSeqProperties
<1>3. /\ SubSeq(a, n + 1, Len(a)) \in Seq(S)
      /\ Len(SubSeq(a, n + 1, Len(a))) = Len(a) - n
      /\ \A i \in 1..Len(a) - n : SubSeq(a, n + 1, Len(a))[i] = a[n + i]
  BY <1>1, SubSeqProperties
<1>4. ASSUME NEW x \in Seq(S), NEW y \in Seq(S),
             Len(x) = n, \A i \in 1..n : x[i] = a[i],
             Len(y) = Len(a) - n, \A i \in 1..Len(a) - n : y[i] = a[n + i]
      PROVE  x \o y = a
  <2>1. Len(x) + Len(y) = Len(a)
    BY <1>1, <1>4
  <2>2. \A i \in 1..Len(x) : x[i] = a[i]
    BY <1>4
  <2>3. \A i \in 1..Len(y) : y[i] = a[Len(x) + i]
    BY <1>4
  <2> QED BY <2>1, <2>2, <2>3, Join
<1>5. SubSeq(a, 1, n) \o SubSeq(a, n + 1, Len(a)) = a
  BY <1>2, <1>3, <1>4, Zenon
<1> QED BY <1>2, <1>3, <1>5

(* Cutting where two sequences meet gives them back. *)
LEMMA Meet ==
  ASSUME NEW S, NEW a \in Seq(S), NEW b \in Seq(S)
  PROVE  /\ a \o b \in Seq(S) /\ Len(a \o b) = Len(a) + Len(b)
         /\ SubSeq(a \o b, 1, Len(a)) = a
         /\ SubSeq(a \o b, Len(a) + 1, Len(a \o b)) = b
<1>1. /\ a \o b \in Seq(S) /\ Len(a \o b) = Len(a) + Len(b)
      /\ Len(a) \in Nat /\ Len(b) \in Nat
  BY ConcatProperties, LenProperties
<1>2. \A i \in 1..Len(a) : (a \o b)[i] = a[i]
  BY <1>1, ConcatProperties
<1>3. \A i \in 1..Len(b) : (a \o b)[Len(a) + i] = b[i]
  BY <1>1, ConcatProperties
<1>4. SubSeq(a \o b, 1, Len(a)) = a
  BY <1>1, <1>2, Split, SeqEqual
<1>5. SubSeq(a \o b, Len(a) + 1, Len(a \o b)) = b
  BY <1>1, <1>3, Split, SeqEqual
<1> QED BY <1>1, <1>4, <1>5

LEMMA Prefix ==
  ASSUME NEW S, NEW a \in Seq(S), NEW t \in Seq(S)
  PROVE  IsPrefix(a, t) <=> \E u \in Seq(S) : t = a \o u
<1>1. ASSUME IsPrefix(a, t) PROVE \E u \in Seq(S) : t = a \o u
  <2>1. Len(a) \in 0..Len(t) /\ SubSeq(t, 1, Len(a)) = a
    BY <1>1, SubSeqFull, LenProperties DEF IsPrefix
  <2>2. /\ SubSeq(t, Len(a) + 1, Len(t)) \in Seq(S)
        /\ a \o SubSeq(t, Len(a) + 1, Len(t)) = t
    BY <2>1, Split
  <2> QED BY <2>2
<1>2. ASSUME NEW u \in Seq(S), t = a \o u PROVE IsPrefix(a, t)
  BY <1>2, Meet, SubSeqFull, LenProperties DEF IsPrefix
<1> QED BY <1>1, <1>2

LEMMA Cat ==
  \A a, b \in Seq(Bytes) : a \o b \in Seq(Bytes) /\ Len(a \o b) = Len(a) + Len(b)
<1> TAKE a, b \in Seq(Bytes)
<1> QED BY ConcatProperties

LEMMA Regroup ==
  \A a, b, c \in Seq(Bytes) : (a \o b) \o c = a \o (b \o c)
<1> TAKE a, b, c \in Seq(Bytes)
<1> QED BY ConcatAssociative

-----------------------------------------------------------------------------
(* Types. *)

(* What a step may cut off: no more than there is. *)
LEMMA Sizes ==
  ASSUME TypeOK
  PROVE  /\ Chunk \in 0..Len(data_span) /\ (data_span # <<>> => Chunk >= 1)
         /\ \A n \in 1..MinOf(Chunk, SndCap - Len(sndbuf)) :
              n \in 0..Len(data_span) /\ n <= SndCap - Len(sndbuf)
         /\ MinOf(Len(rcvbuf), Packet) \in 0..Len(rcvbuf)
<1>1. /\ data_span \in Seq(Bytes) /\ rcvbuf \in Seq(Bytes) /\ sndbuf \in Seq(Bytes)
      /\ Packet \in Nat \ {0} /\ SndCap \in Nat \ {0}
  BY StreamAssumption DEF TypeOK
<1>2. /\ Len(data_span) \in Nat /\ Len(rcvbuf) \in Nat /\ Len(sndbuf) \in Nat
      /\ data_span # <<>> => Len(data_span) # 0
  BY <1>1, LenProperties, EmptySeq
<1> QED BY <1>1, <1>2 DEF Chunk, MinOf

LEMMA NextType == TypeOK /\ [Next]_vars => TypeOK'
<1> SUFFICES ASSUME TypeOK, [Next]_vars PROVE TypeOK'
  OBVIOUS
<1>1. /\ data_span \in Seq(Bytes) /\ accepted \in Seq(Bytes) /\ sndbuf \in Seq(Bytes)
      /\ rcvbuf \in Seq(Bytes) /\ ret \in Seq(Bytes) /\ got \in Seq(Bytes)
      /\ <<>> \in Seq(Bytes) /\ Len(<<>>) = 0
      /\ MaxBytes \in Nat /\ MaxRetry \in Nat /\ SndCap \in Nat /\ RcvCap \in Nat
  BY StreamAssumption, EmptySeq DEF TypeOK
<1> USE DEF TypeOK, sender, kernel, receiver
<1>2. ASSUME NEW n \in 1..MaxWrite, SendCall(n) PROVE TypeOK'
  <2>1. MaxWrite \in Nat /\ n \in Nat
    BY StreamAssumption
  <2>2. data_span' \in Seq(Bytes)
    BY <1>1, <1>2, <2>1 DEF SendCall, Bytes
  <2>3. /\ handed' \in 0..MaxBytes /\ sending' = TRUE /\ retry_count' = 0
        /\ UNCHANGED <<system, open, failed, full, kernel, receiver>>
    BY <1>1, <1>2, <2>1 DEF SendCall
  <2> QED BY <1>1, <2>2, <2>3
<1>3. ASSUME SendAccepted PROVE TypeOK'
  <2>1. PICK n \in 1..MinOf(Chunk, SndCap - Len(sndbuf)) :
          /\ sndbuf' = sndbuf \o SubSeq(data_span, 1, n)
          /\ accepted' = accepted \o SubSeq(data_span, 1, n)
          /\ data_span' = SubSeq(data_span, n + 1, Len(data_span))
    BY <1>3 DEF SendAccepted, Shrink
  <2>2. n \in 0..Len(data_span) /\ n <= SndCap - Len(sndbuf)
    BY Sizes
  <2>3. /\ SubSeq(data_span, 1, n) \in Seq(Bytes) /\ Len(SubSeq(data_span, 1, n)) = n
        /\ SubSeq(data_span, n + 1, Len(data_span)) \in Seq(Bytes)
    BY <1>1, <2>2, Split
  <2>4. /\ sndbuf' \in Seq(Bytes) /\ Len(sndbuf') = Len(sndbuf) + n
        /\ accepted' \in Seq(Bytes) /\ data_span' \in Seq(Bytes)
    <3> DEFINE cut == SubSeq(data_span, 1, n)
    <3>1. /\ sndbuf \in Seq(Bytes) /\ accepted \in Seq(Bytes) /\ cut \in Seq(Bytes)
          /\ Len(cut) = n
      BY <1>1, <2>3
    <3> HIDE DEF cut
    <3>2. sndbuf \o cut \in Seq(Bytes) /\ Len(sndbuf \o cut) = Len(sndbuf) + n
      <4>1. sndbuf \o cut \in Seq(Bytes) /\ Len(sndbuf \o cut) = Len(sndbuf) + Len(cut)
        BY <3>1, Cat, Zenon
      <4> QED BY <3>1, <4>1
    <3>3. accepted \o cut \in Seq(Bytes)
      BY <3>1, Cat, Zenon
    <3> QED BY <2>1, <2>3, <3>2, <3>3 DEF cut
  <2>5. Len(sndbuf') <= SndCap
    <3>1. Len(sndbuf) \in Nat /\ n \in Int /\ SndCap \in Nat
      BY <1>1, LenProperties
    <3> QED BY <2>2, <2>4, <3>1
  <2>6. /\ retry_count' = 0
        /\ UNCHANGED <<handed, sending, system, failed, full, open, reset, err,
                       rcvbuf, receiver>>
    BY <1>3 DEF SendAccepted
  <2>7. sending' /\ (~receiving' => ret' = <<>>) /\ Len(rcvbuf') <= RcvCap
    BY <1>3, <2>6 DEF SendAccepted, SendLooping
  <2>8. retry_count' \in 0..MaxRetry
    BY <1>1, <2>6
  <2> QED BY <2>4, <2>5, <2>6, <2>7, <2>8
<1>4. ASSUME SendWouldBlock PROVE TypeOK'
  <2>1. data_span' \in Seq(Bytes)
    BY <1>1, <1>4, Sizes, Split DEF SendWouldBlock, Shrink
  <2> QED BY <1>1, <1>4, <2>1 DEF SendWouldBlock, SendLooping
<1>5. ASSUME SendThrows \/ WinSendThrows PROVE TypeOK'
  BY <1>1, <1>5 DEF SendThrows, WinSendThrows
<1>6. ASSUME SendReturn \/ Disconnect PROVE TypeOK'
  BY <1>1, <1>6 DEF SendReturn, Disconnect
<1>7. ASSUME Deliver PROVE TypeOK'
  <2>1. /\ rcvbuf' \in Seq(Bytes) /\ Len(rcvbuf') = Len(rcvbuf) + 1
        /\ sndbuf' \in Seq(Bytes) /\ Len(sndbuf') = Len(sndbuf) - 1
    BY <1>1, <1>7, HeadTailProperties, AppendProperties DEF Deliver
  <2>2. Len(rcvbuf') <= RcvCap /\ Len(sndbuf') <= SndCap
    BY <1>1, <1>7, <2>1, LenProperties DEF Deliver
  <2> QED BY <1>1, <1>7, <2>1, <2>2 DEF Deliver
<1>8. ASSUME Reset PROVE TypeOK'
  BY <1>1, <1>8 DEF Reset
<1>9. ASSUME ReceiveCall PROVE TypeOK'
  BY <1>1, <1>9 DEF ReceiveCall
<1>10. ASSUME RecvData PROVE TypeOK'
  <2> DEFINE n == MinOf(Len(rcvbuf), Packet)
  <2>a. n \in 0..Len(rcvbuf) /\ Len(rcvbuf) \in Nat
    BY <1>1, Sizes, LenProperties
  <2>b. ret' = ret \o SubSeq(rcvbuf, 1, n) /\ rcvbuf' = SubSeq(rcvbuf, n + 1, Len(rcvbuf))
    BY <1>10 DEF RecvData
  <2> HIDE DEF n
  <2>c. SubSeq(rcvbuf, 1, n) \in Seq(Bytes)
    BY <1>1, <2>a, Split
  <2>d. rcvbuf' \in Seq(Bytes) /\ Len(rcvbuf') = Len(rcvbuf) - n
    BY <1>1, <2>a, <2>b, Split
  <2>1. /\ ret' \in Seq(Bytes) /\ rcvbuf' \in Seq(Bytes)
        /\ Len(rcvbuf') <= Len(rcvbuf)
    BY <1>1, <2>a, <2>b, <2>c, <2>d, ConcatProperties
  <2>2. Len(rcvbuf') <= RcvCap
    BY <1>1, <2>1, LenProperties
  <2> QED BY <1>1, <1>10, <2>1, <2>2 DEF RecvData
<1>11. ASSUME RecvWouldBlock \/ RecvEof \/ RecvError PROVE TypeOK'
  <2>1. got \o ret \in Seq(Bytes)
    BY <1>1, ConcatProperties
  <2> QED BY <1>1, <1>11, <2>1 DEF RecvWouldBlock, RecvEof, RecvError, Return
<1>12. CASE UNCHANGED vars
  BY <1>12 DEF vars
<1> QED BY <1>2, <1>3, <1>4, <1>5, <1>6, <1>7, <1>8, <1>9, <1>10, <1>11, <1>12
        DEF Next, SendStep, RecvStep
-----------------------------------------------------------------------------
(* Where the bytes are. *)

(* What is still to be passed to the kernel is the end of what was handed  *)
(* over; after "Socket closed normally." nothing is left anywhere.         *)
Shape ==
  /\ sending => open
  /\ reset => sndbuf = <<>>
  /\ Len(data_span) <= handed
  /\ \A i \in 1..Len(data_span) : data_span[i] = handed - Len(data_span) + i
  /\ outcome = "disconnected" /\ ~reset
       => ~open /\ sndbuf = <<>> /\ rcvbuf = <<>> /\ ret = <<>>

LEMMA NextShape == TypeOK /\ Shape /\ [Next]_vars => Shape'
<1> SUFFICES ASSUME TypeOK, Shape, [Next]_vars PROVE Shape'
  OBVIOUS
<1>1. /\ data_span \in Seq(Bytes) /\ Len(data_span) \in Nat
      /\ <<>> \in Seq(Bytes) /\ Len(<<>>) = 0 /\ handed \in Nat
  BY LenProperties, EmptySeq DEF TypeOK
<1> USE DEF Shape, sender, kernel, receiver
<1>2. ASSUME NEW n \in 1..MaxWrite, SendCall(n) PROVE Shape'
  <2>1. n \in Nat
    BY StreamAssumption
  <2>2. /\ Len(data_span') = n /\ handed' = handed + n
        /\ \A i \in 1..n : data_span'[i] = handed + i
    BY <1>1, <1>2, <2>1 DEF SendCall
  <2> QED BY <1>1, <1>2, <2>1, <2>2 DEF SendCall
<1>3. ASSUME NEW n \in 0..Len(data_span), Shrink(n)
      PROVE  /\ Len(data_span') = Len(data_span) - n
             /\ \A i \in 1..Len(data_span') : data_span'[i] = handed - Len(data_span') + i
  <2>1. Len(data_span') = Len(data_span) - n
    BY <1>1, <1>3, Split DEF Shrink
  <2>2. \A i \in 1..Len(data_span) - n : data_span'[i] = data_span[n + i]
    BY <1>1, <1>3, Split DEF Shrink
  <2>3. \A i \in 1..Len(data_span) - n : n + i \in 1..Len(data_span)
    BY <1>1
  <2>4. \A i \in 1..Len(data_span) - n :
          data_span'[i] = handed - (Len(data_span) - n) + i
    BY <1>1, <2>2, <2>3
  <2> QED BY <2>1, <2>4
<1>4. ASSUME SendAccepted PROVE Shape'
  <2>1. PICK n \in 0..Len(data_span) : Shrink(n)
    BY <1>4, Sizes DEF SendAccepted
  <2>2. UNCHANGED handed /\ ~reset /\ UNCHANGED <<open, sending, reset, outcome>>
        /\ sending /\ ~(outcome = "disconnected" /\ ~reset)
    BY <1>4 DEF SendAccepted, SendLooping
  <2> QED BY <1>1, <1>3, <2>1, <2>2
<1>5. ASSUME SendWouldBlock PROVE Shape'
  <2>1. Chunk \in 0..Len(data_span) /\ Shrink(Chunk)
    BY <1>5, Sizes DEF SendWouldBlock
  <2>2. UNCHANGED <<handed, open, sending, kernel, receiver>>
    BY <1>5 DEF SendWouldBlock
  <2> QED BY <1>1, <1>3, <2>1, <2>2
<1>6. ASSUME SendThrows \/ WinSendThrows PROVE Shape'
  BY <1>1, <1>6 DEF SendThrows, WinSendThrows
<1>7. ASSUME SendReturn \/ Disconnect PROVE Shape'
  BY <1>7 DEF SendReturn, Disconnect
<1>8. ASSUME Deliver \/ Reset \/ ReceiveCall PROVE Shape'
  <2>1. CASE Deliver
    BY <2>1 DEF Deliver
  <2>2. CASE Reset
    BY <2>2 DEF Reset, TypeOK
  <2>3. CASE ReceiveCall
    BY <2>3 DEF ReceiveCall
  <2> QED BY <1>8, <2>1, <2>2, <2>3
<1>9. ASSUME RecvData PROVE Shape'
  BY <1>9 DEF RecvData
<1>10. ASSUME RecvWouldBlock \/ RecvEof \/ RecvError PROVE Shape'
  BY <1>10 DEF RecvWouldBlock, RecvEof, RecvError, Return, FinArrived
<1>11. CASE UNCHANGED vars
  BY <1>11 DEF vars
<1> QED BY <1>2, <1>4, <1>5, <1>6, <1>7, <1>8, <1>9, <1>10, <1>11
        DEF Next, SendStep, RecvStep

Behind == got \o ret \o rcvbuf

LEMMA Places ==
  ASSUME TypeOK
  PROVE  /\ data_span \in Seq(Bytes) /\ accepted \in Seq(Bytes) /\ sndbuf \in Seq(Bytes)
         /\ rcvbuf \in Seq(Bytes) /\ ret \in Seq(Bytes) /\ got \in Seq(Bytes)
         /\ got \o ret \in Seq(Bytes) /\ Behind \in Seq(Bytes) /\ <<>> \in Seq(Bytes)
  BY ConcatProperties, EmptySeq DEF TypeOK, Behind

(* A step of the receiver moves bytes, and drops them only with an error.  *)
LEMMA Received ==
  ASSUME TypeOK, RecvData \/ RecvWouldBlock \/ RecvEof \/ RecvError
  PROVE  Behind' = Behind \/ (RecvError /\ Behind' = got /\ Behind = got \o ret)
<1>0. /\ data_span \in Seq(Bytes) /\ accepted \in Seq(Bytes) /\ sndbuf \in Seq(Bytes)
      /\ rcvbuf \in Seq(Bytes) /\ ret \in Seq(Bytes) /\ got \in Seq(Bytes)
  BY Places
<1>b. got \o ret \in Seq(Bytes) /\ Behind \in Seq(Bytes) /\ <<>> \in Seq(Bytes)
  BY Places
<1>1. /\ (got \o ret) \o <<>> = got \o ret /\ got \o <<>> = got
  BY <1>0, <1>b, ConcatEmptySeq
<1>2. ASSUME RecvData PROVE Behind' = Behind
  <2> DEFINE n == MinOf(Len(rcvbuf), Packet)
  <2>1. n \in 0..Len(rcvbuf)
    BY Sizes
  <2>2. /\ ret' = ret \o SubSeq(rcvbuf, 1, n) /\ got' = got
        /\ rcvbuf' = SubSeq(rcvbuf, n + 1, Len(rcvbuf))
    BY <1>2 DEF RecvData
  <2> HIDE DEF n
  <2>3. PICK x \in Seq(Bytes), y \in Seq(Bytes) :
          ret' = ret \o x /\ rcvbuf' = y /\ x \o y = rcvbuf
    <3>1. /\ SubSeq(rcvbuf, 1, n) \in Seq(Bytes)
          /\ SubSeq(rcvbuf, n + 1, Len(rcvbuf)) \in Seq(Bytes)
          /\ SubSeq(rcvbuf, 1, n) \o SubSeq(rcvbuf, n + 1, Len(rcvbuf)) = rcvbuf
      BY <1>0, <2>1, Split
    <3> QED BY <2>2, <3>1
  <2>4. (got \o (ret \o x)) \o y = (got \o ret) \o (x \o y)
    <3>0. got \in Seq(Bytes) /\ ret \in Seq(Bytes)
      BY <1>0
    <3>1. got \o (ret \o x) = (got \o ret) \o x
      <4>1. \A c \in Seq(Bytes) : (got \o ret) \o c = got \o (ret \o c)
        BY <3>0, Regroup, Zenon
      <4> QED BY <4>1, Zenon
    <3>2. ((got \o ret) \o x) \o y = (got \o ret) \o (x \o y)
      <4>1. \A c \in Seq(Bytes) : ((got \o ret) \o x) \o c = (got \o ret) \o (x \o c)
        BY <1>b, Regroup, Zenon
      <4> QED BY <4>1, Zenon
    <3> QED BY <3>1, <3>2
  <2> QED BY <2>2, <2>3, <2>4 DEF Behind
<1>3. ASSUME RecvWouldBlock \/ RecvEof PROVE Behind' = Behind
  <2>1. /\ rcvbuf = <<>> /\ rcvbuf' = <<>> /\ ret' = <<>>
        /\ got' = got \o ret \/ (ret = <<>> /\ got' = got)
    BY <1>3 DEF RecvWouldBlock, RecvEof, Return, kernel
  <2> QED BY <1>1, <2>1 DEF Behind
<1>4. ASSUME RecvError PROVE Behind' = got /\ Behind = got \o ret
  <2>1. rcvbuf = <<>> /\ rcvbuf' = <<>> /\ ret' = <<>> /\ got' = got
    BY <1>4 DEF RecvError, Return
  <2> QED BY <1>1, <2>1 DEF Behind
<1> QED BY <1>2, <1>3, <1>4

LEMMA NextConserved == TypeOK /\ Conserved /\ [Next]_vars => Conserved'
<1> SUFFICES ASSUME TypeOK, Conserved, [Next]_vars PROVE Conserved'
  OBVIOUS
<1> USE DEF sender, kernel, receiver
<1>0. /\ data_span \in Seq(Bytes) /\ accepted \in Seq(Bytes) /\ sndbuf \in Seq(Bytes)
      /\ rcvbuf \in Seq(Bytes) /\ ret \in Seq(Bytes) /\ got \in Seq(Bytes)
  BY Places
<1>b. got \o ret \in Seq(Bytes) /\ Behind \in Seq(Bytes) /\ <<>> \in Seq(Bytes)
  BY Places
<1>1. /\ accepted' \in Seq(Bytes) /\ sndbuf' \in Seq(Bytes)
      /\ got' \in Seq(Bytes) /\ ret' \in Seq(Bytes) /\ rcvbuf' \in Seq(Bytes)
  BY NextType DEF TypeOK
<1>2. Behind' \in Seq(Bytes)
  <2>1. got' \o ret' \in Seq(Bytes)
    BY <1>1, ConcatProperties
  <2> QED BY <1>1, <2>1, ConcatProperties DEF Behind
<1>3. ASSUME reset' \/ accepted' = Behind' \o sndbuf',
             \E u \in Seq(Bytes) : accepted' = Behind' \o u
      PROVE  Conserved'
  <2>1. IsPrefix(Behind', accepted')
    BY <1>1, <1>2, <1>3, Prefix
  <2> QED BY <1>3, <2>1 DEF Conserved, Behind
<1>4. PICK u \in Seq(Bytes) :
        accepted = Behind \o u /\ (~reset => u = sndbuf)
  <2>1. IsPrefix(Behind, accepted) /\ (~reset => accepted = Behind \o sndbuf)
    BY DEF Conserved, Behind
  <2>2. CASE reset
    BY <1>0, <1>b, <2>1, <2>2, Prefix
  <2>3. CASE ~reset
    BY <1>0, <1>b, <2>1, <2>3
  <2> QED BY <2>2, <2>3
<1>5. ASSUME UNCHANGED <<Behind, accepted, sndbuf, reset>> PROVE Conserved'
  BY <1>3, <1>4, <1>5
<1>6. ASSUME UNCHANGED <<got, ret, rcvbuf>> PROVE UNCHANGED Behind
  BY <1>6 DEF Behind
<1>7. ASSUME SendAccepted PROVE Conserved'
  <2>1. PICK n \in 0..Len(data_span) :
          /\ sndbuf' = sndbuf \o SubSeq(data_span, 1, n)
          /\ accepted' = accepted \o SubSeq(data_span, 1, n)
    BY <1>7, Sizes DEF SendAccepted
  <2>2. SubSeq(data_span, 1, n) \in Seq(Bytes)
    BY <1>0, Split
  <2>3. ~reset /\ ~reset' /\ UNCHANGED Behind
    BY <1>6, <1>7 DEF SendAccepted
  <2>4. accepted' = Behind \o sndbuf'
    <3>0. Behind \in Seq(Bytes) /\ sndbuf \in Seq(Bytes)
      BY <1>0, <1>b
    <3>1. (Behind \o sndbuf) \o SubSeq(data_span, 1, n)
            = Behind \o (sndbuf \o SubSeq(data_span, 1, n))
      <4>1. \A c \in Seq(Bytes) :
              (Behind \o sndbuf) \o c = Behind \o (sndbuf \o c)
        BY <3>0, Regroup, Zenon
      <4> QED BY <2>2, <4>1, Zenon
    <3> QED BY <1>4, <2>1, <2>3, <3>1
  <2> QED BY <1>1, <1>3, <2>3, <2>4
<1>8. ASSUME Deliver PROVE Conserved'
  <2>1. PICK x \in Seq(Bytes) :
          rcvbuf' = rcvbuf \o x /\ sndbuf = x \o sndbuf' /\ x = <<Head(sndbuf)>>
    <3>1. /\ sndbuf # <<>> /\ Head(sndbuf) \in Bytes
          /\ <<Head(sndbuf)>> \in Seq(Bytes)
      BY <1>0, <1>8, HeadTailProperties DEF Deliver
    <3>2. rcvbuf' = rcvbuf \o <<Head(sndbuf)>> /\ sndbuf' = Tail(sndbuf)
      BY <1>0, <1>8, <3>1, AppendIsConcat DEF Deliver
    <3>3. sndbuf = <<Head(sndbuf)>> \o Tail(sndbuf)
      BY <1>0, <3>1
    <3> QED BY <3>1, <3>2, <3>3
  <2>2. ~reset /\ ~reset' /\ UNCHANGED <<got, ret, accepted>>
    BY <1>8 DEF Deliver
  <2>3. Behind' = Behind \o x
    <3>0. got \o ret \in Seq(Bytes) /\ rcvbuf \in Seq(Bytes)
      BY <1>0, <1>b
    <3>1. (got \o ret) \o (rcvbuf \o x) = ((got \o ret) \o rcvbuf) \o x
      <4>1. \A c \in Seq(Bytes) :
              ((got \o ret) \o rcvbuf) \o c = (got \o ret) \o (rcvbuf \o c)
        BY <3>0, Regroup, Zenon
      <4> QED BY <4>1, Zenon
    <3> QED BY <2>1, <2>2, <3>1 DEF Behind
  <2>4. (Behind \o x) \o sndbuf' = Behind \o (x \o sndbuf')
    <3>0. Behind \in Seq(Bytes) /\ sndbuf' \in Seq(Bytes)
      BY <1>1, <1>b
    <3>1. \A c \in Seq(Bytes) : (Behind \o x) \o c = Behind \o (x \o c)
      BY <3>0, Regroup, Zenon
    <3> QED BY <3>0, <3>1, Zenon
  <2>5. accepted' = Behind' \o sndbuf'
    BY <1>4, <2>1, <2>2, <2>3, <2>4
  <2> QED BY <1>1, <1>3, <2>5
<1>9. ASSUME Reset PROVE Conserved'
  <2>1. reset' /\ UNCHANGED <<got, ret, rcvbuf, accepted>>
    BY <1>9 DEF Reset
  <2> QED BY <1>3, <1>4, <1>6, <2>1
<1>10. ASSUME RecvData \/ RecvWouldBlock \/ RecvEof PROVE Conserved'
  <2>1. UNCHANGED <<accepted, sndbuf, reset>> /\ ~RecvError
    BY <1>10 DEF RecvData, RecvWouldBlock, RecvEof, RecvError, FinArrived
  <2> QED BY <1>5, <1>10, <2>1, Received
<1>11. ASSUME RecvError PROVE Conserved'
  <2>1. UNCHANGED <<accepted, sndbuf, reset>> /\ reset'
    BY <1>11 DEF RecvError
  <2>2. CASE Behind' = Behind
    BY <1>5, <2>1, <2>2
  <2>3. CASE Behind' = got /\ Behind = got \o ret
    <3>0. got \in Seq(Bytes) /\ ret \in Seq(Bytes)
      BY <1>0
    <3>1. (got \o ret) \o u = got \o (ret \o u) /\ ret \o u \in Seq(Bytes)
      BY <3>0, Regroup, ConcatProperties
    <3> QED BY <1>3, <1>4, <2>1, <2>3, <3>1
  <2> QED BY <1>11, <2>2, <2>3, Received
<1>12. ASSUME \/ \E n \in 1..MaxWrite : SendCall(n)
              \/ SendWouldBlock \/ SendThrows \/ WinSendThrows \/ SendReturn
              \/ Disconnect \/ UNCHANGED vars
       PROVE Conserved'
  <2>1. UNCHANGED <<got, ret, rcvbuf, accepted, sndbuf, reset>>
    BY <1>12 DEF SendCall, SendWouldBlock, SendThrows, WinSendThrows, SendReturn,
                 Disconnect, vars
  <2> QED BY <1>5, <1>6, <2>1
<1>13. ASSUME ReceiveCall PROVE Conserved'
  <2>1. UNCHANGED <<got, ret, rcvbuf, accepted, sndbuf, reset>>
    BY <1>13 DEF ReceiveCall, TypeOK
  <2> QED BY <1>5, <1>6, <2>1
<1> QED BY <1>7, <1>8, <1>9, <1>10, <1>11, <1>12, <1>13
        DEF Next, SendStep, RecvStep
-----------------------------------------------------------------------------
(* What was skipped. *)

LEMMA Everything ==
  ASSUME TypeOK, Shape
  PROVE  AllAccepted <=> /\ Len(accepted) = handed - Len(data_span)
                         /\ \A i \in 1..Len(accepted) : accepted[i] = i
<1>1. /\ handed - Len(data_span) \in Nat
      /\ Len(accepted) \in Nat /\ accepted \in [1..Len(accepted) -> Bytes]
  BY LenProperties DEF TypeOK, Shape
<1>2. ASSUME NEW k \in Nat PROVE Len([i \in 1..k |-> i]) = k
  OBVIOUS
<1> QED BY <1>1, <1>2 DEF AllAccepted

LEMMA NextSkipped ==
  TypeOK /\ Shape /\ SkippedOnlyWhenFull /\ [Next]_vars => SkippedOnlyWhenFull'
<1> SUFFICES ASSUME TypeOK, Shape, SkippedOnlyWhenFull, [Next]_vars,
                    ~failed', ~reset', system' = "windows" \/ ~full'
             PROVE  AllAccepted'
  BY DEF SkippedOnlyWhenFull
<1> USE DEF SkippedOnlyWhenFull, AllAccepted, sender, kernel, receiver
<1>1. TypeOK' /\ Shape'
  BY NextType, NextShape
<1>2. CASE UNCHANGED <<system, failed, reset, accepted, handed, data_span, full>>
  BY <1>2
<1>3. ASSUME NEW n \in 1..MaxWrite, SendCall(n) PROVE AllAccepted'
  <2>1. n \in Nat /\ handed \in Nat /\ MaxWrite \in Nat
    BY StreamAssumption DEF TypeOK
  <2>2. Len(data_span) = 0 /\ Len(data_span') = n /\ handed' = handed + n
    BY <1>3, <2>1 DEF SendCall, TypeOK
  <2>3. AllAccepted /\ accepted' = accepted
    BY <1>3 DEF SendCall
  <2> QED BY <2>1, <2>2, <2>3
<1>4. ASSUME SendAccepted PROVE AllAccepted'
  <2>1. PICK n \in 0..Len(data_span) :
          /\ accepted' = accepted \o SubSeq(data_span, 1, n)
          /\ data_span' = SubSeq(data_span, n + 1, Len(data_span))
    BY <1>4, Sizes DEF SendAccepted, Shrink
  <2>2. /\ accepted \in Seq(Bytes) /\ Len(accepted) \in Nat
        /\ data_span \in Seq(Bytes) /\ Len(data_span) \in Nat /\ handed \in Nat
    BY LenProperties DEF TypeOK
  <2>3. /\ Len(accepted) = handed - Len(data_span) /\ handed' = handed
        /\ \A i \in 1..Len(accepted) : accepted[i] = i
    BY <1>4, Everything DEF SendAccepted
  <2>4. /\ SubSeq(data_span, 1, n) \in Seq(Bytes)
        /\ Len(SubSeq(data_span, 1, n)) = n /\ Len(data_span') = Len(data_span) - n
        /\ \A i \in 1..n : SubSeq(data_span, 1, n)[i] = data_span[i]
    BY <2>1, <2>2, Split
  <2>5. /\ Len(accepted') = Len(accepted) + n
        /\ \A i \in 1..Len(accepted) + n : accepted'[i] =
             IF i <= Len(accepted) THEN accepted[i]
                                   ELSE SubSeq(data_span, 1, n)[i - Len(accepted)]
    BY <2>1, <2>2, <2>4, ConcatProperties
  <2>6. \A i \in 1..n : data_span[i] = Len(accepted) + i
    BY <2>1, <2>2, <2>3 DEF Shape
  <2>7. \A i \in 1..Len(accepted) + n : accepted'[i] = i
    <3> TAKE i \in 1..Len(accepted) + n
    <3>1. CASE i <= Len(accepted)
      BY <2>2, <2>3, <2>5, <3>1
    <3>2. CASE ~(i <= Len(accepted))
      <4>1. i - Len(accepted) \in 1..n /\ Len(accepted) + (i - Len(accepted)) = i
        BY <2>2, <3>2
      <4>2. accepted'[i] = SubSeq(data_span, 1, n)[i - Len(accepted)]
        BY <2>5, <3>2
      <4> QED BY <2>4, <2>6, <4>1, <4>2
    <3> QED BY <3>1, <3>2
  <2>8. accepted' \in [1..Len(accepted') -> Bytes]
    <3>1. accepted' \in Seq(Bytes)
      BY <1>1 DEF TypeOK
    <3> QED BY <3>1, LenProperties
  <2>9. Len(accepted') = handed' - Len(data_span')
    BY <2>2, <2>3, <2>4, <2>5
  <2> QED BY <2>5, <2>7, <2>8, <2>9
<1>5. ASSUME SendWouldBlock \/ SendThrows \/ WinSendThrows PROVE FALSE
  BY <1>5 DEF SendWouldBlock, SendThrows, WinSendThrows
<1>6. ASSUME SendReturn \/ Disconnect \/ Deliver \/ ReceiveCall PROVE AllAccepted'
  BY <1>2, <1>6 DEF SendReturn, Disconnect, Deliver, ReceiveCall
<1>7. ASSUME RecvData \/ RecvWouldBlock \/ RecvEof \/ RecvError PROVE AllAccepted'
  BY <1>2, <1>7 DEF RecvData, RecvWouldBlock, RecvEof, RecvError
<1>8. ~Reset
  BY DEF Reset
<1> QED BY <1>2, <1>3, <1>4, <1>5, <1>6, <1>7, <1>8
        DEF Next, SendStep, RecvStep, vars
-----------------------------------------------------------------------------
(* The stream that a connection promises. *)

InKernel == ret \o rcvbuf \o sndbuf
Pending == IF reset THEN <<>> ELSE data_span

LEMMA WireParts ==
  ASSUME TypeOK
  PROVE  /\ Wire = InKernel \o Pending
         /\ ret \in Seq(Bytes) /\ InKernel \in Seq(Bytes) /\ Pending \in Seq(Bytes)
<1>1. ret \o rcvbuf \in Seq(Bytes)
  BY ConcatProperties DEF TypeOK
<1>2. InKernel \in Seq(Bytes)
  BY <1>1, ConcatProperties DEF InKernel, TypeOK
<1> QED BY <1>2, EmptySeq DEF Wire, InKernel, Pending, TypeOK

(* What the kernel has not taken is cut short: bytes are lost. *)
LEMMA CutShort ==
  ASSUME NEW a \in Seq(Bytes), NEW x \in Seq(Bytes), NEW y \in Seq(Bytes),
         x # <<>>, Wire = a \o (x \o y), Wire' = a \o y,
         full', UNCHANGED <<handed, got, reset>>, full' \in BOOLEAN
  PROVE  Stream!Next
<1> DEFINE i == Len(a)  j == Len(a) + Len(x) + 1
<1>1. Len(a) \in Nat /\ Len(x) \in Nat \ {0} /\ Len(y) \in Nat
  BY LenProperties, EmptySeq
<1>2. x \o y \in Seq(Bytes) /\ Len(x \o y) = Len(x) + Len(y)
  BY Meet
<1>3. Len(Wire) = Len(a) + Len(x) + Len(y) /\ SubSeq(Wire, 1, Len(a)) = a
  BY <1>1, <1>2, Meet
<1>4. a \o x \in Seq(Bytes) /\ Len(a \o x) = Len(a) + Len(x)
  BY Meet
<1>5. Wire = (a \o x) \o y
  BY Regroup
<1>6. SubSeq(Wire, Len(a) + Len(x) + 1, Len(Wire)) = y
  BY <1>4, <1>5, Meet
<1>7. i \in 0..Len(Wire) + 1 /\ j \in 0..Len(Wire) + 1 /\ i < j
  BY <1>1, <1>3
<1>8. Stream!Lose(i, j)
  BY <1>3, <1>6 DEF Stream!Lose
<1> QED BY <1>7, <1>8 DEF Stream!Next

(* Every step is one of the stream's, or does not show. *)
LEMMA NextImplements ==
  TypeOK /\ Shape /\ [Next]_vars => [Stream!Next]_Stream!vars
<1> SUFFICES ASSUME TypeOK, Shape, [Next]_vars PROVE Stream!Next \/ UNCHANGED Stream!vars
  OBVIOUS
<1> USE DEF sender, kernel, receiver
<1>1. TypeOK' /\ <<>> \in Seq(Bytes) /\ full' \in BOOLEAN /\ reset \in BOOLEAN
  BY NextType, EmptySeq DEF TypeOK
<1>2. Wire = InKernel \o Pending /\ Wire' = InKernel' \o Pending'
  BY DEF Wire, InKernel, Pending
<1>3. InKernel \in Seq(Bytes) /\ Pending \in Seq(Bytes)
  BY WireParts
<1>4. InKernel \o <<>> = InKernel
  BY <1>3, ConcatEmptySeq
<1>5. ASSUME UNCHANGED <<handed, got, reset, full, Wire>> PROVE UNCHANGED Stream!vars
  BY <1>5 DEF Stream!vars
<1>6. ASSUME UNCHANGED <<ret, rcvbuf, sndbuf>> PROVE InKernel' = InKernel
  BY <1>6 DEF InKernel
<1>7. ASSUME NEW n \in 1..MaxWrite, SendCall(n) PROVE Stream!Next
  <2>1. /\ data_span = <<>> /\ data_span' = Stream!Fresh(n)
        /\ handed' = handed + n /\ UNCHANGED <<got, reset, full, ret, rcvbuf, sndbuf>>
    BY <1>7 DEF SendCall, TypeOK, Stream!Fresh
  <2>2. Wire = InKernel
    BY <1>2, <1>4, <2>1 DEF Pending
  <2>3. Wire' = IF reset THEN Wire ELSE Wire \o Stream!Fresh(n)
    BY <1>2, <1>4, <1>6, <2>1, <2>2 DEF Pending
  <2>4. Stream!Write(n)
    BY <2>1, <2>3 DEF Stream!Write
  <2> QED BY <2>4 DEF Stream!Next
<1>8. ASSUME SendAccepted PROVE UNCHANGED Stream!vars
  <2>1. PICK n \in 0..Len(data_span) :
          /\ sndbuf' = sndbuf \o SubSeq(data_span, 1, n)
          /\ data_span' = SubSeq(data_span, n + 1, Len(data_span))
    BY <1>8, Sizes DEF SendAccepted, Shrink
  <2>2. /\ SubSeq(data_span, 1, n) \in Seq(Bytes) /\ data_span' \in Seq(Bytes)
        /\ SubSeq(data_span, 1, n) \o data_span' = data_span
    <3>1. data_span \in Seq(Bytes)
      BY DEF TypeOK
    <3> QED BY <2>1, <3>1, Split
  <2>3. ~reset /\ UNCHANGED <<handed, got, reset, full, ret, rcvbuf>>
    BY <1>8 DEF SendAccepted
  <2>4. InKernel' = InKernel \o SubSeq(data_span, 1, n)
    <3>1. ret \o rcvbuf \in Seq(Bytes) /\ sndbuf \in Seq(Bytes)
      BY ConcatProperties DEF TypeOK
    <3>2. (ret \o rcvbuf) \o (sndbuf \o SubSeq(data_span, 1, n))
            = ((ret \o rcvbuf) \o sndbuf) \o SubSeq(data_span, 1, n)
      BY <2>2, <3>1, Regroup, Zenon
    <3> QED BY <2>1, <2>3, <3>2 DEF InKernel
  <2>5. (InKernel \o SubSeq(data_span, 1, n)) \o data_span' = InKernel \o data_span
    <3>1. (InKernel \o SubSeq(data_span, 1, n)) \o data_span'
            = InKernel \o (SubSeq(data_span, 1, n) \o data_span')
      BY <1>3, <2>2, Regroup, Zenon
    <3> QED BY <2>2, <3>1
  <2>6. Wire' = Wire
    BY <1>2, <2>3, <2>4, <2>5 DEF Pending
  <2> QED BY <1>5, <2>3, <2>6
<1>9. ASSUME SendWouldBlock PROVE Stream!Next
  <2>1. Chunk \in 0..Len(data_span) /\ Chunk >= 1 /\ data_span \in Seq(Bytes)
    BY <1>9, Sizes DEF SendWouldBlock, SendLooping, TypeOK
  <2>2. /\ data_span' = SubSeq(data_span, Chunk + 1, Len(data_span))
        /\ ~reset /\ full' = TRUE /\ UNCHANGED <<handed, got, reset, ret, rcvbuf, sndbuf>>
    BY <1>9 DEF SendWouldBlock, Shrink
  <2> HIDE DEF Chunk
  <2>3. PICK x \in Seq(Bytes) :
          Len(x) = Chunk /\ data_span' \in Seq(Bytes) /\ data_span = x \o data_span'
    BY <2>1, <2>2, Split
  <2>4. x # <<>>
    BY <2>1, <2>3, EmptySeq
  <2>5. Wire = InKernel \o (x \o data_span') /\ Wire' = InKernel \o data_span'
    BY <1>2, <1>6, <2>2, <2>3 DEF Pending
  <2> QED BY <1>1, <1>3, <2>2, <2>3, <2>4, <2>5, CutShort
<1>10. ASSUME SendThrows \/ WinSendThrows PROVE Stream!Next \/ UNCHANGED Stream!vars
  <2>1. /\ data_span' = <<>> /\ data_span # <<>> /\ data_span \in Seq(Bytes)
        /\ full' = (full \/ ~reset)
        /\ UNCHANGED <<handed, got, reset, ret, rcvbuf, sndbuf>>
    BY <1>10 DEF SendThrows, WinSendThrows, SendLooping, TypeOK
  <2>2. CASE reset
    <3>1. Wire' = Wire /\ full' = full
      BY <1>2, <1>6, <2>1, <2>2 DEF Pending, TypeOK
    <3> QED BY <1>5, <2>1, <3>1
  <2>3. CASE ~reset
    <3>1. data_span \o <<>> = data_span
      BY <2>1, ConcatEmptySeq
    <3>2. Wire = InKernel \o (data_span \o <<>>) /\ Wire' = InKernel \o <<>>
      BY <1>2, <1>6, <2>1, <2>3, <3>1 DEF Pending
    <3>3. full'
      BY <2>1, <2>3
    <3> QED BY <1>1, <1>3, <2>1, <3>2, <3>3, CutShort
  <2> QED BY <2>2, <2>3
<1>11. ASSUME SendReturn \/ Disconnect \/ ReceiveCall PROVE UNCHANGED Stream!vars
  <2>1. UNCHANGED <<handed, got, reset, full, ret, rcvbuf, sndbuf, data_span>>
    BY <1>11 DEF SendReturn, Disconnect, ReceiveCall, TypeOK
  <2> QED BY <1>5, <2>1 DEF Wire
<1>12. ASSUME Deliver PROVE UNCHANGED Stream!vars
  <2>1. /\ sndbuf \in Seq(Bytes) /\ sndbuf # <<>> /\ ret \o rcvbuf \in Seq(Bytes)
        /\ ret \in Seq(Bytes) /\ rcvbuf \in Seq(Bytes)
    BY <1>12, ConcatProperties DEF Deliver, TypeOK
  <2>2. PICK x \in Seq(Bytes) :
          sndbuf' \in Seq(Bytes) /\ rcvbuf' = rcvbuf \o x /\ sndbuf = x \o sndbuf'
    <3>1. /\ Head(sndbuf) \in Bytes /\ <<Head(sndbuf)>> \in Seq(Bytes)
          /\ Tail(sndbuf) \in Seq(Bytes)
      BY <2>1, HeadTailProperties
    <3>2. rcvbuf' = rcvbuf \o <<Head(sndbuf)>> /\ sndbuf' = Tail(sndbuf)
      BY <1>12, <2>1, <3>1, AppendIsConcat DEF Deliver
    <3>3. sndbuf = <<Head(sndbuf)>> \o Tail(sndbuf)
      BY <2>1
    <3> QED BY <3>1, <3>2, <3>3
  <2>3. ret \o (rcvbuf \o x) = (ret \o rcvbuf) \o x
    <3>1. \A c \in Seq(Bytes) : (ret \o rcvbuf) \o c = ret \o (rcvbuf \o c)
      BY <2>1, Regroup, Zenon
    <3> QED BY <3>1, Zenon
  <2>4. ((ret \o rcvbuf) \o x) \o sndbuf' = (ret \o rcvbuf) \o (x \o sndbuf')
    <3>1. \A c \in Seq(Bytes) :
            ((ret \o rcvbuf) \o x) \o c = (ret \o rcvbuf) \o (x \o c)
      BY <2>1, Regroup, Zenon
    <3> QED BY <2>2, <3>1, Zenon
  <2>5. UNCHANGED <<handed, got, reset, full, ret, data_span>>
    BY <1>12 DEF Deliver
  <2>6. InKernel' = InKernel
    BY <2>2, <2>3, <2>4, <2>5 DEF InKernel
  <2>7. Pending' = Pending
    BY <2>5 DEF Pending
  <2> QED BY <1>2, <1>5, <2>5, <2>6, <2>7
<1>13. ASSUME RecvData PROVE UNCHANGED Stream!vars
  <2>1. rcvbuf \in Seq(Bytes) /\ ret \in Seq(Bytes) /\ sndbuf \in Seq(Bytes)
    BY DEF TypeOK
  <2> DEFINE n == MinOf(Len(rcvbuf), Packet)
  <2>2. n \in 0..Len(rcvbuf)
    BY Sizes
  <2>3. /\ ret' = ret \o SubSeq(rcvbuf, 1, n)
        /\ rcvbuf' = SubSeq(rcvbuf, n + 1, Len(rcvbuf))
        /\ UNCHANGED <<handed, got, reset, full, sndbuf, data_span>>
    BY <1>13 DEF RecvData
  <2> HIDE DEF n
  <2>4. PICK x \in Seq(Bytes) :
          ret' = ret \o x /\ rcvbuf' \in Seq(Bytes) /\ x \o rcvbuf' = rcvbuf
    BY <2>1, <2>2, <2>3, Split
  <2>5. (ret \o x) \o rcvbuf' = ret \o (x \o rcvbuf')
    <3>1. ret \in Seq(Bytes) /\ rcvbuf' \in Seq(Bytes)
      BY <2>1, <2>4
    <3> QED BY <3>1, Regroup, Zenon
  <2>6. Wire' = Wire
    BY <2>3, <2>4, <2>5 DEF Wire
  <2> QED BY <1>5, <2>3, <2>6
<1>14. ASSUME RecvWouldBlock \/ RecvEof PROVE Stream!Next \/ UNCHANGED Stream!vars
  <2>1. /\ rcvbuf = <<>> /\ ret' = <<>>
        /\ got' = got \o ret \/ (ret = <<>> /\ got' = got)
        /\ UNCHANGED <<handed, reset, full, rcvbuf, sndbuf, data_span>>
    BY <1>14 DEF RecvWouldBlock, RecvEof, Return
  <2>2. CASE ret = <<>> /\ got' = got
    BY <1>5, <2>1, <2>2 DEF Wire
  <2>3. CASE got' = got \o ret
    <3>1. /\ ret \in Seq(Bytes) /\ sndbuf \in Seq(Bytes)
      BY DEF TypeOK
    <3>2. Wire = (ret \o sndbuf) \o Pending
      <4>1. ret \o <<>> = ret
        BY <3>1, ConcatEmptySeq
      <4> QED BY <2>1, <4>1 DEF Wire, Pending
    <3>3. Wire' = sndbuf \o Pending
      <4>1. <<>> \o <<>> = <<>> /\ <<>> \o sndbuf = sndbuf
        BY <1>1, <3>1, ConcatEmptySeq
      <4> QED BY <2>1, <4>1 DEF Wire, Pending
    <3>4. Wire = ret \o Wire' /\ Wire' \in Seq(Bytes)
      BY <1>3, <3>1, <3>2, <3>3, Regroup, ConcatProperties
    <3>5. /\ SubSeq(Wire, 1, Len(ret)) = ret
          /\ SubSeq(Wire, Len(ret) + 1, Len(Wire)) = Wire'
          /\ Len(ret) \in 0..Len(Wire)
      <4>1. Len(ret) \in Nat /\ Len(Wire') \in Nat
        BY <3>1, <3>4, LenProperties
      <4> QED BY <3>1, <3>4, <4>1, Meet
    <3>6. Stream!Read(Len(ret))
      BY <2>1, <2>3, <3>5 DEF Stream!Read
    <3> QED BY <3>5, <3>6 DEF Stream!Next
  <2> QED BY <2>1, <2>2, <2>3
<1>15. ASSUME RecvError PROVE Stream!Next
  <2>1. /\ reset /\ reset' /\ ret' = <<>> /\ rcvbuf' = <<>> /\ rcvbuf = <<>>
        /\ UNCHANGED <<handed, got, full, sndbuf>> /\ sndbuf = <<>>
    BY <1>15 DEF RecvError, Return, Shape
  <2>2. <<>> \o <<>> = <<>> /\ ret \o <<>> = ret /\ ret \in Seq(Bytes)
    BY <1>1, ConcatEmptySeq DEF TypeOK
  <2>3. Wire' = <<>> /\ Wire = ret
    BY <2>1, <2>2 DEF Wire
  <2>4. SubSeq(Wire, 1, 0) = <<>> /\ 0 \in 0..Len(Wire)
    BY <2>2, <2>3, SubSeqEmpty, LenProperties
  <2>5. Stream!Break(0)
    BY <1>1, <2>1, <2>3, <2>4 DEF Stream!Break, TypeOK
  <2> QED BY <2>4, <2>5 DEF Stream!Next
<1>16. ASSUME Reset PROVE Stream!Next
  <2>1. /\ ~reset /\ reset' = TRUE /\ sndbuf' = <<>>
        /\ UNCHANGED <<handed, got, full, ret, rcvbuf, data_span>>
    BY <1>16 DEF Reset
  <2>2. /\ ret \o rcvbuf \in Seq(Bytes) /\ sndbuf \in Seq(Bytes)
        /\ sndbuf \o Pending \in Seq(Bytes)
    BY <1>3, ConcatProperties DEF TypeOK
  <2>3. Wire' = ret \o rcvbuf
    <3>1. (ret \o rcvbuf) \o <<>> = ret \o rcvbuf
      BY <2>2, ConcatEmptySeq
    <3> QED BY <2>1, <3>1 DEF Wire
  <2>4. Wire = (ret \o rcvbuf) \o (sndbuf \o Pending)
    <3>1. ((ret \o rcvbuf) \o sndbuf) \o Pending = (ret \o rcvbuf) \o (sndbuf \o Pending)
      <4>1. \A c \in Seq(Bytes) :
              ((ret \o rcvbuf) \o sndbuf) \o c = (ret \o rcvbuf) \o (sndbuf \o c)
        BY <2>2, Regroup, Zenon
      <4> QED BY <1>3, <4>1, Zenon
    <3> QED BY <3>1 DEF Wire, Pending
  <2>5. SubSeq(Wire, 1, Len(Wire')) = Wire' /\ Len(Wire') \in 0..Len(Wire)
    <3>1. ASSUME NEW a \in Seq(Bytes), NEW b \in Seq(Bytes), Wire = a \o b
          PROVE  SubSeq(Wire, 1, Len(a)) = a /\ Len(a) \in 0..Len(Wire)
      <4>1. Len(a) \in Nat /\ Len(b) \in Nat
        BY LenProperties
      <4> QED BY <3>1, <4>1, Meet
    <3> QED BY <2>2, <2>3, <2>4, <3>1
  <2>6. Stream!Break(Len(Wire'))
    BY <2>1, <2>5 DEF Stream!Break
  <2> QED BY <2>5, <2>6 DEF Stream!Next
<1>17. CASE UNCHANGED vars
  BY <1>5, <1>17 DEF vars, Wire
<1> QED BY <1>7, <1>8, <1>9, <1>10, <1>11, <1>12, <1>13, <1>14, <1>15, <1>16, <1>17
        DEF Next, SendStep, RecvStep
-----------------------------------------------------------------------------
Inv == TypeOK /\ Shape /\ Conserved /\ SkippedOnlyWhenFull

LEMMA InitInv == Init => Inv /\ Stream!Init
<1> SUFFICES ASSUME Init PROVE Inv /\ Stream!Init
  OBVIOUS
<1> USE DEF Init
<1>1. <<>> \in Seq(Bytes) /\ Len(<<>>) = 0 /\ <<>> \o <<>> = <<>>
  BY EmptySeq, ConcatEmptySeq
<1>2. TypeOK
  <2>1. MaxBytes \in Nat /\ MaxRetry \in Nat /\ SndCap \in Nat /\ RcvCap \in Nat
    BY StreamAssumption
  <2>2. handed \in 0..MaxBytes /\ retry_count \in 0..MaxRetry
    BY <2>1
  <2>3. {data_span, accepted, sndbuf, rcvbuf, ret, got} \subseteq Seq(Bytes)
    BY <1>1
  <2>4. Len(sndbuf) <= SndCap /\ Len(rcvbuf) <= RcvCap
    BY <1>1, <2>1
  <2>5. /\ {open, sending, failed, full, reset, err, receiving} \subseteq BOOLEAN
        /\ outcome = "none" /\ data_span = <<>> /\ ret = <<>>
    OBVIOUS
  <2> HIDE DEF Init
  <2> QED BY <2>2, <2>3, <2>4, <2>5 DEF TypeOK
<1>6. Shape
  BY <1>1 DEF Shape
<1>3. Conserved
  BY <1>1, SubSeqEmpty DEF Conserved, IsPrefix
<1>4. SkippedOnlyWhenFull
  <2>1. Len(accepted) = handed - Len(data_span)
    <3>1. Len(accepted) = 0 /\ Len(data_span) = 0 /\ handed = 0
      BY <1>1
    <3> HIDE DEF Init
    <3> QED BY <3>1
  <2>2. \A i \in 1..Len(accepted) : accepted[i] = i
    BY <1>1
  <2> QED BY <1>2, <1>6, <2>1, <2>2, Everything DEF SkippedOnlyWhenFull
<1>5. Stream!Init
  BY <1>1 DEF Stream!Init, Wire
<1> QED BY <1>2, <1>3, <1>4, <1>5, <1>6 DEF Inv

LEMMA InvAlways == Spec => []Inv
<1>1. Inv /\ [Next]_vars => Inv'
  BY NextType, NextShape, NextConserved, NextSkipped DEF Inv
<1> QED BY InitInv, <1>1, PTL DEF Spec

(* Buffers stay within the kernel's capacity and retries within their      *)
(* limit, through partial sends, retries, breaks and receives of any size  *)
(* (unix_socket.cpp:258 and 297).                                          *)
THEOREM TypeCorrect == Spec => []TypeOK
<1>1. Inv => TypeOK
  BY DEF Inv
<1> QED BY <1>1, InvAlways, PTL

(* Every byte that ::send() took is in one place, in order: the span kept  *)
(* after a partial send (unix_socket.cpp:292) and the part of the packet   *)
(* that recv() filled are the right ones.                                  *)
THEOREM BytesAreConserved == Spec => []Conserved
<1>1. Inv => Conserved
  BY DEF Inv
<1> QED BY <1>1, InvAlways, PTL

(* socket_disconnected (unix_socket.cpp:323) is thrown after all the data. *)
THEOREM NormalCloseIsComplete == Spec => []CleanClose
<1>1. Inv => CleanClose
  <2> SUFFICES ASSUME Inv, outcome = "disconnected", ~reset PROVE got = accepted
    BY DEF CleanClose
  <2>1. /\ accepted = got \o ret \o rcvbuf \o sndbuf /\ got \in Seq(Bytes)
        /\ ret = <<>> /\ rcvbuf = <<>> /\ sndbuf = <<>>
    BY DEF Inv, Conserved, Shape, TypeOK
  <2>2. got \o <<>> = got
    BY <2>1, ConcatEmptySeq
  <2> QED BY <2>1, <2>2
<1> QED BY <1>1, InvAlways, PTL

(* What a send() that did not throw leaves out it leaves out because the   *)
(* kernel's buffer was full, and on unix only (unix_socket.cpp:274,        *)
(* win_socket.cpp:323).                                                    *)
THEOREM OnlyFullBuffersSkip == Spec => []SkippedOnlyWhenFull
<1>1. Inv => SkippedOnlyWhenFull
  BY DEF Inv
<1> QED BY <1>1, InvAlways, PTL

(* send() and receive() and the kernel between them are a byte stream.     *)
THEOREM IsAByteStream == Spec => ImplementsStream
<1>1. Inv /\ [Next]_vars => [Stream!Next]_Stream!vars
  BY NextImplements DEF Inv
<1> QED BY <1>1, InitInv, InvAlways, PTL DEF Spec, ImplementsStream, Stream!Spec
=============================================================================
