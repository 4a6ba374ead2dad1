-------------------------- MODULE TlsStream_proofs --------------------------
(***************************************************************************)
(* Proofs about TlsStream for any number of connections and buffers, any   *)
(* limit of retries and any room in the kernel's buffer.  Nothing goes     *)
(* from one connection to another but the error queue, and what is on the  *)
(* wire of a connection is what was promised and the records written of    *)
(* the write OpenSSL keeps.                                                *)
(***************************************************************************)
EXTENDS TlsStream, SequenceTheorems, TLAPS

(* The first n records of message m. *)
Recs(m, n) == [k \in 1..n |-> <<m, k>>]

LEMMA RecsAreASequence ==
  ASSUME NEW m \in Nat, NEW n \in Nat
  PROVE  Recs(m, n) \in Seq(Records) /\ Len(Recs(m, n)) = n
BY DEF Recs, Records

LEMMA RecsGrow ==
  ASSUME NEW m \in Nat, NEW n \in Nat \ {0}
  PROVE  Append(Recs(m, n - 1), <<m, n>>) = Recs(m, n)
<1>1. /\ Recs(m, n - 1) \in Seq(Records) /\ Len(Recs(m, n - 1)) = n - 1
      /\ Recs(m, n) \in Seq(Records) /\ Len(Recs(m, n)) = n
  BY RecsAreASequence
<1>2. <<m, n>> \in Records
  BY DEF Records
<1>3. /\ Append(Recs(m, n - 1), <<m, n>>) \in Seq(Records)
      /\ Len(Append(Recs(m, n - 1), <<m, n>>)) = n
      /\ \A i \in 1..n - 1 : Append(Recs(m, n - 1), <<m, n>>)[i] = Recs(m, n - 1)[i]
      /\ Append(Recs(m, n - 1), <<m, n>>)[n] = <<m, n>>
  BY <1>1, <1>2, AppendProperties
<1>4. /\ \A i \in 1..n - 1 : Recs(m, n - 1)[i] = Recs(m, n)[i]
      /\ Recs(m, n)[n] = <<m, n>>
  BY DEF Recs
<1>5. \A i \in 1..n : Append(Recs(m, n - 1), <<m, n>>)[i] = Recs(m, n)[i]
  BY <1>3, <1>4
<1> QED BY <1>1, <1>3, <1>5, SeqEqual

(* What follows a sequence is found again behind it. *)
LEMMA Behind ==
  ASSUME NEW S, NEW a \in Seq(S), NEW b \in Seq(S)
  PROVE  /\ IsPrefix(a, a \o b)
         /\ SubSeq(a \o b, Len(a) + 1, Len(a \o b)) = b
<1>1. /\ a \o b \in Seq(S) /\ Len(a \o b) = Len(a) + Len(b)
      /\ Len(a) \in Nat /\ Len(b) \in Nat
      /\ \A i \in 1..Len(a) : (a \o b)[i] = a[i]
      /\ \A i \in 1..Len(b) : (a \o b)[Len(a) + i] = b[i]
  BY ConcatProperties, LenProperties
<1>2. /\ SubSeq(a \o b, 1, Len(a)) \in Seq(S) /\ Len(SubSeq(a \o b, 1, Len(a))) = Len(a)
      /\ \A i \in 1..Len(a) : SubSeq(a \o b, 1, Len(a))[i] = a[i]
  BY <1>1, SubSeqProperties, ElementOfSeq
<1>3. /\ SubSeq(a \o b, Len(a) + 1, Len(a \o b)) \in Seq(S)
      /\ Len(SubSeq(a \o b, Len(a) + 1, Len(a \o b))) = Len(b)
      /\ \A i \in 1..Len(b) : SubSeq(a \o b, Len(a) + 1, Len(a \o b))[i] = b[i]
  BY <1>1, SubSeqProperties, ElementOfSeq
<1>4. SubSeq(a \o b, 1, Len(a)) = a
  BY <1>2, SeqEqual
<1>5. SubSeq(a \o b, Len(a) + 1, Len(a \o b)) = b
  BY <1>3, SeqEqual
<1> QED BY <1>1, <1>4, <1>5, SubSeqFull DEF IsPrefix

LEMMA AppendBehind ==
  \A a, b \in Seq(Records), e \in Records : Append(a \o b, e) = a \o Append(b, e)
<1> TAKE a, b \in Seq(Records), e \in Records
<1>1. /\ a \o b \in Seq(Records) /\ <<e>> \in Seq(Records)
  BY ConcatProperties
<1>2. Append(a \o b, e) = (a \o b) \o <<e>> /\ Append(b, e) = b \o <<e>>
  BY <1>1, AppendIsConcat
<1> QED BY <1>1, <1>2, ConcatAssociative
-----------------------------------------------------------------------------
(* Types. *)

LEMMA CallKinds ==
  ASSUME TypeOK
  PROVE  /\ call.op = "send" => /\ call \in Sends /\ call.conn \in Conns
                                /\ call.buf \in Bufs /\ call.msg \in Nat /\ call.len \in Nat
         /\ call.op = "receive" => call \in Receives /\ call.conn \in Conns
         /\ call = Idle => call.op = "none" /\ ret = 0
BY DEF TypeOK, ThreadType, Idle, Sends, Receives

(* What a write may have in hand. *)
LEMMA HandKinds ==
  ASSUME TypeOK, NEW c \in Conns, Writing(c)
  PROVE  /\ InHand(c) \in Writes /\ InHand(c).k \in Nat \ {0}
         /\ InHand(c).msg \in Nat /\ InHand(c).len \in Nat
         /\ <<InHand(c).msg, InHand(c).k>> \in Records
<1>1. call \in Sends /\ call.buf \in Bufs /\ call.msg \in Nat /\ call.len \in Nat
  BY CallKinds DEF Writing, Sending
<1>2. kept[c] \in Writes \cup {Nothing}
  BY DEF TypeOK, SslType
<1>3. InHand(c) \in Writes
  BY <1>1, <1>2 DEF InHand, Writes
<1> QED BY <1>3 DEF Writes, Records

LEMMA PutType ==
  ASSUME TypeOK, NEW c \in Conns, Writing(c), Put(c)
  PROVE  wire' \in [Conns -> Seq(Records)] /\ inflight' \in [Conns -> 0..Room]
<1>1. <<InHand(c).msg, InHand(c).k>> \in Records
  BY HandKinds
<1>2. wire[c] \in Seq(Records)
  BY DEF TypeOK, NetType
<1>3. Append(wire[c], <<InHand(c).msg, InHand(c).k>>) \in Seq(Records)
  BY <1>1, <1>2, AppendProperties
<1>4. wire' \in [Conns -> Seq(Records)]
  BY <1>3 DEF TypeOK, NetType, Put
<1>5. inflight' \in [Conns -> 0..Room]
  BY TlsStreamAssumption DEF TypeOK, NetType, Put
<1> QED BY <1>4, <1>5

(* How a call may end leaves the types alone. *)
LEMMA OverType ==
  ASSUME TypeOK, call.conn \in Conns,
         NEW how \in {"ok", "error", "timeout", "refused", "disconnected"}, Over(how)
  PROVE  /\ call' = Idle /\ retry_count' \in 0..MaxRetry
         /\ told' \in [Conns -> {"ok", "error", "timeout", "refused", "disconnected"}]
BY TlsStreamAssumption DEF TypeOK, ThreadType, Over

LEMMA ReturnType ==
  ASSUME TypeOK, call.conn \in Conns,
         NEW how \in {"ok", "error", "timeout", "refused", "disconnected"}, Return(how)
  PROVE  /\ call' = Idle /\ retry_count' \in 0..MaxRetry
         /\ told' \in [Conns -> {"ok", "error", "timeout", "refused", "disconnected"}]
         /\ got' \in [Conns -> Nat] /\ ret' = 0
BY TlsStreamAssumption DEF TypeOK, ThreadType, HistoryType, Over, Return

LEMMA NextType == TypeOK /\ [Next]_vars => TypeOK'
<1> SUFFICES ASSUME TypeOK, [Next]_vars PROVE TypeOK'
  OBVIOUS
<1>0. /\ MaxRetry \in Nat /\ MaxSends \in Nat /\ Room \in Nat /\ MaxRecords \in Nat
      /\ Senders \subseteq Conns
  BY TlsStreamAssumption
<1>t. UNCHANGED thread => ThreadType'
  BY DEF TypeOK, ThreadType, thread
<1>s. UNCHANGED ssl => SslType'
  BY DEF TypeOK, SslType, ssl
<1>n. UNCHANGED net => NetType'
  BY DEF TypeOK, NetType, net
<1>h. UNCHANGED history => HistoryType'
  BY DEF TypeOK, HistoryType, history
<1>1. ASSUME NEW c \in Conns, Drain(c) \/ Arrive(c) PROVE TypeOK'
  <2>1. CASE Drain(c)
    <3>1. inflight' \in [Conns -> 0..Room]
      BY <1>0, <2>1 DEF TypeOK, NetType, Drain
    <3> QED BY <2>1, <3>1, <1>t, <1>s, <1>h DEF TypeOK, NetType, Drain
  <2>2. CASE Arrive(c)
    <3>1. arrived' \in [Conns -> Nat] /\ unread' \in [Conns -> Nat]
      BY <2>2 DEF TypeOK, NetType, Arrive
    <3> QED BY <2>2, <3>1, <1>t, <1>s, <1>h DEF TypeOK, NetType, Arrive
  <2> QED BY <1>1, <2>1, <2>2
<1>2. ASSUME NEW c \in Conns, NEW how \in {"notify", "eof", "reset"}, End(c, how)
      PROVE  TypeOK'
  <2>1. NetType'
    BY <1>2 DEF TypeOK, NetType, End
  <2> QED BY <1>2, <1>t, <1>s, <1>h, <2>1 DEF TypeOK, End
<1>3. ASSUME Handshake PROVE TypeOK'
  <2>1. SslType'
    BY <1>3 DEF TypeOK, SslType, Handshake
  <2> QED BY <1>3, <1>t, <1>n, <1>h, <2>1 DEF TypeOK, Handshake
<1>4. ASSUME NEW c \in Senders, NEW b \in Bufs, NEW n \in 0..MaxRecords, Send(c, b, n)
      PROVE  TypeOK'
  <2>1. call' \in Sends /\ call'.op = "send" /\ ret = 0
    BY <1>0, <1>4, CallKinds DEF Send, Start, Sends, TypeOK, ThreadType
  <2>2. ThreadType'
    BY <1>0, <1>4, <2>1 DEF Send, Start, TypeOK, ThreadType
  <2>3. HistoryType'
    BY <1>0, <1>4 DEF Send, TypeOK, HistoryType
  <2> QED BY <1>4, <1>s, <1>n, <2>2, <2>3 DEF Send, Start, TypeOK
<1>5. ASSUME NEW c \in Senders, SendAgain(c) PROVE TypeOK'
  <2>1. kept[c] \in Writes
    BY <1>0, <1>5 DEF SendAgain, TypeOK, SslType
  <2>2. call' \in Sends /\ call'.op = "send" /\ ret = 0
    BY <1>0, <1>5, <2>1, CallKinds DEF SendAgain, Start, Sends, Writes
  <2>3. ThreadType'
    BY <1>0, <1>5, <2>2 DEF SendAgain, Start, TypeOK, ThreadType
  <2> QED BY <1>5, <1>s, <1>n, <1>h, <2>3 DEF SendAgain, Start, TypeOK
<1>6. ASSUME NEW c \in Conns, Receive(c) PROVE TypeOK'
  <2>1. call' \in Receives /\ ret = 0
    BY <1>6, CallKinds DEF Receive, Receives
  <2>2. ThreadType'
    BY <1>6, <2>1 DEF Receive, TypeOK, ThreadType
  <2> QED BY <1>6, <1>s, <1>n, <1>h, <2>2 DEF Receive, TypeOK
<1>7. ASSUME NEW c \in Conns, WriteRecord(c) PROVE TypeOK'
  <2>1. Writing(c) /\ call.buf \in Bufs /\ call.msg \in Nat /\ call.len \in Nat
    BY <1>7, CallKinds DEF WriteRecord, Writing, Sending
  <2>2. InHand(c).k \in Nat
    BY <2>1, HandKinds
  <2>3. SslType'
    BY <1>7, <2>1, <2>2 DEF WriteRecord, Writes, TypeOK, SslType
  <2>4. wire' \in [Conns -> Seq(Records)] /\ inflight' \in [Conns -> 0..Room]
    BY <1>7, <2>1, PutType DEF WriteRecord
  <2>5. NetType'
    BY <1>7, <2>4 DEF WriteRecord, TypeOK, NetType
  <2> QED BY <1>7, <1>t, <1>h, <2>3, <2>5 DEF WriteRecord, TypeOK
<1>8. ASSUME NEW c \in Conns, WriteDone(c) PROVE TypeOK'
  <2>1. Writing(c) /\ call.conn \in Conns /\ call.msg \in Nat /\ call.len \in Nat /\ ret = 0
    BY <1>8, CallKinds DEF WriteDone, Writing, Sending, TypeOK, ThreadType
  <2>2. Recs(call.msg, call.len) \in Seq(Records)
    BY <2>1, RecsAreASequence
  <2>3. HistoryType'
    BY <1>8, <2>2, ConcatProperties DEF WriteDone, Recs, TypeOK, HistoryType
  <2>4. wire' \in [Conns -> Seq(Records)] /\ inflight' \in [Conns -> 0..Room]
    BY <1>8, <2>1, PutType DEF WriteDone
  <2>5. NetType'
    BY <1>8, <2>4 DEF WriteDone, TypeOK, NetType
  <2>6. SslType'
    BY <1>8 DEF WriteDone, TypeOK, SslType
  <2>7. /\ call' = Idle /\ retry_count' \in 0..MaxRetry
        /\ told' \in [Conns -> {"ok", "error", "timeout", "refused", "disconnected"}]
    BY <1>8, <2>1, OverType DEF WriteDone
  <2>8. ThreadType'
    BY <1>8, <2>1, <2>7 DEF WriteDone, TypeOK, ThreadType
  <2> QED BY <2>3, <2>5, <2>6, <2>8 DEF TypeOK
<1>9. ASSUME NEW c \in Conns, WriteBlocks(c) PROVE TypeOK'
  <2>1. Writing(c) /\ call.conn \in Conns /\ ret = 0
    BY <1>9, CallKinds DEF WriteBlocks, Writing, Sending, TypeOK, ThreadType
  <2>2. SslType'
    BY <1>9, <2>1, HandKinds DEF WriteBlocks, TypeOK, SslType
  <2>3. /\ call' \in {Idle} \cup Sends \cup Receives /\ retry_count' \in 0..MaxRetry
        /\ told' \in [Conns -> {"ok", "error", "timeout", "refused", "disconnected"}]
    <3>1. CASE queue
      BY <1>9, <3>1, <2>1, OverType DEF WriteBlocks
    <3>2. CASE ~queue /\ retry_count >= MaxRetry
      BY <1>9, <3>2, <2>1, OverType DEF WriteBlocks
    <3>3. CASE ~queue /\ ~(retry_count >= MaxRetry)
      BY <1>0, <1>9, <3>3 DEF WriteBlocks, TypeOK, ThreadType
    <3> QED BY <3>1, <3>2, <3>3
  <2>4. ThreadType'
    BY <1>9, <2>1, <2>3 DEF WriteBlocks, TypeOK, ThreadType
  <2> QED BY <1>9, <1>n, <1>h, <2>2, <2>4 DEF WriteBlocks, TypeOK
<1>10. ASSUME NEW c \in Conns, WriteRefused(c) \/ WriteShort(c) \/ WriteFails(c)
       PROVE  TypeOK'
  <2>1. call.conn \in Conns /\ ret = 0 /\ Over("refused") /\ ret' = ret /\ sends' = sends
    BY <1>10, CallKinds DEF WriteRefused, WriteShort, WriteFails, Sending, TypeOK, ThreadType
  <2>2. /\ call' = Idle /\ retry_count' \in 0..MaxRetry
        /\ told' \in [Conns -> {"ok", "error", "timeout", "refused", "disconnected"}]
    BY <2>1, OverType
  <2>3. ThreadType'
    BY <2>1, <2>2 DEF TypeOK, ThreadType
  <2>4. SslType' /\ HistoryType'
    BY <1>10, <1>s, <1>h DEF WriteRefused, WriteShort, WriteFails, TypeOK, SslType,
                             HistoryType
  <2> QED BY <1>10, <1>n, <2>3, <2>4 DEF WriteRefused, WriteShort, WriteFails, TypeOK
<1>11. ASSUME NEW c \in Conns, ReadData(c) PROVE TypeOK'
  <2>1. ThreadType' /\ NetType'
    BY <1>11 DEF ReadData, Open, Reading, TypeOK, ThreadType, NetType
  <2> QED BY <1>11, <1>s, <1>h, <2>1 DEF ReadData, TypeOK
<1>12. ASSUME NEW c \in Conns,
              \/ ReadBlocks(c) \/ ReadNotify(c) \/ ReadUnexpectedEof(c)
              \/ ReadSyscall(c) \/ ReadCut(c)
       PROVE  TypeOK'
  <2> USE DEF Open, ReadBlocks, ReadNotify, ReadUnexpectedEof, ReadSyscall, ReadCut
  <2>1. call.conn \in Conns /\ sends' = sends /\ UNCHANGED <<promised, reused, refused>>
    BY <1>12, CallKinds DEF Reading
  <2>2. \E how \in {"ok", "error", "timeout", "refused", "disconnected"} : Return(how)
    BY <1>12
  <2>3. /\ call' = Idle /\ retry_count' \in 0..MaxRetry
        /\ told' \in [Conns -> {"ok", "error", "timeout", "refused", "disconnected"}]
        /\ got' \in [Conns -> Nat] /\ ret' = 0
    BY <2>1, <2>2, ReturnType
  <2>4. ThreadType' /\ HistoryType'
    BY <2>1, <2>3 DEF TypeOK, ThreadType, HistoryType
  <2>5. SslType'
    BY <1>12, <1>s DEF ssl, TypeOK, SslType
  <2>6. CASE ReadCut(c)
    <3> DEFINE Ends == {"no", "notify", "eof", "reset"}
               how == IF ended[c] = "reset" THEN "eof" ELSE ended[c]
    <3>1. unread \in [Conns -> Nat] /\ ended \in [Conns -> Ends]
      BY DEF TypeOK, NetType
    <3>a. unread' \in [Conns -> Nat]
      BY <2>6, <3>1
    <3>b. how \in Ends
      BY <3>1
    <3>c. ended' = ended \/ ended' = [ended EXCEPT ![c] = how]
      BY <2>6
    <3>d. ended' \in [Conns -> Ends]
      <4> HIDE DEF Ends, how
      <4> QED BY <3>1, <3>b, <3>c
    <3>2. unread' \in [Conns -> Nat] /\ ended' \in [Conns -> Ends]
      BY <3>a, <3>d
    <3>3. NetType'
      BY <2>6, <3>2 DEF TypeOK, NetType
    <3> QED BY <2>4, <2>5, <3>3 DEF TypeOK
  <2>7. CASE ~ReadCut(c)
    <3>1. NetType'
      BY <1>12, <2>7, <1>n DEF TypeOK, NetType
    <3> QED BY <2>4, <2>5, <3>1 DEF TypeOK
  <2> QED BY <2>6, <2>7
<1>13. CASE UNCHANGED vars
  BY <1>13, <1>t, <1>s, <1>n, <1>h DEF vars, TypeOK
<1> USE DEF Next, SendStep, ReceiveStep
<1> QED BY <1>1, <1>2, <1>3, <1>4, <1>5, <1>6, <1>7, <1>8, <1>9, <1>10, <1>11, <1>12, <1>13
-----------------------------------------------------------------------------
(* Failures. *)

(* The queue holds an error of a connection that was handed a wrong buffer *)
(* or ended without notice, and a send() that ends a session was handed    *)
(* less than what is kept.                                                 *)
Blamed ==
  /\ queue => refused \cup fatal # {}
  /\ cut \subseteq refused
  /\ \A c \in fatal : ended[c] = "eof"

(* A call that ends without "error" breaks nothing, nor one that ends with *)
(* it because of the queue, of the end of its own connection or of what    *)
(* this was handed.                                                        *)
LEMMA OverIsOwn ==
  ASSUME TypeOK, Blamed, FailuresAreOwn, call.conn \in Conns,
         NEW how \in {"ok", "error", "timeout", "refused", "disconnected"}, Over(how),
         how = "error" => queue \/ ended'[call.conn] # "no" \/ call.conn \in refused,
         refused \subseteq refused', fatal \subseteq fatal',
         \A c \in Conns : ended'[c] = "no" => ended[c] = "no"
  PROVE  FailuresAreOwn'
<1> SUFFICES ASSUME NEW c \in Conns, told'[c] = "error", ended'[c] = "no", c \notin refused'
             PROVE  \E d \in Conns \ {c} : d \in refused' \cup fatal'
  BY DEF FailuresAreOwn
<1>1. refused \subseteq Conns /\ fatal \subseteq Conns
  BY DEF TypeOK, SslType, HistoryType
<1>2. told' = [told EXCEPT ![call.conn] = how] /\ DOMAIN told = Conns
  BY DEF Over, TypeOK, ThreadType
<1>3. CASE c = call.conn
  <2>1. queue
    BY <1>2, <1>3
  <2>2. PICK d \in refused \cup fatal : TRUE
    BY <2>1 DEF Blamed
  <2>3. d # c
    BY <2>2 DEF Blamed
  <2> QED BY <1>1, <2>2, <2>3
<1>4. CASE c # call.conn
  <2>1. told[c] = "error" /\ ended[c] = "no" /\ c \notin refused
    BY <1>2, <1>4
  <2> QED BY <2>1 DEF FailuresAreOwn
<1> QED BY <1>3, <1>4

LEMMA NextBlamed ==
  TypeOK /\ Blamed /\ FailuresAreOwn /\ [Next]_vars => Blamed' /\ FailuresAreOwn'
<1> SUFFICES ASSUME TypeOK, Blamed, FailuresAreOwn, [Next]_vars
             PROVE  Blamed' /\ FailuresAreOwn'
  OBVIOUS
<1>0. /\ Senders \subseteq Conns /\ refused \subseteq Conns /\ fatal \subseteq Conns
      /\ ended \in [Conns -> {"no", "notify", "eof", "reset"}]
  BY TlsStreamAssumption DEF TypeOK, SslType, HistoryType, NetType
<1> USE DEF thread, ssl, net, history
(* Steps outside of the calls, and those in which a call goes on. *)
<1>1. ASSUME UNCHANGED <<told, fatal, cut, refused>>, queue' = FALSE \/ queue' = queue,
             \A c \in Conns : ended'[c] = ended[c] \/ ended[c] = "no"
      PROVE  Blamed' /\ FailuresAreOwn'
  <2>1. \A c \in Conns : ended'[c] = "no" => ended[c] = "no"
    BY <1>0, <1>1
  <2>2. \A c \in fatal : ended'[c] = "eof"
    BY <1>0, <1>1 DEF Blamed
  <2> QED BY <1>1, <2>1, <2>2 DEF Blamed, FailuresAreOwn
<1>2. ASSUME NEW c \in Conns, NEW how \in {"notify", "eof", "reset"}, End(c, how)
      PROVE  Blamed' /\ FailuresAreOwn'
  BY <1>0, <1>1, <1>2 DEF End
<1>3. ASSUME Handshake \/ \E c \in Conns : \/ Receive(c) \/ Drain(c) \/ Arrive(c)
                                            \/ WriteRecord(c) \/ ReadData(c)
      PROVE  Blamed' /\ FailuresAreOwn'
  BY <1>1, <1>3 DEF Receive, Drain, Arrive, WriteRecord, ReadData, Handshake
<1>4. ASSUME NEW c \in Senders,
             SendAgain(c) \/ \E b \in Bufs, n \in 0..MaxRecords : Send(c, b, n)
      PROVE  Blamed' /\ FailuresAreOwn'
  BY <1>1, <1>4 DEF Send, SendAgain, Start
(* Steps in which a call ends. *)
<1>5. ASSUME NEW c \in Conns, WriteDone(c) \/ WriteFails(c) PROVE Blamed' /\ FailuresAreOwn'
  <2>1. call.conn \in Conns /\ UNCHANGED <<queue, fatal, cut, refused, ended>>
    BY <1>5 DEF WriteDone, WriteFails, Writing
  <2>2. FailuresAreOwn'
    BY <1>5, <2>1, OverIsOwn DEF WriteDone, WriteFails
  <2> QED BY <2>1, <2>2 DEF Blamed
<1>6. ASSUME NEW c \in Conns, WriteRefused(c) \/ WriteShort(c)
      PROVE  Blamed' /\ FailuresAreOwn'
  <2>1. /\ call.conn \in Conns /\ UNCHANGED <<fatal, ended>>
        /\ refused' = refused \cup {c} /\ cut' \subseteq cut \cup {c}
    BY <1>6 DEF WriteRefused, WriteShort
  <2>2. FailuresAreOwn'
    BY <1>6, <2>1, OverIsOwn DEF WriteRefused, WriteShort
  <2> QED BY <2>1, <2>2 DEF Blamed
<1>7. ASSUME NEW c \in Conns, WriteBlocks(c) PROVE Blamed' /\ FailuresAreOwn'
  <2>1. call.conn \in Conns /\ UNCHANGED <<queue, fatal, cut, refused, ended>>
    BY <1>7 DEF WriteBlocks, Writing
  <2>2. CASE UNCHANGED told
    BY <1>1, <2>1, <2>2
  <2>3. CASE Over("timeout") \/ (Over("error") /\ queue)
    <3>1. FailuresAreOwn'
      BY <2>1, <2>3, OverIsOwn
    <3> QED BY <2>1, <3>1 DEF Blamed
  <2> QED BY <1>7, <2>2, <2>3 DEF WriteBlocks
<1>8. ASSUME NEW c \in Conns, ReadBlocks(c) \/ ReadNotify(c) PROVE Blamed' /\ FailuresAreOwn'
  <2>1. call.conn \in Conns /\ UNCHANGED <<queue, fatal, cut, refused, ended>>
    BY <1>8 DEF ReadBlocks, ReadNotify, Open, Reading
  <2>2. FailuresAreOwn'
    BY <1>8, <2>1, OverIsOwn DEF ReadBlocks, ReadNotify, Return, Open, Reading
  <2> QED BY <2>1, <2>2 DEF Blamed
<1>9. ASSUME NEW c \in Conns, ReadUnexpectedEof(c) PROVE Blamed' /\ FailuresAreOwn'
  <2>1. /\ call.conn = c /\ UNCHANGED <<cut, refused, ended>> /\ ended[c] = "eof"
        /\ fatal' = fatal \cup {c}
    BY <1>9 DEF ReadUnexpectedEof, Open, Reading
  <2>2. FailuresAreOwn'
    BY <1>9, <2>1, OverIsOwn DEF ReadUnexpectedEof, Return
  <2> QED BY <2>1, <2>2 DEF Blamed
<1>10. ASSUME NEW c \in Conns, ReadSyscall(c) PROVE Blamed' /\ FailuresAreOwn'
  <2>1. /\ call.conn = c /\ UNCHANGED <<queue, fatal, cut, refused>>
        /\ ended' = [ended EXCEPT ![c] = "eof"]
    BY <1>10 DEF ReadSyscall, Open, Reading
  <2>2. FailuresAreOwn'
    BY <1>0, <1>10, <2>1, OverIsOwn DEF ReadSyscall, Return
  <2> QED BY <1>0, <2>1, <2>2 DEF Blamed
<1>11. ASSUME NEW c \in Conns, ReadCut(c) PROVE Blamed' /\ FailuresAreOwn'
  <2>1. /\ call.conn = c /\ UNCHANGED <<queue, fatal, cut, refused>> /\ c \in refused
        /\ \/ ended' = ended
           \/ ended' = [ended EXCEPT ![c] = IF @ = "reset" THEN "eof" ELSE @]
    BY <1>11 DEF ReadCut, Reading, Blamed
  <2>2. /\ \A d \in Conns : ended'[d] = "no" => ended[d] = "no"
        /\ \A d \in fatal : ended'[d] = "eof"
    BY <1>0, <2>1 DEF Blamed
  <2>3. \E how \in {"error", "disconnected"} : Over(how) \/ Over("ok")
    BY <1>11 DEF ReadCut, Return
  <2>4. FailuresAreOwn'
    BY <2>1, <2>2, <2>3, OverIsOwn
  <2> QED BY <2>1, <2>2, <2>4 DEF Blamed
<1>12. CASE UNCHANGED vars
  BY <1>1, <1>12 DEF vars
<1> USE DEF Next, SendStep, ReceiveStep
<1> QED BY <1>0, <1>2, <1>3, <1>4, <1>5, <1>6, <1>7, <1>8, <1>9, <1>10, <1>11, <1>12
-----------------------------------------------------------------------------
(* Data received. *)

(* A call that ends with data, or as "disconnected" without any, leaves    *)
(* both invariants as they are.                                            *)
LEMMA ReturnIsSafe ==
  ASSUME TypeOK, NothingDropped, DisconnectedIsLast,
         NEW c \in Conns \ cut, Reading(c), unread[c] = 0,
         NEW how \in {"ok", "error", "timeout", "refused", "disconnected"}, Return(how),
         UNCHANGED <<arrived, unread, cut>>,
         \A d \in Conns : d # c => ended'[d] = ended[d],
         ended[c] = "eof" \/ how = "disconnected" => ended'[c] = "eof"
  PROVE  NothingDropped' /\ DisconnectedIsLast'
<1>1. /\ call' = Idle /\ told' = [told EXCEPT ![c] = IF ret > 0 THEN "ok" ELSE how]
      /\ got' = [got EXCEPT ![c] = @ + ret] /\ ret' = 0 /\ ret \in Nat
      /\ got \in [Conns -> Nat] /\ arrived \in [Conns -> Nat] /\ unread \in [Conns -> Nat]
      /\ DOMAIN told = Conns
  BY DEF Reading, Return, Over, TypeOK, ThreadType, NetType, HistoryType
<1>2. arrived[c] = got[c] + ret
  BY <1>1 DEF NothingDropped
<1>3. got'[c] = arrived[c]
  BY <1>1, <1>2
<1>4. \A d \in Conns : ~Reading(d)'
  BY <1>1 DEF Reading, Idle
<1>5. \A d \in Conns \ cut : d # c => arrived[d] = got[d] + unread[d]
  BY <1>1 DEF NothingDropped, Reading
<1>6. NothingDropped'
  BY <1>1, <1>3, <1>4, <1>5 DEF NothingDropped
<1>7. ASSUME NEW d \in Conns \ cut, told'[d] = "disconnected"
      PROVE  ended'[d] = "eof" /\ got'[d] = arrived'[d]
  <2>1. CASE d = c
    BY <1>1, <1>3, <1>7, <2>1
  <2>2. CASE d # c
    BY <1>1, <1>7, <2>2 DEF DisconnectedIsLast
  <2> QED BY <2>1, <2>2
<1> QED BY <1>6, <1>7 DEF DisconnectedIsLast

LEMMA NextData ==
  TypeOK /\ NothingDropped /\ DisconnectedIsLast /\ [Next]_vars
    => NothingDropped' /\ DisconnectedIsLast'
<1> SUFFICES ASSUME TypeOK, NothingDropped, DisconnectedIsLast, [Next]_vars
             PROVE  NothingDropped' /\ DisconnectedIsLast'
  OBVIOUS
<1>0. /\ Senders \subseteq Conns /\ DOMAIN told = Conns /\ ret \in Nat
      /\ got \in [Conns -> Nat] /\ arrived \in [Conns -> Nat] /\ unread \in [Conns -> Nat]
      /\ ended \in [Conns -> {"no", "notify", "eof", "reset"}]
  BY TlsStreamAssumption DEF TypeOK, ThreadType, NetType, HistoryType
<1> USE DEF thread, ssl, net, history
(* Steps that leave what receive() has and has had alone. *)
<1>1. ASSUME UNCHANGED <<ret, got, arrived, unread>>, cut \subseteq cut',
             \A c \in Conns : ended[c] = "eof" => ended'[c] = "eof",
             ret = 0 \/ UNCHANGED call,
             \A c \in Conns : told'[c] = "disconnected" => told[c] = "disconnected"
      PROVE  NothingDropped' /\ DisconnectedIsLast'
  <2>1. NothingDropped'
    BY <1>0, <1>1 DEF NothingDropped, Reading
  <2>2. DisconnectedIsLast'
    BY <1>1 DEF DisconnectedIsLast
  <2> QED BY <2>1, <2>2
<1>2. ASSUME NEW c \in Conns, NEW how \in {"notify", "eof", "reset"}, End(c, how)
      PROVE  NothingDropped' /\ DisconnectedIsLast'
  BY <1>0, <1>1, <1>2 DEF End
<1>3. ASSUME Handshake \/ \E c \in Conns : Drain(c) \/ Receive(c) \/ WriteRecord(c)
      PROVE  NothingDropped' /\ DisconnectedIsLast'
  BY <1>1, <1>3, CallKinds DEF Drain, Receive, WriteRecord, Handshake
<1>4. ASSUME NEW c \in Senders,
             SendAgain(c) \/ \E b \in Bufs, n \in 0..MaxRecords : Send(c, b, n)
      PROVE  NothingDropped' /\ DisconnectedIsLast'
  BY <1>1, <1>4, CallKinds DEF Send, SendAgain, Start
<1>5. ASSUME NEW c \in Conns,
             WriteDone(c) \/ WriteBlocks(c) \/ WriteRefused(c) \/ WriteShort(c) \/ WriteFails(c)
      PROVE  NothingDropped' /\ DisconnectedIsLast'
  <2>1. ret = 0 /\ UNCHANGED <<ret, got, arrived, unread, ended>> /\ cut \subseteq cut'
    BY <1>5 DEF WriteDone, WriteBlocks, WriteRefused, WriteShort, WriteFails, Writing,
                Sending, TypeOK, ThreadType
  <2>2. \/ UNCHANGED told
        \/ \E how \in {"ok", "error", "timeout", "refused"} :
             told' = [told EXCEPT ![call.conn] = how]
    BY <1>5 DEF WriteDone, WriteBlocks, WriteRefused, WriteShort, WriteFails, Over
  <2>3. \A d \in Conns : told'[d] = "disconnected" => told[d] = "disconnected"
    BY <1>0, <2>2
  <2> QED BY <1>1, <2>1, <2>3
<1>6. ASSUME NEW c \in Conns, Arrive(c) PROVE NothingDropped' /\ DisconnectedIsLast'
  <2>1. /\ arrived' = [arrived EXCEPT ![c] = @ + 1] /\ unread' = [unread EXCEPT ![c] = @ + 1]
        /\ UNCHANGED <<call, ret, told, got, ended, cut>> /\ ended[c] = "no"
    BY <1>6 DEF Arrive
  <2>2. NothingDropped'
    BY <1>0, <2>1 DEF NothingDropped, Reading
  <2>3. DisconnectedIsLast'
    BY <1>0, <2>1 DEF DisconnectedIsLast
  <2> QED BY <2>2, <2>3
<1>7. ASSUME NEW c \in Conns, ReadData(c) PROVE NothingDropped' /\ DisconnectedIsLast'
  <2>1. /\ unread' = [unread EXCEPT ![c] = @ - 1] /\ ret' = ret + 1 /\ unread[c] > 0
        /\ UNCHANGED <<call, told, got, arrived, ended, cut>> /\ Reading(c)
    BY <1>7 DEF ReadData, Open
  <2>2. NothingDropped'
    BY <1>0, <2>1 DEF NothingDropped, Reading
  <2>3. DisconnectedIsLast'
    BY <2>1 DEF DisconnectedIsLast
  <2> QED BY <2>2, <2>3
<1>8. ASSUME NEW c \in Conns, ReadBlocks(c) \/ ReadNotify(c) \/ ReadUnexpectedEof(c)
      PROVE  NothingDropped' /\ DisconnectedIsLast'
  <2>1. /\ Reading(c) /\ c \notin cut /\ unread[c] = 0
        /\ UNCHANGED <<arrived, unread, ended, cut>>
        /\ \E how \in {"ok", "error"} : Return(how)
    BY <1>8 DEF ReadBlocks, ReadNotify, ReadUnexpectedEof, Open
  <2> QED BY <2>1, ReturnIsSafe
<1>9. ASSUME NEW c \in Conns, ReadSyscall(c) PROVE NothingDropped' /\ DisconnectedIsLast'
  <2>1. /\ Reading(c) /\ c \notin cut /\ unread[c] = 0 /\ UNCHANGED <<arrived, unread, cut>>
        /\ ended' = [ended EXCEPT ![c] = "eof"]
        /\ \E how \in {"error", "disconnected"} : Return(how)
    BY <1>9 DEF ReadSyscall, Open
  <2>2. ended'[c] = "eof" /\ \A d \in Conns : d # c => ended'[d] = ended[d]
    BY <1>0, <2>1
  <2> QED BY <2>1, <2>2, ReturnIsSafe
(* The session of c is over, and the other connections are not concerned.  *)
<1>10. ASSUME NEW c \in Conns, ReadCut(c) PROVE NothingDropped' /\ DisconnectedIsLast'
  <2>1. /\ call.conn = c /\ call.op = "receive" /\ c \in cut /\ cut' = cut
        /\ call' = Idle /\ ret' = 0 /\ arrived' = arrived
        /\ got' = [got EXCEPT ![c] = @ + ret]
        /\ \E how \in {"ok", "error", "disconnected"} : told' = [told EXCEPT ![c] = how]
        /\ unread' = unread \/ unread' = [unread EXCEPT ![c] = 0]
        /\ \/ ended' = ended
           \/ ended' = [ended EXCEPT ![c] = IF @ = "reset" THEN "eof" ELSE @]
    BY <1>10 DEF ReadCut, Reading, Return, Over
  <2>2. \A d \in Conns \ cut :
          /\ d # c /\ ~Reading(d) /\ ~Reading(d)'
          /\ got'[d] = got[d] /\ told'[d] = told[d] /\ unread'[d] = unread[d]
          /\ ended'[d] = ended[d]
    BY <1>0, <2>1 DEF Reading, Idle
  <2>3. NothingDropped'
    BY <2>1, <2>2 DEF NothingDropped
  <2>4. DisconnectedIsLast'
    BY <2>1, <2>2 DEF DisconnectedIsLast
  <2> QED BY <2>3, <2>4
<1>11. CASE UNCHANGED vars
  BY <1>1, <1>11 DEF vars
<1> USE DEF Next, SendStep, ReceiveStep
<1> QED BY <1>0, <1>2, <1>3, <1>4, <1>5, <1>6, <1>7, <1>8, <1>9, <1>10, <1>11
-----------------------------------------------------------------------------
(* Data sent. *)

(* The records written of the write that OpenSSL keeps. *)
Begun(c) ==
  IF kept[c] = Nothing THEN <<>> ELSE Recs(kept[c].msg, kept[c].k - 1)

(* The send() that runs has the buffer that is kept, and the message too:  *)
(* the write that goes on is the one that was begun.                       *)
GoesOn(c) ==
  call.op = "send" /\ call.conn = c /\ kept[c] # Nothing /\ kept[c].buf = call.buf
    => kept[c].msg = call.msg /\ kept[c].len = call.len

OnTheWire == \A c \in Conns \ reused : wire[c] = promised[c] \o Begun(c) /\ GoesOn(c)

LEMMA BegunIsASequence ==
  ASSUME TypeOK, NEW c \in Conns
  PROVE  Begun(c) \in Seq(Records) /\ wire[c] \in Seq(Records) /\ promised[c] \in Seq(Records)
<1>1. wire[c] \in Seq(Records) /\ promised[c] \in Seq(Records)
      /\ kept[c] \in Writes \cup {Nothing}
  BY DEF TypeOK, SslType, NetType, HistoryType
<1>2. CASE kept[c] = Nothing
  BY <1>1, <1>2, EmptySeq DEF Begun
<1>3. CASE kept[c] # Nothing
  <2>1. kept[c].msg \in Nat /\ kept[c].k - 1 \in Nat
    BY <1>1, <1>3 DEF Writes
  <2> QED BY <1>1, <1>3, <2>1, RecsAreASequence DEF Begun
<1> QED BY <1>2, <1>3

LEMMA WireIsWhole == TypeOK /\ OnTheWire => WholeMessages
<1> SUFFICES ASSUME TypeOK, OnTheWire, NEW c \in Conns \ reused
             PROVE  /\ IsPrefix(promised[c], wire[c])
                    /\ SubSeq(wire[c], Len(promised[c]) + 1, Len(wire[c])) = Begun(c)
  BY DEF WholeMessages, Begun, Recs
<1>1. wire[c] = promised[c] \o Begun(c)
  BY DEF OnTheWire
<1>2. Begun(c) \in Seq(Records) /\ promised[c] \in Seq(Records)
  BY BegunIsASequence
<1>3. ASSUME NEW a \in Seq(Records), NEW b \in Seq(Records), NEW w, w = a \o b
      PROVE  IsPrefix(a, w) /\ SubSeq(w, Len(a) + 1, Len(w)) = b
  BY <1>3, Behind
<1> QED BY <1>1, <1>2, <1>3, Zenon

LEMMA HandIsBegun ==
  ASSUME TypeOK, NEW c \in Conns, Writing(c)
  PROVE  Begun(c) = Recs(InHand(c).msg, InHand(c).k - 1)
<1>1. CASE kept[c] = Nothing
  <2>1. InHand(c).k - 1 = 0 /\ InHand(c).msg = call.msg /\ call.msg \in Nat
    BY <1>1, CallKinds DEF InHand, Writing, Sending
  <2>2. Recs(call.msg, 0) \in Seq(Records) /\ Len(Recs(call.msg, 0)) = 0
    BY <2>1, RecsAreASequence
  <2>3. Recs(call.msg, 0) = <<>>
    BY <2>2, EmptySeq
  <2> QED BY <1>1, <2>1, <2>3 DEF Begun
<1>2. CASE kept[c] # Nothing
  BY <1>2 DEF Begun, InHand
<1> QED BY <1>1, <1>2

(* What the write in hand adds to the wire. *)
LEMMA HandIsNext ==
  ASSUME TypeOK, OnTheWire, NEW c \in Conns \ reused, Writing(c), Put(c)
  PROVE  /\ InHand(c).msg = call.msg
         /\ wire'[c] = promised[c] \o Recs(call.msg, InHand(c).k)
<1>1. /\ call.msg \in Nat /\ InHand(c).k \in Nat \ {0}
      /\ <<InHand(c).msg, InHand(c).k>> \in Records
  BY CallKinds, HandKinds DEF Writing, Sending
<1>2. InHand(c).msg = call.msg
  BY DEF OnTheWire, GoesOn, Writing, Sending, BadRetry, InHand
<1>3. Begun(c) = Recs(call.msg, InHand(c).k - 1)
  BY <1>2, HandIsBegun
<1>4. <<call.msg, InHand(c).k>> \in Records
  BY <1>1 DEF Records
<1>5. wire'[c] = Append(promised[c] \o Begun(c), <<call.msg, InHand(c).k>>)
  <2>1. wire[c] = promised[c] \o Begun(c) /\ DOMAIN wire = Conns
    BY DEF OnTheWire, TypeOK, NetType
  <2> QED BY <1>2, <2>1 DEF Put
<1>6. @ = promised[c] \o Append(Begun(c), <<call.msg, InHand(c).k>>)
  BY <1>4, AppendBehind, BegunIsASequence, Zenon
<1>7. @ = promised[c] \o Recs(call.msg, InHand(c).k)
  BY <1>1, <1>3, RecsGrow
<1> QED BY <1>2, <1>5, <1>6, <1>7

LEMMA NextOnTheWire == TypeOK /\ OnTheWire /\ [Next]_vars => OnTheWire'
<1> SUFFICES ASSUME TypeOK, OnTheWire, [Next]_vars PROVE OnTheWire'
  OBVIOUS
<1>0. /\ Senders \subseteq Conns /\ kept \in [Conns -> Writes \cup {Nothing}]
      /\ wire \in [Conns -> Seq(Records)] /\ promised \in [Conns -> Seq(Records)]
  BY TlsStreamAssumption DEF TypeOK, SslType, NetType, HistoryType
<1> USE DEF thread, ssl, net, history
(* Steps that write nothing, and do not begin a send(). *)
<1>1. ASSUME UNCHANGED <<wire, promised, kept, reused>>, UNCHANGED call \/ call'.op # "send"
      PROVE  OnTheWire'
  BY <1>1 DEF OnTheWire, Begun, GoesOn
<1>2. ASSUME NEW c \in Conns, NEW how \in {"notify", "eof", "reset"}, End(c, how)
      PROVE  OnTheWire'
  BY <1>1, <1>2 DEF End
<1>3. ASSUME \/ Handshake
             \/ \E c \in Conns : \/ Receive(c) \/ Drain(c) \/ Arrive(c)
                               \/ ReadData(c)
                               \/ WriteRefused(c) \/ WriteShort(c) \/ WriteFails(c)
      PROVE  OnTheWire'
  BY <1>1, <1>3 DEF Handshake, Receive, Drain, Arrive, ReadData, WriteRefused, WriteShort,
                    WriteFails, Over, Idle
<1>4. ASSUME NEW c \in Conns, ReceiveStep(c) PROVE OnTheWire'
  <2>1. CASE ReadData(c)
    BY <1>3, <2>1
  <2>2. CASE \/ ReadBlocks(c) \/ ReadNotify(c) \/ ReadUnexpectedEof(c)
             \/ ReadSyscall(c) \/ ReadCut(c)
    BY <1>1, <2>2 DEF ReadBlocks, ReadNotify, ReadUnexpectedEof, ReadSyscall, ReadCut,
                      Return, Over, Idle
  <2> QED BY <1>4, <2>1, <2>2 DEF ReceiveStep
<1>5. ASSUME NEW c \in Senders, NEW b \in Bufs, NEW n \in 0..MaxRecords, Send(c, b, n)
      PROVE  OnTheWire'
  <2>1. /\ UNCHANGED <<wire, promised, kept>> /\ reused \subseteq reused'
        /\ call' = [op |-> "send", conn |-> c, buf |-> b, msg |-> sends + 1, len |-> n]
        /\ kept[c] # Nothing /\ kept[c].buf = b => c \in reused'
    BY <1>5 DEF Send, Start
  <2> QED BY <2>1 DEF OnTheWire, Begun, GoesOn
<1>6. ASSUME NEW c \in Senders, SendAgain(c) PROVE OnTheWire'
  <2>1. /\ UNCHANGED <<wire, promised, kept, reused>>
        /\ call' = [op |-> "send", conn |-> c, buf |-> kept[c].buf, msg |-> kept[c].msg,
                    len |-> kept[c].len]
    BY <1>6 DEF SendAgain, Start
  <2> QED BY <2>1 DEF OnTheWire, Begun, GoesOn
(* A step of SSL_write on c: the other connections are not concerned. *)
<1>7. ASSUME NEW c \in Conns, call.conn = c, reused' = reused,
             UNCHANGED call \/ call' = Idle,
             \A d \in Conns \ {c} :
               wire'[d] = wire[d] /\ promised'[d] = promised[d] /\ kept'[d] = kept[d],
             c \notin reused => wire'[c] = promised'[c] \o Begun(c)' /\ GoesOn(c)'
      PROVE  OnTheWire'
  <2> SUFFICES ASSUME NEW d \in Conns \ reused, d # c
               PROVE  wire'[d] = promised'[d] \o Begun(d)' /\ GoesOn(d)'
    BY <1>7 DEF OnTheWire
  <2>1. Begun(d)' = Begun(d) /\ GoesOn(d)'
    BY <1>7 DEF Begun, GoesOn, Idle
  <2> QED BY <1>7, <2>1 DEF OnTheWire
<1>8. ASSUME NEW c \in Conns, WriteRecord(c) PROVE OnTheWire'
  <2>1. /\ Writing(c) /\ Put(c) /\ call.conn = c /\ UNCHANGED <<call, promised, reused>>
        /\ kept' = [kept EXCEPT ![c] = [buf |-> call.buf, msg |-> call.msg,
                                        k |-> InHand(c).k + 1, len |-> call.len]]
    BY <1>8 DEF WriteRecord, Writing
  <2>2. InHand(c).k \in Nat /\ call.buf \in Bufs /\ call.msg \in Nat /\ call.len \in Nat
    BY <2>1, HandKinds, CallKinds DEF Writing, Sending
  <2>3. kept'[c] # Nothing /\ kept'[c].msg = call.msg /\ kept'[c].len = call.len
        /\ kept'[c].k - 1 = InHand(c).k
    <3>1. kept'[c] = [buf |-> call.buf, msg |-> call.msg, k |-> InHand(c).k + 1,
                      len |-> call.len]
      BY <1>0, <2>1
    <3>2. InHand(c).k + 1 \in Nat
      BY <2>2
    <3>3. kept'[c] \in [buf : Bufs, msg : Nat, k : Nat, len : Nat]
      BY <2>2, <3>1, <3>2
    <3>4. kept'[c] # Nothing
      BY <3>3, TlsStreamAssumption
    <3>5. kept'[c].msg = call.msg /\ kept'[c].len = call.len
      BY <3>1
    <3>6. kept'[c].k = InHand(c).k + 1
      BY <3>1
    <3>7. ASSUME NEW x, NEW y \in Nat, x = y + 1 PROVE x - 1 = y
      BY <3>7
    <3>8. kept'[c].k - 1 = InHand(c).k
      BY <2>2, <3>6, <3>7, Zenon
    <3> QED BY <3>4, <3>5, <3>8, Zenon
  <2>4. Begun(c)' = Recs(call.msg, InHand(c).k) /\ GoesOn(c)'
    BY <2>1, <2>3 DEF Begun, GoesOn
  <2>5. c \notin reused => wire'[c] = promised'[c] \o Begun(c)'
    BY <2>1, <2>4, HandIsNext
  <2>6. \A d \in Conns \ {c} : wire'[d] = wire[d] /\ kept'[d] = kept[d]
    BY <1>0, <2>1 DEF Put
  <2> QED BY <1>7, <2>1, <2>4, <2>5, <2>6
<1>9. ASSUME NEW c \in Conns, WriteDone(c) PROVE OnTheWire'
  <2>1. /\ Writing(c) /\ Put(c) /\ call.conn = c /\ call' = Idle /\ reused' = reused
        /\ kept' = [kept EXCEPT ![c] = Nothing] /\ InHand(c).k = call.len
        /\ promised' = [promised EXCEPT ![c] = @ \o Recs(call.msg, call.len)]
    BY <1>9 DEF WriteDone, Writing, Over, Recs
  <2>2. call.msg \in Nat /\ call.len \in Nat
    BY <2>1, CallKinds DEF Writing, Sending
  <2>3. kept'[c] = Nothing /\ promised'[c] = promised[c] \o Recs(call.msg, call.len)
    BY <1>0, <2>1
  <2>4. Begun(c)' = <<>> /\ GoesOn(c)'
    BY <2>1, <2>3 DEF Begun, GoesOn
  <2>5. Recs(call.msg, call.len) \in Seq(Records)
    BY <2>2, RecsAreASequence
  <2>6. promised'[c] \in Seq(Records)
    BY <1>0, <2>3, <2>5, ConcatProperties
  <2>7. promised'[c] \o <<>> = promised'[c]
    BY <2>6, ConcatEmptySeq
  <2>8. c \notin reused => wire'[c] = promised'[c] \o Begun(c)'
    BY <2>1, <2>3, <2>4, <2>7, HandIsNext
  <2>9. \A d \in Conns \ {c} :
          wire'[d] = wire[d] /\ promised'[d] = promised[d] /\ kept'[d] = kept[d]
    BY <1>0, <2>1 DEF Put
  <2> QED BY <1>7, <2>1, <2>4, <2>8, <2>9
<1>10. ASSUME NEW c \in Conns, WriteBlocks(c) PROVE OnTheWire'
  <2>1. /\ Writing(c) /\ call.conn = c /\ (UNCHANGED call \/ call' = Idle)
        /\ UNCHANGED <<wire, promised, reused>>
        /\ kept' = [kept EXCEPT ![c] = InHand(c)]
    BY <1>10 DEF WriteBlocks, Writing, Over
  <2>2. InHand(c) \in Writes
    BY <2>1, HandKinds
  <2>3. kept'[c] = InHand(c) /\ kept'[c] # Nothing
    BY <1>0, <2>1, <2>2, TlsStreamAssumption DEF Writes
  <2>4. Begun(c)' = Begun(c)
    BY <2>1, <2>3, HandIsBegun DEF Begun
  <2>5. c \notin reused => GoesOn(c)'
    BY <2>1, <2>3 DEF OnTheWire, GoesOn, InHand, Idle, Writing, Sending
  <2>6. c \notin reused => wire'[c] = promised'[c] \o Begun(c)'
    BY <2>1, <2>4 DEF OnTheWire
  <2>7. \A d \in Conns \ {c} : kept'[d] = kept[d]
    BY <1>0, <2>1
  <2> QED BY <1>7, <2>1, <2>5, <2>6, <2>7
<1>11. CASE UNCHANGED vars
  BY <1>1, <1>11 DEF vars
<1> USE DEF Next, SendStep
<1> QED BY <1>0, <1>2, <1>3, <1>4, <1>5, <1>6, <1>8, <1>9, <1>10, <1>11
-----------------------------------------------------------------------------
(* The theorems. *)

Inv == TypeOK /\ Blamed /\ FailuresAreOwn /\ NothingDropped /\ DisconnectedIsLast /\ OnTheWire

LEMMA InitInv == Init => Inv
<1> SUFFICES ASSUME Init PROVE Inv
  OBVIOUS
<1>1. ThreadType /\ SslType
  <2>1. 0 \in 0..MaxRetry /\ 0 \in 0..MaxSends
    BY TlsStreamAssumption
  <2>2. ThreadType
    BY <2>1 DEF Init, ThreadType
  <2>3. SslType
    BY DEF Init, SslType
  <2> QED BY <2>2, <2>3
<1>2. <<>> \in Seq(Records) /\ 0 \in 0..Room
  BY TlsStreamAssumption, EmptySeq
<1>3. NetType /\ HistoryType
  BY <1>2 DEF Init, NetType, HistoryType
<1>4. Blamed /\ FailuresAreOwn /\ DisconnectedIsLast
  BY DEF Init, Blamed, FailuresAreOwn, DisconnectedIsLast
<1>5. NothingDropped
  BY DEF Init, NothingDropped, Reading, Idle
<1>6. OnTheWire
  <2>1. <<>> \o <<>> = <<>>
    BY <1>2, ConcatEmptySeq
  <2> QED BY <2>1 DEF Init, OnTheWire, Begun, GoesOn
<1> QED BY <1>1, <1>3, <1>4, <1>5, <1>6 DEF Inv, TypeOK

LEMMA Invariance == Spec => []Inv
<1>1. Inv /\ [Next]_vars => Inv'
  BY NextType, NextBlamed, NextData, NextOnTheWire DEF Inv
<1> QED BY InitInv, <1>1, PTL DEF Spec

(* The thread's variables and OpenSSL's stay in their ranges: retries      *)
(* within io_max_retry (tls_socket.cpp:270), and only receive() collects.  *)
THEOREM TypeCorrect == Spec => []TypeOK
<1>1. Inv => TypeOK
  BY DEF Inv
<1> QED BY Invariance, <1>1, PTL

(* The sends of one connection arrive whole, in order and once, however    *)
(* often they time out (tls_socket.cpp:271) and are repeated, unless other *)
(* data is put into the buffer of the send that timed out.                 *)
THEOREM MessagesAreWhole == Spec => []WholeMessages
<1>1. Inv => WholeMessages
  BY WireIsWhole DEF Inv
<1> QED BY Invariance, <1>1, PTL

(* "Error sending data!" and "Error receiving data!" (tls_socket.cpp:279   *)
(* and 323) on a connection without fault mean that another connection of  *)
(* the thread has left its error in OpenSSL's queue.                       *)
THEOREM ErrorsHaveACause == Spec => []FailuresAreOwn
<1>1. Inv => FailuresAreOwn
  BY DEF Inv
<1> QED BY Invariance, <1>1, PTL

(* receive() (tls_socket.cpp:290) returns or keeps everything it read, for *)
(* as long as no send() of less than was written has ended the session.    *)
THEOREM DataIsKept == Spec => []NothingDropped
<1>1. Inv => NothingDropped
  BY DEF Inv
<1> QED BY Invariance, <1>1, PTL

(* m_sock.receive() (tls_socket.cpp:321) reports the end of the connection *)
(* when all its data has been returned, with the same exception.           *)
THEOREM TheEndIsLast == Spec => []DisconnectedIsLast
<1>1. Inv => DisconnectedIsLast
  BY DEF Inv
<1> QED BY Invariance, <1>1, PTL
=============================================================================
