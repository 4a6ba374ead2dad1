--------------------------- MODULE Utilities_proofs ---------------------------
(***************************************************************************)
(* Proofs about ReceiveUtil for every delimiter, set of calls, interval    *)
(* and pace of the peer; and about ByteOp for every set of byte sequences, *)
(* line length and width of a byte.                                        *)
(*                                                                         *)
(* ReceiveUtil: a pause is planned only while the time has not expired, so *)
(* where it ends is bounded, and the clock passes no pause; each receive() *)
(* takes the bytes just after those collected.                             *)
(*                                                                         *)
(* ByteOp: four rounds go through three bytes, and round n looks up the    *)
(* sextet behind n others; a text of full lines, with padding behind it or *)
(* not, is what RfcText says; and base64_to puts the bytes together from   *)
(* the same sextets. The bytes of an integer add up to it, but for a       *)
(* multiple of the size of its type, which the cast drops.                 *)
(***************************************************************************)
EXTENDS ReceiveUtil, ByteOp, FiniteSetTheorems, SequenceTheorems, TLAPS

(* A part of a whole is a part: the quotient of the interval. *)
LEMMA Quotient ==
  ASSUME NEW d \in Nat, NEW c \in Nat, NEW m \in Nat \ {0}, c <= m
  PROVE  (d * c) \div m \in 0..d
<1>1. d * c <= d * m /\ d * c \in Nat /\ d * m \in Nat
  BY SMT
<1>2. \A q \in Nat : q = (d * c) \div m => m * q <= d * c
  BY <1>1
<1>3. (d * c) \div m \in Nat
  BY <1>1
<1>4. \A q \in Nat : m * q <= d * m => q <= d
  BY SMT
<1> QED BY <1>1, <1>2, <1>3, <1>4

(* calculate_interval_retry() stays between its two limits. *)
LEMMA IntervalBounds ==
  ASSUME NEW k \in Nat
  PROVE  calculate_interval_retry(k) \in StepMin..StepMax
<1>1. /\ StepMin \in Nat /\ StepMax \in Nat /\ StepMin <= StepMax
      /\ MaxRetry \in Nat \ {0}
  BY RetryAssumption
<1>2. Clamped(k) \in Nat /\ Clamped(k) <= MaxRetry /\ StepMax - StepMin \in Nat
  BY <1>1 DEF Clamped
<1>3. ((StepMax - StepMin) * Clamped(k)) \div MaxRetry \in 0..(StepMax - StepMin)
  BY <1>1, <1>2, Quotient
<1> QED BY <1>1, <1>3 DEF calculate_interval_retry

(* Where two receives meet. *)
LEMMA Adjacent ==
  ASSUME NEW S, NEW s \in Seq(S), NEW b \in 0..Len(s), NEW t \in b..Len(s)
  PROVE  /\ SubSeq(s, b + 1, t) \o SubSeq(s, t + 1, Len(s)) = SubSeq(s, b + 1, Len(s))
         /\ SubSeq(s, t + 1, Len(s)) \in Seq(S)
         /\ Len(SubSeq(s, t + 1, Len(s))) = Len(s) - t
<1>1. Len(s) \in Nat /\ \A n \in 1..Len(s) : s[n] \in S
  BY LenProperties, ElementOfSeq
<1>2. b + 1 \in 1..Len(s) + 1 /\ t \in (b + 1) - 1..Len(s) /\ Len(s) \in t..Len(s)
  BY <1>1
<1>3. SubSeq(s, b + 1, t) \o SubSeq(s, t + 1, Len(s)) = SubSeq(s, b + 1, Len(s))
  BY <1>2, ConcatAdjacentSubSeq
<1>4. \A n \in t + 1..Len(s) : s[n] \in S
  BY <1>1
<1>5. t + 1 \in Int /\ Len(s) \in Int /\ t \in Nat /\ t <= Len(s)
  BY <1>1
<1>6. /\ SubSeq(s, t + 1, Len(s)) \in Seq(S)
      /\ Len(SubSeq(s, t + 1, Len(s))) = IF t + 1 <= Len(s) THEN Len(s) - (t + 1) + 1 ELSE 0
  BY <1>4, <1>5, SubSeqProperties
<1>7. ASSUME NEW n, n = IF t + 1 <= Len(s) THEN Len(s) - (t + 1) + 1 ELSE 0
      PROVE  n = Len(s) - t
  BY <1>5, <1>7
<1>8. Len(SubSeq(s, t + 1, Len(s))) = Len(s) - t
  BY <1>6, <1>7, Zenon
<1> QED BY <1>3, <1>6, <1>8
-----------------------------------------------------------------------------
(* The longest a pause may end after the time has expired. *)
Wakes == wake < request.expire + RecvCost + StepMax + Jitter

(* The constants that a call is bounded by.                                *)
LEMMA Constants ==
  /\ StepMax \in Nat \ {0} /\ RecvCost \in Nat /\ Jitter \in Nat /\ MaxStream \in Nat
  /\ MaxRetry \in Nat
  /\ \A r \in Requests : r.op \in Ops /\ r.size \in Nat /\ r.expire \in Nat
  BY RetryAssumption, UtilAssumption

(* A pause planned in time ends in time, and so does what came before it.  *)
LEMMA Overrun ==
  ASSUME NEW w \in Nat, NEW e \in Nat, NEW x \in Nat, NEW c \in Nat, NEW m \in Nat \ {0},
         NEW j \in Nat, w <= e + m + j, e < x + c
  PROVE  w < x + c + m + j /\ e < x + c + m + j
  OBVIOUS

(* No step plans or passes the end of a pause that is too late.            *)
LEMMA NextTime ==
  TypeOK /\ Wakes /\ Punctual /\ [Next]_vars => Wakes' /\ Punctual'
<1> SUFFICES ASSUME TypeOK, Wakes, Punctual, [Next]_vars PROVE Wakes' /\ Punctual'
  OBVIOUS
<1> USE DEF Wakes, Punctual, conn, clock
<1>1. /\ elapsed \in Nat /\ wake \in Nat /\ request.expire \in Nat
      /\ StepMax \in Nat \ {0} /\ RecvCost \in Nat /\ Jitter \in Nat
  BY Constants DEF TypeOK
<1>2. ASSUME NEW b \in Byte, Arrive(b) PROVE Wakes' /\ Punctual'
  BY <1>2 DEF Arrive
<1>3. ASSUME Hangup \/ Expired PROVE Wakes' /\ Punctual'
  BY <1>3 DEF Hangup, Expired
<1>4. ASSUME NEW r \in Requests, Call(r) PROVE Wakes' /\ Punctual'
  <2>1. r.expire \in Nat
    BY Constants
  <2> QED BY <1>1, <1>4, <2>1 DEF Call
<1>5. ASSUME Collect \/ ReceiveThrows PROVE Wakes' /\ Punctual'
  <2>1. elapsed < request.expire /\ request' = request /\ wake' = wake
    BY <1>5 DEF Collect, ReceiveThrows, Receive
  <2>2. PICK c \in 0..RecvCost : elapsed' = elapsed + c
    BY <1>5 DEF Collect, ReceiveThrows, Spend
  <2> QED BY <1>1, <2>1, <2>2
<1>6. ASSUME Pause PROVE Wakes' /\ Punctual'
  <2>1. elapsed < request.expire /\ request' = request
    BY <1>6 DEF Pause, Receive
  <2>2. PICK c \in 0..RecvCost : elapsed' = elapsed + c
    BY <1>6 DEF Pause, Spend
  <2>3. PICK j \in 0..Jitter :
          wake' = elapsed' + calculate_interval_retry(retry_count + 1) + j
    BY <1>6 DEF Pause
  <2>4. calculate_interval_retry(retry_count + 1) \in StepMin..StepMax /\ StepMin \in Nat
    <3>1. retry_count + 1 \in Nat
      BY Constants DEF TypeOK
    <3> QED BY <3>1, IntervalBounds, RetryAssumption
  <2>5. wake' <= elapsed' + StepMax + Jitter /\ elapsed' < request.expire + RecvCost
    BY <1>1, <2>1, <2>2, <2>3, <2>4
  <2>6. wake' \in Nat /\ elapsed' \in Nat
    BY <1>1, <2>2, <2>3, <2>4
  <2>7. /\ wake' < request.expire + RecvCost + StepMax + Jitter
        /\ elapsed' < request.expire + RecvCost + StepMax + Jitter
    BY <1>1, <2>5, <2>6, Overrun
  <2> QED BY <2>1, <2>7
<1>7. ASSUME Sleep PROVE Wakes' /\ Punctual'
  BY <1>1, <1>7 DEF Sleep
<1>8. CASE UNCHANGED vars
  BY <1>8 DEF vars
<1> QED BY <1>2, <1>3, <1>4, <1>5, <1>6, <1>7, <1>8 DEF Next, Step

(* Every step of ReceiveUtil keeps its types.                              *)
LEMMA NextType == TypeOK /\ [Next]_vars => TypeOK'
<1> SUFFICES ASSUME TypeOK, [Next]_vars PROVE TypeOK'
  OBVIOUS
<1>1. /\ stream \in Seq(Byte) /\ Len(stream) \in Nat /\ ret \in Seq(Byte) /\ Len(ret) \in Nat
      /\ elapsed \in Nat /\ wake \in Nat /\ begin \in 0..taken /\ taken \in 0..Len(stream)
      /\ <<>> \in Seq(Byte) /\ Len(<<>>) = 0
  BY LenProperties, EmptySeq DEF TypeOK
<1> USE DEF TypeOK, Outcomes, conn, clock, Finish, GoOn
<1>2. ASSUME NEW b \in Byte, Arrive(b) PROVE TypeOK'
  <2>1. stream' \in Seq(Byte) /\ Len(stream') = Len(stream) + 1
    BY <1>1, <1>2, AppendProperties DEF Arrive
  <2>2. Len(stream') <= MaxStream /\ taken' \in 0..Len(stream')
    BY <1>1, <1>2, <2>1, Constants DEF Arrive
  <2> QED BY <1>1, <1>2, <2>1, <2>2 DEF Arrive
<1>3. ASSUME Hangup \/ Expired PROVE TypeOK'
  BY <1>3 DEF Hangup, Expired
<1>4. ASSUME NEW r \in Requests, Call(r) PROVE TypeOK'
  <2>1. /\ begin' = taken /\ ret' = <<>> /\ retry_count' = 0 /\ elapsed' = 0 /\ wake' = 0
        /\ request' = r /\ UNCHANGED <<conn, taken>>
        /\ running' \in BOOLEAN /\ outcome' \in {"none", "ok"}
    BY <1>4 DEF Call
  <2>2. r.size \in Nat /\ MaxRetry \in Nat
    BY Constants
  <2>3. begin' \in 0..taken' /\ retry_count' \in 0..MaxRetry
    BY <1>1, <2>1, <2>2
  <2> QED BY <1>1, <2>1, <2>2, <2>3
<1>5. ASSUME NEW c \in 0..RecvCost PROVE elapsed + c \in Nat
  BY <1>1
<1>6. ASSUME Collect PROVE TypeOK'
  <2>1. /\ taken' = Len(stream) /\ UNCHANGED <<conn, request, begin, wake>>
        /\ running' \in BOOLEAN /\ outcome' \in Outcomes
        /\ retry_count' = 0 \/ retry_count' = retry_count
    BY <1>6 DEF Collect
  <2>6. elapsed' \in Nat /\ retry_count' \in 0..MaxRetry
    BY <1>5, <1>6, <2>1, Constants DEF Collect, Spend
  <2>2. Waiting \in Seq(Byte) /\ Len(Waiting) \in Nat
    <3>1. taken \in Nat /\ \A n \in taken + 1..Len(stream) : stream[n] \in Byte
      BY <1>1, ElementOfSeq
    <3>2. Waiting \in Seq(Byte)
      BY <1>1, <3>1, SubSeqProperties DEF Waiting
    <3> QED BY <3>2, LenProperties
  <2>3. ret \o Waiting \in Seq(Byte) /\ Len(ret \o Waiting) = Len(ret) + Len(Waiting)
    BY <1>1, <2>2, ConcatProperties
  <2>4. \/ ret' = ret
        \/ ret' = ret \o Waiting /\ ~Excess(Len(ret) + Len(Waiting))
    BY <1>6 DEF Collect
  <2>5. ret' \in Seq(Byte) /\ (request.op # "at_least" => Len(ret') <= request.size)
    <3>1. CASE ret' = ret
      BY <3>1, <1>1
    <3>2. CASE ret' = ret \o Waiting /\ ~Excess(Len(ret) + Len(Waiting))
      <4>1. request.op # "at_least" => Len(ret) + Len(Waiting) <= request.size
        <5>1. Len(ret) + Len(Waiting) \in Nat /\ request.size \in Nat
          BY <1>1, <2>2, Constants
        <5> QED BY <3>2, <5>1 DEF Excess
      <4> QED BY <2>3, <3>2, <4>1
    <3> QED BY <2>4, <3>1, <3>2
  <2> QED BY <1>1, <2>1, <2>5, <2>6
<1>7. ASSUME Pause PROVE TypeOK'
  <2>1. calculate_interval_retry(retry_count + 1) \in Nat
    <3>1. retry_count + 1 \in Nat
      BY Constants
    <3>2. calculate_interval_retry(retry_count + 1) \in StepMin..StepMax
      BY <3>1, IntervalBounds
    <3> QED BY <3>2, RetryAssumption
  <2>2. elapsed' \in Nat
    BY <1>5, <1>7 DEF Pause, Spend
  <2>3. wake' \in Nat
    BY <1>7, <2>1, <2>2 DEF Pause
  <2>4. retry_count' \in 0..MaxRetry
    BY <1>7, Constants DEF Pause, Clamped
  <2>5. UNCHANGED <<conn, taken, request, running, ret, begin, outcome>>
    BY <1>7 DEF Pause
  <2> QED BY <1>1, <2>2, <2>3, <2>4, <2>5
<1>8. ASSUME Sleep PROVE TypeOK'
  BY <1>1, <1>8 DEF Sleep
<1>9. ASSUME ReceiveThrows PROVE TypeOK'
  <2>1. elapsed' \in Nat
    BY <1>5, <1>9 DEF ReceiveThrows, Spend
  <2>2. /\ taken' = Len(stream) /\ peer' = "closed" /\ running' = FALSE
        /\ outcome' \in {"disconnected", "error"}
        /\ UNCHANGED <<stream, request, ret, begin, retry_count, wake>>
    BY <1>9 DEF ReceiveThrows
  <2>3. begin' \in 0..taken' /\ taken' \in 0..Len(stream')
    BY <1>1, <2>2
  <2> QED BY <1>1, <2>1, <2>2, <2>3
<1>10. CASE UNCHANGED vars
  BY <1>10 DEF vars
<1> QED BY <1>2, <1>3, <1>4, <1>6, <1>7, <1>8, <1>9, <1>10 DEF Next, Step

(* Every step keeps what is collected a part of the stream.                *)
LEMMA NextCollects == TypeOK /\ CollectsTheStream /\ [Next]_vars => CollectsTheStream'
<1> SUFFICES ASSUME TypeOK, CollectsTheStream, [Next]_vars,
                    running' \/ outcome' \in {"ok", "timeout"}
             PROVE  ret' = SubSeq(stream', begin' + 1, taken')
  BY DEF CollectsTheStream
<1> USE DEF CollectsTheStream, conn, clock, Finish, GoOn
<1>1. /\ stream \in Seq(Byte) /\ Len(stream) \in Nat
      /\ begin \in 0..taken /\ taken \in 0..Len(stream)
  BY LenProperties DEF TypeOK
<1>2. ASSUME NEW b \in Byte, Arrive(b) PROVE ret' = SubSeq(stream', begin' + 1, taken')
  <2>1. /\ stream' = Append(stream, b) /\ ret = SubSeq(stream, begin + 1, taken)
        /\ UNCHANGED <<taken, ret, begin>>
    BY <1>2 DEF Arrive
  <2>2. \A n \in 1..Len(stream) : stream'[n] = stream[n]
    BY <1>1, <2>1, AppendProperties
  <2>3. SubSeq(stream', begin + 1, taken) = SubSeq(stream, begin + 1, taken)
    BY <1>1, <2>2
  <2> QED BY <2>1, <2>3
<1>3. ASSUME NEW r \in Requests, Call(r) PROVE ret' = SubSeq(stream', begin' + 1, taken')
  <2>1. ret' = <<>> /\ begin' = taken /\ taken' = taken /\ stream' = stream
    BY <1>3 DEF Call
  <2>2. SubSeq(stream, taken + 1, taken) = <<>>
    BY <1>1, SubSeqEmpty
  <2> QED BY <2>1, <2>2
<1>4. ASSUME Collect PROVE ret' = SubSeq(stream', begin' + 1, taken')
  <2>1. /\ ret = SubSeq(stream, begin + 1, taken) /\ ret' = ret \o Waiting
        /\ taken' = Len(stream) /\ UNCHANGED <<stream, begin>>
    BY <1>4 DEF Collect, Receive, Looking
  <2>2. begin \in 0..Len(stream) /\ taken \in begin..Len(stream)
    BY <1>1
  <2>3. SubSeq(stream, begin + 1, taken) \o SubSeq(stream, taken + 1, Len(stream))
          = SubSeq(stream, begin + 1, Len(stream))
    BY <1>1, <2>2, Adjacent
  <2> QED BY <2>1, <2>3 DEF Waiting
<1>5. ~ReceiveThrows
  BY DEF ReceiveThrows
<1>6. ASSUME Hangup \/ Expired \/ Pause \/ Sleep \/ UNCHANGED vars
      PROVE  ret' = SubSeq(stream', begin' + 1, taken')
  BY <1>6 DEF Hangup, Expired, Looking, Pause, Sleep, vars
<1> QED BY <1>2, <1>3, <1>4, <1>5, <1>6 DEF Next, Step

(* No call asks for nothing: a size of 0 waits for its first byte. *)
Asking == \A r \in Requests : r.op \in {"size", "at_least"} => r.size > 0

(* No step lets a call wait on that has what it was asked for.             *)
LEMMA NextNotYet == Asking /\ TypeOK /\ NotYet /\ [Next]_vars => NotYet'
<1> SUFFICES ASSUME Asking, TypeOK, NotYet, [Next]_vars, running' \/ outcome' = "timeout"
             PROVE  ~Satisfied(ret)'
  BY DEF NotYet
<1> USE DEF NotYet, conn, clock, Finish, GoOn
<1>1. ASSUME NEW r \in Requests, Call(r) PROVE ~Satisfied(ret)'
  <2>1. request' = r /\ ret' = <<>> /\ ~(r.op = "remaining" /\ r.size = 0)
    BY <1>1 DEF Call
  <2>2. Delim \in Seq(Byte) /\ Len(Delim) \in Nat \ {0} /\ Len(<<>>) = 0
    BY UtilAssumption, LenProperties, EmptySeq
  <2>3. ~HasDelim(<<>>)
    BY <2>2 DEF HasDelim
  <2>4. r.op \in {"size", "at_least", "remaining"} => r.size > 0 /\ r.size \in Nat
    BY <2>1, Constants DEF Asking
  <2>5. r.op \in Ops
    BY Constants
  <2> QED BY <2>1, <2>2, <2>3, <2>4, <2>5 DEF Satisfied, Ops
<1>2. ASSUME Collect PROVE ~Satisfied(ret)'
  <2>1. request' = request /\ ~Satisfied(ret')
    BY <1>2 DEF Collect, Receive, Looking
  <2> QED BY <2>1 DEF Satisfied
<1>3. ~ReceiveThrows
  BY DEF ReceiveThrows
<1>4. ASSUME \/ \E b \in Byte : Arrive(b)
             \/ Hangup \/ Expired \/ Pause \/ Sleep \/ UNCHANGED vars
      PROVE  ~Satisfied(ret)'
  <2>1. UNCHANGED <<request, ret>> /\ ~Satisfied(ret)
    BY <1>4 DEF Arrive, Hangup, Expired, Looking, Pause, Sleep, vars
  <2> QED BY <2>1 DEF Satisfied
<1> QED BY <1>1, <1>2, <1>3, <1>4 DEF Next, Step
-----------------------------------------------------------------------------
(* The first state.                                                        *)
LEMMA InitAll == Init => TypeOK /\ Wakes /\ Punctual /\ CollectsTheStream /\ NotYet
<1> SUFFICES ASSUME Init
             PROVE  TypeOK /\ Wakes /\ Punctual /\ CollectsTheStream /\ NotYet
  OBVIOUS
<1>1. <<>> \in Seq(Byte) /\ Len(<<>>) = 0
  BY EmptySeq
<1>2. request \in Requests /\ request.size \in Nat /\ request.expire \in Nat
  BY Constants DEF Init
<1>3. TypeOK
  <2>1. /\ stream = <<>> /\ ret = <<>> /\ taken = 0 /\ begin = 0 /\ retry_count = 0
        /\ elapsed = 0 /\ wake = 0 /\ peer = "open" /\ running = FALSE /\ outcome = "none"
    BY DEF Init
  <2>2. retry_count \in 0..MaxRetry /\ Len(stream) <= MaxStream
    BY <1>1, <2>1, Constants
  <2>3. begin \in 0..taken /\ taken \in 0..Len(stream) /\ Len(ret) <= request.size
    BY <1>1, <1>2, <2>1
  <2> QED BY <1>1, <1>2, <2>1, <2>2, <2>3 DEF TypeOK, Outcomes
<1>4. Wakes /\ Punctual
  <2>1. 0 < request.expire + RecvCost + StepMax + Jitter
    BY <1>2, Constants
  <2> QED BY <2>1 DEF Init, Wakes, Punctual
<1> QED BY <1>3, <1>4 DEF Init, CollectsTheStream, NotYet

(* Sizes, times and the count of retries stay in range, and no utility     *)
(* collects more than its limit (socket_util.cpp:44 and 84).               *)
THEOREM TypeCorrect == Spec => []TypeOK
BY InitAll, NextType, PTL DEF Spec

(* A call ends at the latest one receive() or one longest pause after its  *)
(* time_expire (socket_util.cpp:38).                                       *)
THEOREM CallsArePunctual == Spec => []Punctual
BY InitAll, NextType, NextTime, PTL DEF Spec

(* However the stream is cut into receives, what a call returns, or has    *)
(* when it gives up, is the stream from where the last call stopped.       *)
THEOREM NothingIsSkipped == Spec => []CollectsTheStream
BY InitAll, NextType, NextCollects, PTL DEF Spec

(* A call that is asked for something waits only while it has not got it.  *)
THEOREM StopsWhenSatisfied ==
  ASSUME Asking PROVE Spec => []NotYet
<1>1. TypeOK /\ NotYet /\ [Next]_vars => NotYet'
  BY Asking, NextNotYet
<1> QED BY InitAll, NextType, <1>1, PTL DEF Spec
-----------------------------------------------------------------------------
(* Quotient and remainder.                                                 *)
LEMMA DivMod ==
  ASSUME NEW a \in Nat, NEW d \in Nat \ {0}
  PROVE  /\ a \div d \in Nat /\ a % d \in 0..d - 1
         /\ a = d * (a \div d) + (a % d)
  OBVIOUS

(* They are the only ones.                                                 *)
LEMMA DivModUnique ==
  ASSUME NEW q \in Nat, NEW d \in Nat \ {0}, NEW r \in 0..d - 1
  PROVE  (d * q + r) \div d = q /\ (d * q + r) % d = r
  OBVIOUS

(* More characters have as many full lines, or more.                       *)
LEMMA DivMonotone ==
  ASSUME NEW a \in Nat, NEW b \in Nat, NEW d \in Nat \ {0}, a <= b
  PROVE  a \div d <= b \div d
  OBVIOUS

(* One more of them fills a line or not.                                   *)
LEMMA DivNext ==
  ASSUME NEW a \in Nat, NEW d \in Nat \ {0}
  PROVE  (a + 1) \div d = IF (a + 1) % d = 0 THEN a \div d + 1 ELSE a \div d
  OBVIOUS

(* A line has at least one group of four.                                  *)
LEMMA Line == LineLen \in Nat /\ LineLen \in Nat \ {0} /\ LineLen >= 4
  BY ByteOpAssumption

(* A digit never falls on the place of a line feed. *)
LEMMA DigitPlace ==
  ASSUME NEW a \in Nat
  PROVE  (a + 1 + a \div LineLen) % (LineLen + 1) # 0
<1> DEFINE q == a \div LineLen
           r == a % LineLen
<1>1. q \in Nat /\ r \in 0..LineLen - 1 /\ a = LineLen * q + r
  BY Line, DivMod
<1> HIDE DEF q, r
<1>2. r + 1 \in 0..(LineLen + 1) - 1 /\ LineLen + 1 \in Nat \ {0}
  BY <1>1, Line
<1>3. ((LineLen + 1) * q + (r + 1)) % (LineLen + 1) = r + 1
  BY <1>1, <1>2, DivModUnique
<1>4. a + 1 + q = (LineLen + 1) * q + (r + 1)
  BY <1>1, Line
<1>5. r + 1 # 0
  BY <1>1, Line
<1> QED BY <1>3, <1>4, <1>5 DEF q

(* The line feed after the characters of a full line falls on one. *)
LEMMA FeedPlace ==
  ASSUME NEW a \in Nat, a % LineLen = 0
  PROVE  (a + a \div LineLen) % (LineLen + 1) = 0
<1> DEFINE q == a \div LineLen
<1>1. q \in Nat /\ a = LineLen * q
  BY Line, DivMod
<1> HIDE DEF q
<1>2. ((LineLen + 1) * q + 0) % (LineLen + 1) = 0
  BY <1>1, Line, DivModUnique
<1>3. a + q = (LineLen + 1) * q + 0
  BY <1>1, Line
<1> QED BY <1>2, <1>3 DEF q

(* Padding of up to three characters starts at most one more line. *)
LEMMA OneLineMore ==
  ASSUME NEW a \in Nat, NEW b \in Nat, a <= b, b <= a + 3
  PROVE  b \div LineLen \in {a \div LineLen, a \div LineLen + 1}
<1>1. b \div LineLen >= a \div LineLen /\ a \div LineLen \in Nat /\ b \div LineLen \in Nat
  BY Line, DivMonotone, DivMod
<1> DEFINE q == a \div LineLen
           r == a % LineLen
           s == b \div LineLen
           t == b % LineLen
<1>2. /\ a = LineLen * q + r /\ r \in 0..LineLen - 1 /\ q \in Nat
      /\ b = LineLen * s + t /\ t \in 0..LineLen - 1 /\ s \in Nat
  BY Line, DivMod
<1> HIDE DEF q, r, s, t
<1>3. s >= q + 2 => LineLen * s >= LineLen * q + 2 * LineLen
  BY <1>2, Line
<1>4. s < q + 2
  BY <1>2, <1>3, Line
<1> QED BY <1>1, <1>2, <1>4 DEF q, s

(* Groups of the bits of a byte, the highest first. *)
LEMMA HighSix ==
  ASSUME NEW v \in 0..255
  PROVE  v \div 4 =
            32 * ((v \div 128) % 2) + 16 * ((v \div 64) % 2) + 8 * ((v \div 32) % 2)
              + 4 * ((v \div 16) % 2) + 2 * ((v \div 8) % 2) + ((v \div 4) % 2)
  OBVIOUS

LEMMA LowTwo ==
  ASSUME NEW v \in 0..255
  PROVE  v % 4 = 2 * ((v \div 2) % 2) + ((v \div 1) % 2)
  OBVIOUS

LEMMA HighFour ==
  ASSUME NEW v \in 0..255
  PROVE  v \div 16 =
            8 * ((v \div 128) % 2) + 4 * ((v \div 64) % 2)
              + 2 * ((v \div 32) % 2) + ((v \div 16) % 2)
  OBVIOUS

LEMMA LowFour ==
  ASSUME NEW v \in 0..255
  PROVE  v % 16 =
            8 * ((v \div 8) % 2) + 4 * ((v \div 4) % 2)
              + 2 * ((v \div 2) % 2) + ((v \div 1) % 2)
  OBVIOUS

LEMMA HighTwo ==
  ASSUME NEW v \in 0..255
  PROVE  v \div 64 = 2 * ((v \div 128) % 2) + ((v \div 64) % 2)
  OBVIOUS

LEMMA LowSix ==
  ASSUME NEW v \in 0..255
  PROVE  v % 64 =
            32 * ((v \div 32) % 2) + 16 * ((v \div 16) % 2) + 8 * ((v \div 8) % 2)
              + 4 * ((v \div 4) % 2) + 2 * ((v \div 2) % 2) + ((v \div 1) % 2)
  OBVIOUS

(* The byte of the data behind j others; there are zeros behind the last. *)
ByteAt(j) == IF j < Len(arg.data) THEN arg.data[j + 1] ELSE 0

(* What is looked up is always a byte.                                     *)
LEMMA BytesAreBytes ==
  ASSUME arg.data \in Seq(0..255), NEW j \in Nat
  PROVE  ByteAt(j) \in 0..255
<1>1. CASE j < Len(arg.data)
  <2>1. Len(arg.data) \in Nat /\ j + 1 \in 1..Len(arg.data)
    BY <1>1, LenProperties
  <2>2. arg.data[j + 1] \in 0..255
    BY <2>1, ElementOfSeq
  <2> QED BY <1>1, <2>2 DEF ByteAt
<1>2. CASE ~(j < Len(arg.data))
  BY <1>2 DEF ByteAt
<1> QED BY <1>1, <1>2

(* The reference takes its bits from those bytes.                          *)
LEMMA BitOfByte ==
  ASSUME arg.data \in Seq(0..255), NEW p \in Nat
  PROVE  Bit(p) = (ByteAt(p \div 8) \div Weight[(p % 8) + 1]) % 2
<1>1. p % 8 \in 0..7
  OBVIOUS
<1>2. Weight[(p % 8) + 1] \in {1, 2, 4, 8, 16, 32, 64, 128}
  BY <1>1 DEF Weight
<1>3. (0 \div Weight[(p % 8) + 1]) % 2 = 0
  BY <1>2
<1>4. CASE p \div 8 < Len(arg.data)
  BY <1>4, Zenon DEF Bit, ByteAt
<1>5. CASE ~(p \div 8 < Len(arg.data))
  BY <1>3, <1>5, Zenon DEF Bit, ByteAt
<1> QED BY <1>4, <1>5

(* What the eight bits of a byte weigh.                                    *)
LEMMA Weights ==
  /\ Weight[0 + 1] = 128 /\ Weight[1 + 1] = 64 /\ Weight[2 + 1] = 32
  /\ Weight[3 + 1] = 16 /\ Weight[4 + 1] = 8 /\ Weight[5 + 1] = 4
  /\ Weight[6 + 1] = 2 /\ Weight[7 + 1] = 1
  BY DEF Weight

(* What base64_to puts together is what to_base64 cut. *)
LEMMA FirstByte ==
  ASSUME NEW a \in 0..255, NEW b \in 0..255
  PROVE  (a \div 4) * 4 + (((a % 4) * 16 + (b \div 16)) \div 16) = a
<1>1. a = 4 * (a \div 4) + (a % 4) /\ b \div 16 \in 0..15 /\ a % 4 \in 0..3
  OBVIOUS
<1>2. ((a % 4) * 16 + (b \div 16)) \div 16 = a % 4
  BY <1>1
<1> QED BY <1>1, <1>2

LEMMA LowKept ==
  ASSUME NEW a \in 0..255, NEW b \in 0..255
  PROVE  ((a % 4) * 16 + (b \div 16)) % 16 = b \div 16
<1>1. a % 4 \in 0..3 /\ b \div 16 \in 0..15
  OBVIOUS
<1> QED BY <1>1

LEMMA HighKept ==
  ASSUME NEW b \in 0..255, NEW c \in 0..255
  PROVE  ((b % 16) * 4 + (c \div 64)) \div 4 = b % 16
<1>1. b % 16 \in 0..15 /\ c \div 64 \in 0..3
  OBVIOUS
<1> QED BY <1>1

LEMMA ThirdByte ==
  ASSUME NEW b \in 0..255, NEW c \in 0..255
  PROVE  (((b % 16) * 4 + (c \div 64)) % 4) * 64 + (c % 64) = c
<1>1. c = 64 * (c \div 64) + (c % 64) /\ c \div 64 \in 0..3 /\ b % 16 \in 0..15
  OBVIOUS
<1>2. ((b % 16) * 4 + (c \div 64)) % 4 = c \div 64
  BY <1>1
<1> QED BY <1>1, <1>2

(* Four rounds go through three bytes. *)
LEMMA Rounds ==
  ASSUME NEW n \in Nat
  PROVE  \E q \in Nat :
           \/ /\ n = 4 * q /\ n % 4 = 0
              /\ (6 * n) \div 8 = 3 * q /\ (6 * (n + 1)) \div 8 = 3 * q
           \/ /\ n = 4 * q + 1 /\ n % 4 = 1
              /\ (6 * n) \div 8 = 3 * q /\ (6 * (n + 1)) \div 8 = 3 * q + 1
           \/ /\ n = 4 * q + 2 /\ n % 4 = 2
              /\ (6 * n) \div 8 = 3 * q + 1 /\ (6 * (n + 1)) \div 8 = 3 * q + 2
           \/ /\ n = 4 * q + 3 /\ n % 4 = 3
              /\ (6 * n) \div 8 = 3 * q + 2 /\ (6 * (n + 1)) \div 8 = 3 * q + 3
<1> DEFINE q == n \div 4
<1>1. q \in Nat /\ n % 4 \in 0..3 /\ n = 4 * q + (n % 4)
  OBVIOUS
<1> HIDE DEF q
<1>2. \/ n = 4 * q /\ n % 4 = 0
      \/ n = 4 * q + 1 /\ n % 4 = 1
      \/ n = 4 * q + 2 /\ n % 4 = 2
      \/ n = 4 * q + 3 /\ n % 4 = 3
  BY <1>1
<1>3. CASE n = 4 * q /\ n % 4 = 0
  <2>1. (6 * n) \div 8 = 3 * q /\ (6 * (n + 1)) \div 8 = 3 * q
    BY <1>1, <1>3
  <2> QED BY <1>1, <1>3, <2>1
<1>4. CASE n = 4 * q + 1 /\ n % 4 = 1
  <2>1. (6 * n) \div 8 = 3 * q /\ (6 * (n + 1)) \div 8 = 3 * q + 1
    BY <1>1, <1>4
  <2> QED BY <1>1, <1>4, <2>1
<1>5. CASE n = 4 * q + 2 /\ n % 4 = 2
  <2>1. (6 * n) \div 8 = 3 * q + 1 /\ (6 * (n + 1)) \div 8 = 3 * q + 2
    BY <1>1, <1>5
  <2> QED BY <1>1, <1>5, <2>1
<1>6. CASE n = 4 * q + 3 /\ n % 4 = 3
  <2>1. (6 * n) \div 8 = 3 * q + 2 /\ (6 * (n + 1)) \div 8 = 3 * q + 3
    BY <1>1, <1>6
  <2> QED BY <1>1, <1>6, <2>1
<1> QED BY <1>2, <1>3, <1>4, <1>5, <1>6

(* The byte behind j others has its bits from p on, and what the switch    *)
(* takes of it are groups of them.                                         *)
HasBits(j, p) ==
  \E b0 \in 0..1, b1 \in 0..1, b2 \in 0..1, b3 \in 0..1,
     b4 \in 0..1, b5 \in 0..1, b6 \in 0..1, b7 \in 0..1 :
    /\ Bit(p) = b0 /\ Bit(p + 1) = b1 /\ Bit(p + 2) = b2 /\ Bit(p + 3) = b3
    /\ Bit(p + 4) = b4 /\ Bit(p + 5) = b5 /\ Bit(p + 6) = b6 /\ Bit(p + 7) = b7
    /\ ByteAt(j) \div 4 = 32 * b0 + 16 * b1 + 8 * b2 + 4 * b3 + 2 * b4 + b5
    /\ ByteAt(j) % 4 = 2 * b6 + b7
    /\ ByteAt(j) \div 16 = 8 * b0 + 4 * b1 + 2 * b2 + b3
    /\ ByteAt(j) % 16 = 8 * b4 + 4 * b5 + 2 * b6 + b7
    /\ ByteAt(j) \div 64 = 2 * b0 + b1
    /\ ByteAt(j) % 64 = 32 * b2 + 16 * b3 + 8 * b4 + 4 * b5 + 2 * b6 + b7

(* The bits of every byte are those of its value.                          *)
LEMMA ByteBits ==
  ASSUME arg.data \in Seq(0..255), NEW j \in Nat, NEW p, p = 8 * j
  PROVE  HasBits(j, p)
<1>1. PICK v \in 0..255 : v = ByteAt(j)
  BY BytesAreBytes, Zenon
<1>2. ASSUME NEW r \in 0..7, NEW b, b = Bit(p + r)
      PROVE  b = (v \div Weight[r + 1]) % 2
  <2>1. (p + r) \div 8 = j /\ (p + r) % 8 = r /\ p + r \in Nat
    OBVIOUS
  <2>2. Bit(p + r) = (ByteAt((p + r) \div 8) \div Weight[((p + r) % 8) + 1]) % 2
    BY <2>1, BitOfByte, Zenon
  <2> QED BY <1>1, <1>2, <2>1, <2>2, Zenon
<1>3. /\ 0 \in 0..7 /\ 1 \in 0..7 /\ 2 \in 0..7 /\ 3 \in 0..7
      /\ 4 \in 0..7 /\ 5 \in 0..7 /\ 6 \in 0..7 /\ 7 \in 0..7 /\ p + 0 = p
  OBVIOUS
<1>4. /\ Bit(p) = (v \div 128) % 2 /\ Bit(p + 1) = (v \div 64) % 2
      /\ Bit(p + 2) = (v \div 32) % 2 /\ Bit(p + 3) = (v \div 16) % 2
      /\ Bit(p + 4) = (v \div 8) % 2 /\ Bit(p + 5) = (v \div 4) % 2
      /\ Bit(p + 6) = (v \div 2) % 2 /\ Bit(p + 7) = (v \div 1) % 2
  <2>1. \A r \in 0..7 : Bit(p + r) = (v \div Weight[r + 1]) % 2
    BY <1>2, Zenon
  <2>2. /\ Bit(p + 0) = (v \div Weight[0 + 1]) % 2 /\ Bit(p + 1) = (v \div Weight[1 + 1]) % 2
        /\ Bit(p + 2) = (v \div Weight[2 + 1]) % 2 /\ Bit(p + 3) = (v \div Weight[3 + 1]) % 2
        /\ Bit(p + 4) = (v \div Weight[4 + 1]) % 2 /\ Bit(p + 5) = (v \div Weight[5 + 1]) % 2
        /\ Bit(p + 6) = (v \div Weight[6 + 1]) % 2 /\ Bit(p + 7) = (v \div Weight[7 + 1]) % 2
    BY <1>3, <2>1, Zenon
  <2> QED BY <1>3, <2>2, Weights, Zenon
<1>5. PICK v0 \in 0..1, v1 \in 0..1, v2 \in 0..1, v3 \in 0..1,
           v4 \in 0..1, v5 \in 0..1, v6 \in 0..1, v7 \in 0..1 :
        /\ v0 = (v \div 128) % 2 /\ v1 = (v \div 64) % 2
        /\ v2 = (v \div 32) % 2 /\ v3 = (v \div 16) % 2
        /\ v4 = (v \div 8) % 2 /\ v5 = (v \div 4) % 2
        /\ v6 = (v \div 2) % 2 /\ v7 = (v \div 1) % 2
  <2>1. /\ (v \div 128) % 2 \in 0..1 /\ (v \div 64) % 2 \in 0..1
        /\ (v \div 32) % 2 \in 0..1 /\ (v \div 16) % 2 \in 0..1
        /\ (v \div 8) % 2 \in 0..1 /\ (v \div 4) % 2 \in 0..1
        /\ (v \div 2) % 2 \in 0..1 /\ (v \div 1) % 2 \in 0..1
    OBVIOUS
  <2> QED BY <2>1, Zenon
<1>6. /\ v \div 4 = 32 * v0 + 16 * v1 + 8 * v2 + 4 * v3 + 2 * v4 + v5
      /\ v % 4 = 2 * v6 + v7
      /\ v \div 16 = 8 * v0 + 4 * v1 + 2 * v2 + v3
  <2>1. v \div 4 = 32 * v0 + 16 * v1 + 8 * v2 + 4 * v3 + 2 * v4 + v5
    BY <1>5, HighSix
  <2>2. v % 4 = 2 * v6 + v7
    BY <1>5, LowTwo
  <2>3. v \div 16 = 8 * v0 + 4 * v1 + 2 * v2 + v3
    BY <1>5, HighFour
  <2> QED BY <2>1, <2>2, <2>3, Zenon
<1>7. /\ v % 16 = 8 * v4 + 4 * v5 + 2 * v6 + v7
      /\ v \div 64 = 2 * v0 + v1
      /\ v % 64 = 32 * v2 + 16 * v3 + 8 * v4 + 4 * v5 + 2 * v6 + v7
  <2>1. v % 16 = 8 * v4 + 4 * v5 + 2 * v6 + v7
    BY <1>5, LowFour
  <2>2. v \div 64 = 2 * v0 + v1
    BY <1>5, HighTwo
  <2>3. v % 64 = 32 * v2 + 16 * v3 + 8 * v4 + 4 * v5 + 2 * v6 + v7
    BY <1>5, LowSix
  <2> QED BY <2>1, <2>2, <2>3, Zenon
<1>8. /\ Bit(p) = v0 /\ Bit(p + 1) = v1 /\ Bit(p + 2) = v2 /\ Bit(p + 3) = v3
      /\ Bit(p + 4) = v4 /\ Bit(p + 5) = v5 /\ Bit(p + 6) = v6 /\ Bit(p + 7) = v7
  BY <1>4, <1>5, Zenon
<1>9. SUFFICES \E b0 \in 0..1, b1 \in 0..1, b2 \in 0..1, b3 \in 0..1,
                  b4 \in 0..1, b5 \in 0..1, b6 \in 0..1, b7 \in 0..1 :
                 /\ Bit(p) = b0 /\ Bit(p + 1) = b1 /\ Bit(p + 2) = b2 /\ Bit(p + 3) = b3
                 /\ Bit(p + 4) = b4 /\ Bit(p + 5) = b5 /\ Bit(p + 6) = b6 /\ Bit(p + 7) = b7
                 /\ ByteAt(j) \div 4 = 32 * b0 + 16 * b1 + 8 * b2 + 4 * b3 + 2 * b4 + b5
                 /\ ByteAt(j) % 4 = 2 * b6 + b7
                 /\ ByteAt(j) \div 16 = 8 * b0 + 4 * b1 + 2 * b2 + b3
                 /\ ByteAt(j) % 16 = 8 * b4 + 4 * b5 + 2 * b6 + b7
                 /\ ByteAt(j) \div 64 = 2 * b0 + b1
                 /\ ByteAt(j) % 64 = 32 * b2 + 16 * b3 + 8 * b4 + 4 * b5 + 2 * b6 + b7
  BY Zenon DEF HasBits
<1> WITNESS v0 \in 0..1, v1 \in 0..1, v2 \in 0..1, v3 \in 0..1,
            v4 \in 0..1, v5 \in 0..1, v6 \in 0..1, v7 \in 0..1
<1> QED BY <1>1, <1>6, <1>7, <1>8, Zenon

(* The four groups of six bits of three bytes are cut as the switch cuts   *)
(* them.                                                                   *)
LEMMA SextetsOf ==
  ASSUME arg.data \in Seq(0..255), NEW q \in Nat
  PROVE  /\ Sextet(4 * q + 1) = ByteAt(3 * q) \div 4
         /\ Sextet(4 * q + 2) = (ByteAt(3 * q) % 4) * 16 + (ByteAt(3 * q + 1) \div 16)
         /\ Sextet(4 * q + 3) = (ByteAt(3 * q + 1) % 16) * 4 + (ByteAt(3 * q + 2) \div 64)
         /\ Sextet(4 * q + 4) = ByteAt(3 * q + 2) % 64
<1>1. PICK j \in Nat, k \in Nat, l \in Nat : j = 3 * q /\ k = 3 * q + 1 /\ l = 3 * q + 2
  <2>1. 3 * q \in Nat /\ 3 * q + 1 \in Nat /\ 3 * q + 2 \in Nat
    OBVIOUS
  <2> QED BY <2>1, Zenon
<1>2. PICK a, b, c : a = ByteAt(j) /\ b = ByteAt(k) /\ c = ByteAt(l)
  OBVIOUS
<1>3. PICK x \in Nat, y \in Nat, z \in Nat : x = 8 * j /\ y = 8 * k /\ z = 8 * l
  <2>1. 8 * j \in Nat /\ 8 * k \in Nat /\ 8 * l \in Nat
    OBVIOUS
  <2> QED BY <2>1, Zenon
<1>4. PICK a0 \in 0..1, a1 \in 0..1, a2 \in 0..1, a3 \in 0..1,
           a4 \in 0..1, a5 \in 0..1, a6 \in 0..1, a7 \in 0..1 :
        /\ Bit(x) = a0 /\ Bit(x + 1) = a1 /\ Bit(x + 2) = a2 /\ Bit(x + 3) = a3
        /\ Bit(x + 4) = a4 /\ Bit(x + 5) = a5 /\ Bit(x + 6) = a6 /\ Bit(x + 7) = a7
        /\ ByteAt(j) \div 4 = 32 * a0 + 16 * a1 + 8 * a2 + 4 * a3 + 2 * a4 + a5
        /\ ByteAt(j) % 4 = 2 * a6 + a7
        /\ ByteAt(j) \div 16 = 8 * a0 + 4 * a1 + 2 * a2 + a3
        /\ ByteAt(j) % 16 = 8 * a4 + 4 * a5 + 2 * a6 + a7
        /\ ByteAt(j) \div 64 = 2 * a0 + a1
        /\ ByteAt(j) % 64 = 32 * a2 + 16 * a3 + 8 * a4 + 4 * a5 + 2 * a6 + a7
  <2>1. HasBits(j, x)
    BY <1>3, ByteBits, Zenon
  <2> QED BY <2>1, Zenon DEF HasBits
<1>5. PICK b0 \in 0..1, b1 \in 0..1, b2 \in 0..1, b3 \in 0..1,
           b4 \in 0..1, b5 \in 0..1, b6 \in 0..1, b7 \in 0..1 :
        /\ Bit(y) = b0 /\ Bit(y + 1) = b1 /\ Bit(y + 2) = b2 /\ Bit(y + 3) = b3
        /\ Bit(y + 4) = b4 /\ Bit(y + 5) = b5 /\ Bit(y + 6) = b6 /\ Bit(y + 7) = b7
        /\ ByteAt(k) \div 4 = 32 * b0 + 16 * b1 + 8 * b2 + 4 * b3 + 2 * b4 + b5
        /\ ByteAt(k) % 4 = 2 * b6 + b7
        /\ ByteAt(k) \div 16 = 8 * b0 + 4 * b1 + 2 * b2 + b3
        /\ ByteAt(k) % 16 = 8 * b4 + 4 * b5 + 2 * b6 + b7
        /\ ByteAt(k) \div 64 = 2 * b0 + b1
        /\ ByteAt(k) % 64 = 32 * b2 + 16 * b3 + 8 * b4 + 4 * b5 + 2 * b6 + b7
  <2>1. HasBits(k, y)
    BY <1>3, ByteBits, Zenon
  <2> QED BY <2>1, Zenon DEF HasBits
<1>6. PICK c0 \in 0..1, c1 \in 0..1, c2 \in 0..1, c3 \in 0..1,
           c4 \in 0..1, c5 \in 0..1, c6 \in 0..1, c7 \in 0..1 :
        /\ Bit(z) = c0 /\ Bit(z + 1) = c1 /\ Bit(z + 2) = c2 /\ Bit(z + 3) = c3
        /\ Bit(z + 4) = c4 /\ Bit(z + 5) = c5 /\ Bit(z + 6) = c6 /\ Bit(z + 7) = c7
        /\ ByteAt(l) \div 4 = 32 * c0 + 16 * c1 + 8 * c2 + 4 * c3 + 2 * c4 + c5
        /\ ByteAt(l) % 4 = 2 * c6 + c7
        /\ ByteAt(l) \div 16 = 8 * c0 + 4 * c1 + 2 * c2 + c3
        /\ ByteAt(l) % 16 = 8 * c4 + 4 * c5 + 2 * c6 + c7
        /\ ByteAt(l) \div 64 = 2 * c0 + c1
        /\ ByteAt(l) % 64 = 32 * c2 + 16 * c3 + 8 * c4 + 4 * c5 + 2 * c6 + c7
  <2>1. HasBits(l, z)
    BY <1>3, ByteBits, Zenon
  <2> QED BY <2>1, Zenon DEF HasBits
<1>7. Sextet(4 * q + 1) = a \div 4
  <2>1. PICK p \in Nat : p = 6 * (4 * q + 1 - 1)
    OBVIOUS
  <2>2. /\ p = x /\ p + 1 = x + 1 /\ p + 2 = x + 2
        /\ p + 3 = x + 3 /\ p + 4 = x + 4 /\ p + 5 = x + 5
    BY <1>1, <1>3, <2>1
  <2>3. /\ Bit(p) = a0 /\ Bit(p + 1) = a1 /\ Bit(p + 2) = a2
        /\ Bit(p + 3) = a3 /\ Bit(p + 4) = a4 /\ Bit(p + 5) = a5
    BY <1>4, <1>5, <1>6, <2>2, Zenon
  <2>4. Sextet(4 * q + 1) = 32 * a0 + 16 * a1 + 8 * a2 + 4 * a3 + 2 * a4 + a5
    <3>1. Sextet(4 * q + 1) = 32 * Bit(p) + 16 * Bit(p + 1) + 8 * Bit(p + 2)
                                + 4 * Bit(p + 3) + 2 * Bit(p + 4) + Bit(p + 5)
      BY <2>1, SMT DEF Sextet
    <3> QED BY <2>3, <3>1, Zenon
  <2> QED BY <1>2, <1>4, <1>6, <2>4, Zenon
<1>8. Sextet(4 * q + 2) = (a % 4) * 16 + (b \div 16)
  <2>1. PICK p \in Nat : p = 6 * (4 * q + 2 - 1)
    OBVIOUS
  <2>2. /\ p = x + 6 /\ p + 1 = x + 7 /\ p + 2 = y
        /\ p + 3 = y + 1 /\ p + 4 = y + 2 /\ p + 5 = y + 3
    BY <1>1, <1>3, <2>1
  <2>3. /\ Bit(p) = a6 /\ Bit(p + 1) = a7 /\ Bit(p + 2) = b0
        /\ Bit(p + 3) = b1 /\ Bit(p + 4) = b2 /\ Bit(p + 5) = b3
    BY <1>4, <1>5, <1>6, <2>2, Zenon
  <2>4. Sextet(4 * q + 2) = 32 * a6 + 16 * a7 + 8 * b0 + 4 * b1 + 2 * b2 + b3
    <3>1. Sextet(4 * q + 2) = 32 * Bit(p) + 16 * Bit(p + 1) + 8 * Bit(p + 2)
                                + 4 * Bit(p + 3) + 2 * Bit(p + 4) + Bit(p + 5)
      BY <2>1, SMT DEF Sextet
    <3> QED BY <2>3, <3>1, Zenon
  <2>5. (2 * a6 + a7) * 16 + (8 * b0 + 4 * b1 + 2 * b2 + b3)
          = 32 * a6 + 16 * a7 + 8 * b0 + 4 * b1 + 2 * b2 + b3
    OBVIOUS
  <2>6. a % 4 = 2 * a6 + a7
    BY <1>2, <1>4, Zenon
  <2>7. b \div 16 = 8 * b0 + 4 * b1 + 2 * b2 + b3
    BY <1>2, <1>5, Zenon
  <2> QED BY <2>4, <2>5, <2>6, <2>7, Zenon
<1>9. Sextet(4 * q + 3) = (b % 16) * 4 + (c \div 64)
  <2>1. PICK p \in Nat : p = 6 * (4 * q + 3 - 1)
    OBVIOUS
  <2>2. /\ p = y + 4 /\ p + 1 = y + 5 /\ p + 2 = y + 6
        /\ p + 3 = y + 7 /\ p + 4 = z /\ p + 5 = z + 1
    BY <1>1, <1>3, <2>1
  <2>3. /\ Bit(p) = b4 /\ Bit(p + 1) = b5 /\ Bit(p + 2) = b6
        /\ Bit(p + 3) = b7 /\ Bit(p + 4) = c0 /\ Bit(p + 5) = c1
    BY <1>4, <1>5, <1>6, <2>2, Zenon
  <2>4. Sextet(4 * q + 3) = 32 * b4 + 16 * b5 + 8 * b6 + 4 * b7 + 2 * c0 + c1
    <3>1. Sextet(4 * q + 3) = 32 * Bit(p) + 16 * Bit(p + 1) + 8 * Bit(p + 2)
                                + 4 * Bit(p + 3) + 2 * Bit(p + 4) + Bit(p + 5)
      BY <2>1, SMT DEF Sextet
    <3> QED BY <2>3, <3>1, Zenon
  <2>5. (8 * b4 + 4 * b5 + 2 * b6 + b7) * 4 + (2 * c0 + c1)
          = 32 * b4 + 16 * b5 + 8 * b6 + 4 * b7 + 2 * c0 + c1
    OBVIOUS
  <2>6. b % 16 = 8 * b4 + 4 * b5 + 2 * b6 + b7
    BY <1>2, <1>5, Zenon
  <2>7. c \div 64 = 2 * c0 + c1
    BY <1>2, <1>6, Zenon
  <2> QED BY <2>4, <2>5, <2>6, <2>7, Zenon
<1>10. Sextet(4 * q + 4) = c % 64
  <2>1. PICK p \in Nat : p = 6 * (4 * q + 4 - 1)
    OBVIOUS
  <2>2. /\ p = z + 2 /\ p + 1 = z + 3 /\ p + 2 = z + 4
        /\ p + 3 = z + 5 /\ p + 4 = z + 6 /\ p + 5 = z + 7
    BY <1>1, <1>3, <2>1
  <2>3. /\ Bit(p) = c2 /\ Bit(p + 1) = c3 /\ Bit(p + 2) = c4
        /\ Bit(p + 3) = c5 /\ Bit(p + 4) = c6 /\ Bit(p + 5) = c7
    BY <1>4, <1>5, <1>6, <2>2, Zenon
  <2>4. Sextet(4 * q + 4) = 32 * c2 + 16 * c3 + 8 * c4 + 4 * c5 + 2 * c6 + c7
    <3>1. Sextet(4 * q + 4) = 32 * Bit(p) + 16 * Bit(p + 1) + 8 * Bit(p + 2)
                                + 4 * Bit(p + 3) + 2 * Bit(p + 4) + Bit(p + 5)
      BY <2>1, SMT DEF Sextet
    <3> QED BY <2>3, <3>1, Zenon
  <2> QED BY <1>2, <1>4, <1>6, <2>4, Zenon
<1>11. a = ByteAt(3 * q) /\ b = ByteAt(3 * q + 1) /\ c = ByteAt(3 * q + 2)
  BY <1>1, <1>2, Zenon
<1> QED BY <1>7, <1>8, <1>9, <1>10, <1>11, Zenon

(* a, b and c are the three bytes that four rounds go through from 4 * q. *)
Cut(q, a, b, c) ==
  /\ a = ByteAt(3 * q) /\ b = ByteAt(3 * q + 1) /\ c = ByteAt(3 * q + 2)
  /\ Sextet(4 * q + 1) = a \div 4
  /\ Sextet(4 * q + 2) = (a % 4) * 16 + (b \div 16)
  /\ Sextet(4 * q + 3) = (b % 16) * 4 + (c \div 64)
  /\ Sextet(4 * q + 4) = c % 64

(* There are always three such bytes.                                      *)
LEMMA FourSextets ==
  ASSUME arg.data \in Seq(0..255), NEW q \in Nat
  PROVE  \E a \in 0..255, b \in 0..255, c \in 0..255 : Cut(q, a, b, c)
<1>1. PICK a \in 0..255, b \in 0..255, c \in 0..255 :
        a = ByteAt(3 * q) /\ b = ByteAt(3 * q + 1) /\ c = ByteAt(3 * q + 2)
  <2>1. 3 * q \in Nat /\ 3 * q + 1 \in Nat /\ 3 * q + 2 \in Nat
    OBVIOUS
  <2> QED BY <2>1, BytesAreBytes, Zenon
<1>2. Sextet(4 * q + 1) = a \div 4
  BY <1>1, SextetsOf, Zenon
<1>3. Sextet(4 * q + 2) = (a % 4) * 16 + (b \div 16)
  BY <1>1, SextetsOf, Zenon
<1>4. Sextet(4 * q + 3) = (b % 16) * 4 + (c \div 64)
  BY <1>1, SextetsOf, Zenon
<1>5. Sextet(4 * q + 4) = c % 64
  BY <1>1, SextetsOf, Zenon
<1>6. Cut(q, a, b, c)
  BY <1>1, <1>2, <1>3, <1>4, <1>5, Zenon DEF Cut
<1> QED BY <1>6, Zenon

(* A sextet is the index of a character, not LF and not Fill.              *)
LEMMA SextetIsDigit ==
  ASSUME arg.data \in Seq(0..255), NEW n \in Nat
  PROVE  Sextet(n + 1) \in 0..63
<1>1. PICK q \in Nat : \/ n = 4 * q \/ n = 4 * q + 1
                       \/ n = 4 * q + 2 \/ n = 4 * q + 3
  BY Rounds, Zenon
<1>2. PICK a \in 0..255, b \in 0..255, c \in 0..255 :
           /\ a = ByteAt(3 * q) /\ b = ByteAt(3 * q + 1) /\ c = ByteAt(3 * q + 2)
           /\ Sextet(4 * q + 1) = a \div 4
           /\ Sextet(4 * q + 2) = (a % 4) * 16 + (b \div 16)
           /\ Sextet(4 * q + 3) = (b % 16) * 4 + (c \div 64)
           /\ Sextet(4 * q + 4) = c % 64
  <2>1. \E a \in 0..255, b \in 0..255, c \in 0..255 : Cut(q, a, b, c)
    BY FourSextets, Zenon
  <2> QED BY <2>1, Zenon DEF Cut
<1>3. /\ Sextet(4 * q + 1) \in 0..63 /\ Sextet(4 * q + 2) \in 0..63
      /\ Sextet(4 * q + 3) \in 0..63 /\ Sextet(4 * q + 4) \in 0..63
  <2>1. /\ a \div 4 \in 0..63 /\ (a % 4) * 16 + (b \div 16) \in 0..63
        /\ (b % 16) * 4 + (c \div 64) \in 0..63 /\ c % 64 \in 0..63
    OBVIOUS
  <2>2. Sextet(4 * q + 1) \in 0..63
    BY <1>2, <2>1
  <2>3. Sextet(4 * q + 2) \in 0..63
    BY <1>2, <2>1
  <2>4. Sextet(4 * q + 3) \in 0..63
    BY <1>2, <2>1
  <2>5. Sextet(4 * q + 4) \in 0..63
    BY <1>2, <2>1
  <2> QED BY <2>2, <2>3, <2>4, <2>5, Zenon
<1>4. CASE n = 4 * q
  <2>1. n + 1 = 4 * q + 1
    BY <1>4
  <2> QED BY <1>3, <2>1, Zenon
<1>5. CASE n = 4 * q + 1
  <2>1. n + 1 = 4 * q + 2
    BY <1>5
  <2> QED BY <1>3, <2>1, Zenon
<1>6. CASE n = 4 * q + 2
  <2>1. n + 1 = 4 * q + 3
    BY <1>6
  <2> QED BY <1>3, <2>1, Zenon
<1>7. CASE n = 4 * q + 3
  <2>1. n + 1 = 4 * q + 4
    BY <1>7
  <2> QED BY <1>3, <2>1, Zenon
<1> QED BY <1>1, <1>4, <1>5, <1>6, <1>7, Zenon

(* The four cases of the switch.                                           *)
LEMMA LookupCases ==
  ASSUME NEW n, NEW c, NEW d
  PROVE  /\ n % 4 = 0 => Lookup(n, c, d) = c \div 4
         /\ n % 4 = 1 => Lookup(n, c, d) = (c % 4) * 16 + (d \div 16)
         /\ n % 4 = 2 => Lookup(n, c, d) = (c % 16) * 4 + (d \div 64)
         /\ n % 4 = 3 => Lookup(n, c, d) = c % 64
  BY DEF Lookup

(* Round n of to_base64 looks up the sextet after n others. *)
LEMMA RoundWrites ==
  ASSUME arg.data \in Seq(0..255), NEW n \in Nat, NEW m, m = (6 * n) \div 8,
         m < Len(arg.data)
  PROVE  /\ Lookup(n, arg.data[m + 1],
                   IF m + 1 < Len(arg.data) THEN arg.data[m + 2] ELSE 0) = Sextet(n + 1)
         /\ (6 * (n + 1)) \div 8 = IF n % 4 = 0 THEN m ELSE m + 1
<1> DEFINE next == IF m + 1 < Len(arg.data) THEN arg.data[m + 2] ELSE 0
<1>1. PICK q \in Nat :
           \/ /\ n = 4 * q /\ n % 4 = 0
              /\ (6 * n) \div 8 = 3 * q /\ (6 * (n + 1)) \div 8 = 3 * q
           \/ /\ n = 4 * q + 1 /\ n % 4 = 1
              /\ (6 * n) \div 8 = 3 * q /\ (6 * (n + 1)) \div 8 = 3 * q + 1
           \/ /\ n = 4 * q + 2 /\ n % 4 = 2
              /\ (6 * n) \div 8 = 3 * q + 1 /\ (6 * (n + 1)) \div 8 = 3 * q + 2
           \/ /\ n = 4 * q + 3 /\ n % 4 = 3
              /\ (6 * n) \div 8 = 3 * q + 2 /\ (6 * (n + 1)) \div 8 = 3 * q + 3
  BY Rounds
<1>2. PICK a \in 0..255, b \in 0..255, c \in 0..255 :
           /\ a = ByteAt(3 * q) /\ b = ByteAt(3 * q + 1) /\ c = ByteAt(3 * q + 2)
           /\ Sextet(4 * q + 1) = a \div 4
           /\ Sextet(4 * q + 2) = (a % 4) * 16 + (b \div 16)
           /\ Sextet(4 * q + 3) = (b % 16) * 4 + (c \div 64)
           /\ Sextet(4 * q + 4) = c % 64
  <2>1. \E a \in 0..255, b \in 0..255, c \in 0..255 : Cut(q, a, b, c)
    BY FourSextets, Zenon
  <2> QED BY <2>1, Zenon DEF Cut
<1>3. arg.data[m + 1] = ByteAt(m) /\ next = ByteAt(m + 1)
  <2>1. m \in Nat /\ m + 1 + 1 = m + 2
    BY <1>1
  <2> QED BY <2>1, Zenon DEF ByteAt
<1>4. PICK y : y = next
  OBVIOUS
<1>5. PICK x : x = arg.data[m + 1]
  OBVIOUS
<1>6. CASE n = 4 * q /\ n % 4 = 0 /\ m = 3 * q /\ (6 * (n + 1)) \div 8 = 3 * q
  <2>1. Lookup(n, x, y) = x \div 4
    BY <1>6, LookupCases
  <2> QED BY <1>2, <1>3, <1>6, <2>1, <1>4, <1>5, Zenon
<1>7. CASE n = 4 * q + 1 /\ n % 4 = 1 /\ m = 3 * q /\ (6 * (n + 1)) \div 8 = 3 * q + 1
  <2>1. Lookup(n, x, y) = (x % 4) * 16 + (y \div 16)
    BY <1>7, LookupCases
  <2>2. n + 1 = 4 * q + 2 /\ n % 4 # 0
    BY <1>7
  <2>3. x = a /\ y = b
    BY <1>2, <1>3, <1>4, <1>5, <1>7, Zenon
  <2>4. Sextet(n + 1) = (a % 4) * 16 + (b \div 16)
    BY <1>2, <2>2, Zenon
  <2>5. Lookup(n, x, y) = Sextet(n + 1)
    BY <2>1, <2>3, <2>4, Zenon
  <2> QED BY <1>4, <1>5, <1>7, <2>2, <2>5, Zenon
<1>8. CASE n = 4 * q + 2 /\ n % 4 = 2 /\ m = 3 * q + 1 /\ (6 * (n + 1)) \div 8 = 3 * q + 2
  <2>1. Lookup(n, x, y) = (x % 16) * 4 + (y \div 64)
    BY <1>8, LookupCases
  <2>2. n + 1 = 4 * q + 3 /\ m + 1 = 3 * q + 2 /\ n % 4 # 0
    BY <1>8
  <2>3. x = b /\ y = c
    BY <1>2, <1>3, <1>4, <1>5, <1>8, <2>2, Zenon
  <2>4. Sextet(n + 1) = (b % 16) * 4 + (c \div 64)
    BY <1>2, <2>2, Zenon
  <2>5. Lookup(n, x, y) = Sextet(n + 1)
    BY <2>1, <2>3, <2>4, Zenon
  <2> QED BY <1>4, <1>5, <1>8, <2>2, <2>5, Zenon
<1>9. CASE n = 4 * q + 3 /\ n % 4 = 3 /\ m = 3 * q + 2 /\ (6 * (n + 1)) \div 8 = 3 * q + 3
  <2>1. Lookup(n, x, y) = x % 64
    BY <1>9, LookupCases
  <2>2. n + 1 = 4 * q + 4 /\ m + 1 = 3 * q + 3 /\ n % 4 # 0
    BY <1>9
  <2>3. x = c
    BY <1>2, <1>3, <1>5, <1>9, Zenon
  <2>4. Lookup(n, x, y) = Sextet(n + 1)
    BY <1>2, <2>1, <2>2, <2>3, Zenon
  <2> QED BY <1>4, <1>5, <1>9, <2>2, <2>4, Zenon
<1> QED BY <1>1, <1>6, <1>7, <1>8, <1>9, Zenon

(* Round n of base64_to puts the byte together that is due. *)
LEMMA RoundReads ==
  ASSUME arg.data \in Seq(0..255), NEW n \in Nat, NEW m, m = (6 * n) \div 8
  PROVE  /\ n % 4 = 0 => (6 * (n + 1)) \div 8 = m
         /\ n % 4 = 1 => /\ (6 * (n + 1)) \div 8 = m + 1
                         /\ Sextet(n) * 4 + (Sextet(n + 1) \div 16) = ByteAt(m)
         /\ n % 4 = 2 => /\ (6 * (n + 1)) \div 8 = m + 1
                         /\ (Sextet(n) % 16) * 16 + (Sextet(n + 1) \div 4) = ByteAt(m)
         /\ n % 4 = 3 => /\ (6 * (n + 1)) \div 8 = m + 1
                         /\ (Sextet(n) % 4) * 64 + Sextet(n + 1) = ByteAt(m)
<1>1. PICK q \in Nat :
           \/ /\ n = 4 * q /\ n % 4 = 0
              /\ (6 * n) \div 8 = 3 * q /\ (6 * (n + 1)) \div 8 = 3 * q
           \/ /\ n = 4 * q + 1 /\ n % 4 = 1
              /\ (6 * n) \div 8 = 3 * q /\ (6 * (n + 1)) \div 8 = 3 * q + 1
           \/ /\ n = 4 * q + 2 /\ n % 4 = 2
              /\ (6 * n) \div 8 = 3 * q + 1 /\ (6 * (n + 1)) \div 8 = 3 * q + 2
           \/ /\ n = 4 * q + 3 /\ n % 4 = 3
              /\ (6 * n) \div 8 = 3 * q + 2 /\ (6 * (n + 1)) \div 8 = 3 * q + 3
  BY Rounds
<1>2. PICK a \in 0..255, b \in 0..255, c \in 0..255 :
           /\ a = ByteAt(3 * q) /\ b = ByteAt(3 * q + 1) /\ c = ByteAt(3 * q + 2)
           /\ Sextet(4 * q + 1) = a \div 4
           /\ Sextet(4 * q + 2) = (a % 4) * 16 + (b \div 16)
           /\ Sextet(4 * q + 3) = (b % 16) * 4 + (c \div 64)
           /\ Sextet(4 * q + 4) = c % 64
  <2>1. \E a \in 0..255, b \in 0..255, c \in 0..255 : Cut(q, a, b, c)
    BY FourSextets, Zenon
  <2> QED BY <2>1, Zenon DEF Cut
<1>3. /\ 0 # 1 /\ 0 # 2 /\ 0 # 3 /\ 1 # 2 /\ 1 # 3 /\ 2 # 3
  OBVIOUS
<1>4. CASE n = 4 * q /\ n % 4 = 0 /\ m = 3 * q /\ (6 * (n + 1)) \div 8 = 3 * q
  BY <1>3, <1>4, Zenon
<1>5. CASE n = 4 * q + 1 /\ n % 4 = 1 /\ m = 3 * q /\ (6 * (n + 1)) \div 8 = 3 * q + 1
  <2>1. n + 1 = 4 * q + 2
    BY <1>5
  <2>2. Sextet(n) * 4 + (Sextet(n + 1) \div 16) = ByteAt(m)
    <3>1. (a \div 4) * 4 + (((a % 4) * 16 + (b \div 16)) \div 16) = a
      BY FirstByte, Zenon
    <3> QED BY <1>2, <1>5, <2>1, <3>1, Zenon
  <2> QED BY <1>3, <1>5, <2>2, Zenon
<1>6. CASE n = 4 * q + 2 /\ n % 4 = 2 /\ m = 3 * q + 1 /\ (6 * (n + 1)) \div 8 = 3 * q + 2
  <2>1. n + 1 = 4 * q + 3 /\ 3 * q + 2 = m + 1
    BY <1>6
  <2>2. (Sextet(n) % 16) * 16 + (Sextet(n + 1) \div 4) = ByteAt(m)
    <3>1. ((a % 4) * 16 + (b \div 16)) % 16 = b \div 16
      BY LowKept, Zenon
    <3>2. ((b % 16) * 4 + (c \div 64)) \div 4 = b % 16
      BY HighKept, Zenon
    <3>3. (b \div 16) * 16 + (b % 16) = b
      OBVIOUS
    <3>4. Sextet(n) % 16 = b \div 16
      BY <1>2, <1>6, <3>1, Zenon
    <3>5. Sextet(n + 1) \div 4 = b % 16
      BY <1>2, <2>1, <3>2, Zenon
    <3>6. ByteAt(m) = b
      BY <1>2, <1>6, Zenon
    <3> QED BY <3>3, <3>4, <3>5, <3>6, Zenon
  <2> QED BY <1>3, <1>6, <2>1, <2>2, Zenon
<1>7. CASE n = 4 * q + 3 /\ n % 4 = 3 /\ m = 3 * q + 2 /\ (6 * (n + 1)) \div 8 = 3 * q + 3
  <2>1. n + 1 = 4 * q + 4 /\ 3 * q + 3 = m + 1
    BY <1>7
  <2>2. (Sextet(n) % 4) * 64 + Sextet(n + 1) = ByteAt(m)
    <3>1. (((b % 16) * 4 + (c \div 64)) % 4) * 64 + (c % 64) = c
      BY ThirdByte, Zenon
    <3> QED BY <1>2, <1>7, <2>1, <3>1, Zenon
  <2> QED BY <1>3, <1>7, <2>1, <2>2, Zenon
<1> QED BY <1>1, <1>4, <1>5, <1>6, <1>7, Zenon

(* How far the loops go. *)
LEMMA Counts ==
  ASSUME arg.data \in Seq(0..255)
  PROVE  /\ Sextets \in Nat /\ Len(arg.data) \in Nat
         /\ (6 * Sextets) \div 8 = Len(arg.data)
         /\ \A n \in Nat : (6 * n) \div 8 < Len(arg.data) <=> n < Sextets
         /\ UpToFour(Sextets) - Sextets \in 0..3 /\ UpToFour(Sextets) \in Nat
         /\ UpToFour((Len(arg.data) * 8 + 5) \div 6) = UpToFour(Sextets)
<1>1. PICK l \in Nat : l = Len(arg.data)
  BY LenProperties
<1>2. PICK s \in Nat : s = (l * 8 + 5) \div 6
  OBVIOUS
<1>3. Sextets = s
  BY <1>1, <1>2, Zenon DEF Sextets
<1>4. (6 * s) \div 8 = l /\ \A n \in Nat : (6 * n) \div 8 < l <=> n < s
  BY <1>2
<1>5. UpToFour(s) - s \in 0..3 /\ UpToFour(s) \in Nat
  BY DEF UpToFour
<1> QED BY <1>1, <1>3, <1>4, <1>5, Zenon DEF Sextets

(* The characters of s that are not line feeds. *)
Count(s) == Cardinality({n \in 1..Len(s) : s[n] # LF})

(* One character more counts unless it is a line feed.                     *)
LEMMA CountAppend ==
  ASSUME NEW s \in Seq(0..65), NEW e \in 0..65
  PROVE  /\ Count(s) \in Nat
         /\ Count(Append(s, e)) = IF e = LF THEN Count(s) ELSE Count(s) + 1
<1> DEFINE A == {n \in 1..Len(s) : s[n] # LF}
           B == {n \in 1..Len(Append(s, e)) : Append(s, e)[n] # LF}
<1>1. Len(s) \in Nat /\ IsFiniteSet(1..Len(s))
  BY LenProperties, FS_Interval
<1>2. IsFiniteSet(A) /\ Cardinality(A) \in Nat
  BY <1>1, FS_Subset, FS_CardinalityType
<1>3. /\ Append(s, e)[Len(s) + 1] = e /\ Len(Append(s, e)) = Len(s) + 1
      /\ \A n \in 1..Len(s) : Append(s, e)[n] = s[n]
  BY AppendProperties
<1>4. CASE e = LF
  <2>1. B = A
    BY <1>1, <1>3, <1>4
  <2> QED BY <1>2, <1>4, <2>1, Zenon DEF Count
<1>5. CASE e # LF
  <2>1. B = A \cup {Len(s) + 1} /\ Len(s) + 1 \notin A
    BY <1>1, <1>3, <1>5
  <2>2. Cardinality(A \cup {Len(s) + 1}) = Cardinality(A) + 1
    BY <1>2, <2>1, FS_AddElement
  <2> QED BY <1>2, <1>5, <2>1, <2>2, Zenon DEF Count
<1> QED BY <1>4, <1>5

(* What padding is, as a sequence.                                         *)
LEMMA Fills ==
  ASSUME NEW p \in Nat, NEW S, NEW x \in S
  PROVE  /\ [k \in 1..p |-> x] \in Seq(S) /\ Len([k \in 1..p |-> x]) = p
         /\ \A n \in 1..p : [k \in 1..p |-> x][n] = x
<1>1. [k \in 1..p |-> x] \in Seq(S)
  OBVIOUS
<1>2. Len([k \in 1..p |-> x]) = p
  OBVIOUS
<1> QED BY <1>1, <1>2

(* Padding. *)
LEMMA Padded ==
  ASSUME NEW s \in Seq(0..65), NEW p \in Nat, NEW t,
         t = s \o [k \in 1..p |-> Fill]
  PROVE  /\ t \in Seq(0..65) /\ Len(t) = Len(s) + p
         /\ \A n \in 1..Len(s) : t[n] = s[n]
         /\ \A n \in Len(s) + 1..Len(s) + p : t[n] = Fill
         /\ Count(t) = Count(s) + p
<1> DEFINE A == {n \in 1..Len(s) : s[n] # LF}
           B == {n \in 1..Len(t) : t[n] # LF}
           C == Len(s) + 1..Len(s) + p
<1>1. Fill \in 0..65 /\ Fill # LF
  BY DEF Fill, LF
<1>2. PICK f : f = [k \in 1..p |-> Fill]
  OBVIOUS
<1>3. f \in Seq(0..65) /\ Len(f) = p /\ \A n \in 1..p : f[n] = Fill
  <2>1. \A x \in 0..65 :
          /\ [k \in 1..p |-> x] \in Seq(0..65) /\ Len([k \in 1..p |-> x]) = p
          /\ \A n \in 1..p : [k \in 1..p |-> x][n] = x
    BY Fills
  <2>2. /\ [k \in 1..p |-> Fill] \in Seq(0..65) /\ Len([k \in 1..p |-> Fill]) = p
        /\ \A n \in 1..p : [k \in 1..p |-> Fill][n] = Fill
    BY <1>1, <2>1, Zenon
  <2> QED BY <1>2, <2>2, Zenon
<1>4. Len(s) \in Nat
  BY LenProperties
<1>5. t = s \o f
  BY <1>2
<1>6. /\ t \in Seq(0..65) /\ Len(t) = Len(s) + p
      /\ \A n \in 1..Len(s) : t[n] = s[n]
      /\ \A n \in 1..p : t[Len(s) + n] = Fill
  <2>1. /\ t \in Seq(0..65) /\ Len(t) = Len(s) + p
        /\ \A n \in 1..Len(s) + p :
             t[n] = IF n <= Len(s) THEN s[n] ELSE f[n - Len(s)]
    <3>1. /\ s \o f \in Seq(0..65) /\ Len(s \o f) = Len(s) + p
          /\ \A n \in 1..Len(s) + p :
               (s \o f)[n] = IF n <= Len(s) THEN s[n] ELSE f[n - Len(s)]
      <4>1. s \in Seq(0..65) /\ f \in Seq(0..65) /\ Len(f) = p
        BY <1>3, Zenon
      <4>2. /\ s \o f \in Seq(0..65) /\ Len(s \o f) = Len(s) + Len(f)
            /\ \A n \in 1..Len(s) + Len(f) :
                 (s \o f)[n] = IF n <= Len(s) THEN s[n] ELSE f[n - Len(s)]
        BY <4>1, ConcatProperties, Zenon
      <4> QED BY <4>1, <4>2, Zenon
    <3>2. t \in Seq(0..65) /\ Len(t) = Len(s) + p
      BY <1>5, <3>1, Zenon
    <3>3. ASSUME NEW n \in 1..Len(s) + p
          PROVE  t[n] = IF n <= Len(s) THEN s[n] ELSE f[n - Len(s)]
      BY <1>5, <3>1, Zenon
    <3> QED BY <3>2, <3>3, Zenon
  <2>2. \A n \in 1..Len(s) : n \in 1..Len(s) + p /\ n <= Len(s)
    BY <1>4
  <2>3. \A n \in 1..p : /\ Len(s) + n \in 1..Len(s) + p /\ ~(Len(s) + n <= Len(s))
                        /\ Len(s) + n - Len(s) = n
    BY <1>4
  <2>4. \A n \in 1..Len(s) : t[n] = s[n]
    BY <2>1, <2>2, Zenon
  <2>5. \A n \in 1..p : t[Len(s) + n] = Fill
    BY <1>3, <2>1, <2>3
  <2> QED BY <2>1, <2>4, <2>5, Zenon
<1>7. ASSUME NEW n \in C
      PROVE  t[n] = Fill
  <2>1. n - Len(s) \in 1..p /\ Len(s) + (n - Len(s)) = n
    BY <1>4
  <2> QED BY <1>6, <2>1
<1>8. IsFiniteSet(A) /\ IsFiniteSet(C) /\ Cardinality(C) = p /\ Cardinality(A) \in Nat
  <2>1. IsFiniteSet(1..Len(s)) /\ IsFiniteSet(C)
    BY <1>4, FS_Interval
  <2>2. Cardinality(C) = p
    BY <1>4, FS_Interval
  <2> QED BY <2>1, <2>2, FS_Subset, FS_CardinalityType
<1>9. B = A \cup C
  BY <1>1, <1>4, <1>6, <1>7
<1>10. A \cap C = {}
  BY <1>4
<1>11. Cardinality(A \cup C) = Cardinality(A) + Cardinality(C) - Cardinality(A \cap C)
  BY <1>8, FS_Union
<1>12. Cardinality(B) = Cardinality(A) + p
  <2>1. Cardinality(A \cap C) = 0
    BY <1>10, FS_EmptySet, Zenon
  <2>2. Cardinality(B) = Cardinality(A) + p - 0
    BY <1>8, <1>9, <1>11, <2>1, Zenon
  <2>3. ASSUME NEW c \in Nat
        PROVE  c + p - 0 = c + p
    OBVIOUS
  <2> QED BY <1>8, <2>2, <2>3, Zenon
<1> QED BY <1>6, <1>7, <1>12, Zenon DEF Count

(* The arguments of to_base64. *)
GoodText ==
  /\ arg.data \in Seq(0..255)
  /\ arg.nl \in BOOLEAN /\ arg.pad \in BOOLEAN /\ arg.strict \in BOOLEAN

(* The line feeds behind m characters. *)
Breaks(m) == IF arg.nl THEN m \div LineLen ELSE 0

(* The first m sextets, written in lines. *)
LaidOut(t, m) ==
  /\ t \in Seq(0..65) /\ m \in Nat /\ m <= Sextets
  /\ Len(t) = m + Breaks(m) /\ Count(t) = m
  /\ \A n \in 1..Len(t) : t[n] = LF <=> arg.nl /\ n % (LineLen + 1) = 0
  /\ \A k \in 1..m : t[k + Breaks(k - 1)] = Sextet(k)

(* Line feeds are never taken back, and a full line has one more.          *)
LEMMA BreaksGrow ==
  ASSUME GoodText, NEW m \in Nat
  PROVE  /\ Breaks(m) \in Nat
         /\ \A k \in 0..m : Breaks(k) <= Breaks(m)
         /\ Breaks(m + 1) =
              IF arg.nl /\ (m + 1) % LineLen = 0 THEN Breaks(m) + 1 ELSE Breaks(m)
         /\ arg.nl => Breaks(m) = m \div LineLen
         /\ ~arg.nl => Breaks(m) = 0
<1>1. CASE arg.nl
  <2>1. \A k \in Nat : Breaks(k) = k \div LineLen
    BY <1>1, Zenon DEF Breaks
  <2>2. m \div LineLen \in Nat /\ m + 1 \in Nat
    BY Line, DivMod
  <2>3. \A k \in 0..m : k \in Nat /\ k <= m
    OBVIOUS
  <2>4. \A k \in 0..m : k \div LineLen <= m \div LineLen
    BY <2>3, Line, DivMonotone, Zenon
  <2>5. (m + 1) \div LineLen =
          IF (m + 1) % LineLen = 0 THEN m \div LineLen + 1 ELSE m \div LineLen
    BY Line, DivNext, Zenon
  <2> QED BY <1>1, <2>1, <2>2, <2>3, <2>4, <2>5, Zenon
<1>2. CASE ~arg.nl
  <2>1. \A k \in Nat : Breaks(k) = 0
    BY <1>2, Zenon DEF Breaks
  <2>2. 0 \in Nat /\ 0 <= 0 /\ m + 1 \in Nat /\ \A k \in 0..m : k \in Nat
    OBVIOUS
  <2> QED BY <1>2, <2>1, <2>2, Zenon
<1> QED BY <1>1, <1>2

(* A round lays out one sextet more. *)
LEMMA LaysOut ==
  ASSUME GoodText, NEW t, NEW m, LaidOut(t, m), m < Sextets, NEW c, c = Sextet(m + 1),
         NEW u, u = Append(t, c)
                       \o (IF arg.nl /\ (m + 1) % LineLen = 0 THEN <<LF>> ELSE <<>>)
  PROVE  LaidOut(u, m + 1)
<1>1. /\ m \in Nat /\ m + 1 \in Nat /\ Sextets \in Nat /\ m + 1 <= Sextets
      /\ c \in 0..65 /\ c # LF /\ LF \in 0..65 /\ Breaks(m) \in Nat
  <2>1. m \in Nat /\ arg.data \in Seq(0..255)
    BY Zenon DEF LaidOut, GoodText
  <2>2. Sextets \in Nat /\ c \in 0..63 /\ Breaks(m) \in Nat
    BY <2>1, Counts, SextetIsDigit, BreaksGrow, Zenon
  <2>3. LF \in 0..65 /\ \A x \in 0..63 : x \in 0..65 /\ x # LF
    BY DEF LF
  <2>4. m + 1 \in Nat /\ m + 1 <= Sextets
    BY <2>1, <2>2
  <2> QED BY <2>1, <2>2, <2>3, <2>4, Zenon
<1>2. PICK d : d = Append(t, c)
  OBVIOUS
<1>3. /\ t \in Seq(0..65) /\ Len(t) = m + Breaks(m) /\ Count(t) = m
  BY DEF LaidOut
<1>4. /\ d \in Seq(0..65) /\ Len(d) = m + Breaks(m) + 1 /\ d[Len(t) + 1] = c
      /\ \A n \in 1..Len(t) : d[n] = t[n]
  <2>1. t \in Seq(0..65) /\ c \in 0..65
    BY <1>1, <1>3, Zenon
  <2>2. /\ Append(t, c) \in Seq(0..65) /\ Len(Append(t, c)) = Len(t) + 1
        /\ Append(t, c)[Len(t) + 1] = c
        /\ \A n \in 1..Len(t) : Append(t, c)[n] = t[n]
    BY <2>1, AppendProperties
  <2>3. d \in Seq(0..65) /\ Len(d) = m + Breaks(m) + 1 /\ d[Len(t) + 1] = c
    BY <1>2, <1>3, <2>2, Zenon
  <2>4. ASSUME NEW n \in 1..Len(t)
        PROVE  d[n] = t[n]
    BY <1>2, <2>2, Zenon
  <2> QED BY <2>3, <2>4, Zenon
<1>5. Count(d) = m + 1
  BY <1>1, <1>3, <1>2, CountAppend, Zenon
<1>6. \A n \in 1..Len(d) : d[n] = LF <=> arg.nl /\ n % (LineLen + 1) = 0
  <2>1. ASSUME NEW n \in 1..Len(t)
        PROVE  d[n] = LF <=> arg.nl /\ n % (LineLen + 1) = 0
    BY <1>4, <2>1, Zenon DEF LaidOut
  <2>2. ~(arg.nl /\ (Len(t) + 1) % (LineLen + 1) = 0)
    <3>1. SUFFICES ASSUME arg.nl
                   PROVE  (Len(t) + 1) % (LineLen + 1) # 0
      OBVIOUS
    <3>2. Breaks(m) = m \div LineLen
      BY <1>1, <3>1, BreaksGrow, Zenon
    <3>3. Len(t) + 1 = m + 1 + m \div LineLen
      BY <1>1, <1>3, <3>2
    <3> QED BY <1>1, <3>3, DigitPlace, Zenon
  <2>3. d[Len(t) + 1] = LF <=> arg.nl /\ (Len(t) + 1) % (LineLen + 1) = 0
    BY <1>1, <1>4, <2>2, Zenon
  <2>4. \A n \in 1..Len(d) : n \in 1..Len(t) \/ n = Len(t) + 1
    BY <1>1, <1>3, <1>4
  <2> QED BY <2>1, <2>3, <2>4, Zenon
<1>7. \A k \in 1..m + 1 : d[k + Breaks(k - 1)] = Sextet(k)
  <2>1. ASSUME NEW k \in 1..m
        PROVE  d[k + Breaks(k - 1)] = Sextet(k)
    <3>1. k - 1 \in 0..m /\ k - 1 \in Nat
      BY <1>1
    <3>2. Breaks(k - 1) <= Breaks(m) /\ Breaks(k - 1) \in Nat
      BY <1>1, <3>1, BreaksGrow, Zenon
    <3>3. k + Breaks(k - 1) \in 1..Len(t)
      BY <1>1, <1>3, <3>2
    <3> QED BY <1>4, <3>3, Zenon DEF LaidOut
  <2>2. ASSUME NEW k \in 1..m + 1
        PROVE  d[k + Breaks(k - 1)] = Sextet(k)
    <3>1. CASE k \in 1..m
      BY <2>1, <3>1, Zenon
    <3>2. CASE k = m + 1
      <4>1. k - 1 = m /\ m + 1 + Breaks(m) = Len(t) + 1
        BY <1>1, <1>3, <3>2
      <4> QED BY <1>4, <3>2, <4>1, Zenon
    <3>3. k \in 1..m \/ k = m + 1
      BY <1>1
    <3> QED BY <3>1, <3>2, <3>3, Zenon
  <2> QED BY <2>2, Zenon
<1>8. CASE ~(arg.nl /\ (m + 1) % LineLen = 0)
  <2>1. u = d
    BY <1>4, <1>8, <1>2, ConcatEmptySeq
  <2>2. Breaks(m + 1) = Breaks(m)
    BY <1>1, <1>8, BreaksGrow, Zenon
  <2>3. Len(u) = m + 1 + Breaks(m + 1)
    BY <1>1, <1>4, <2>1, <2>2
  <2> QED BY <1>1, <1>4, <1>5, <1>6, <1>7, <2>1, <2>3, Zenon DEF LaidOut
<1>9. CASE arg.nl /\ (m + 1) % LineLen = 0
  <2>1. u = d \o <<LF>>
    BY <1>9, <1>2, Zenon
  <2>2. u = Append(d, LF)
    BY <1>1, <1>4, <2>1, AppendIsConcat
  <2>3. /\ u \in Seq(0..65) /\ Len(u) = Len(d) + 1 /\ u[Len(d) + 1] = LF
        /\ \A n \in 1..Len(d) : u[n] = d[n]
    <3>1. d \in Seq(0..65) /\ LF \in 0..65
      BY <1>1, <1>4, Zenon
    <3>2. /\ Append(d, LF) \in Seq(0..65) /\ Len(Append(d, LF)) = Len(d) + 1
          /\ Append(d, LF)[Len(d) + 1] = LF
          /\ \A n \in 1..Len(d) : Append(d, LF)[n] = d[n]
      BY <3>1, AppendProperties
    <3>3. u \in Seq(0..65) /\ Len(u) = Len(d) + 1 /\ u[Len(d) + 1] = LF
      BY <2>2, <3>2, Zenon
    <3>4. ASSUME NEW n \in 1..Len(d)
          PROVE  u[n] = d[n]
      BY <2>2, <3>2, Zenon
    <3> QED BY <3>3, <3>4, Zenon
  <2>4. Count(u) = m + 1
    BY <1>1, <1>4, <1>5, <2>2, CountAppend, Zenon
  <2>5. Breaks(m + 1) = Breaks(m) + 1 /\ Breaks(m + 1) = (m + 1) \div LineLen
    BY <1>1, <1>9, BreaksGrow, Zenon
  <2>6. Len(u) = m + 1 + Breaks(m + 1)
    BY <1>1, <1>4, <2>3, <2>5
  <2>7. Len(u) % (LineLen + 1) = 0
    BY <1>1, <1>9, <2>5, <2>6, FeedPlace, Zenon
  <2>8. \A n \in 1..Len(u) : n \in 1..Len(d) \/ n = Len(u)
    BY <1>1, <1>4, <2>3
  <2>9. \A n \in 1..Len(u) : u[n] = LF <=> arg.nl /\ n % (LineLen + 1) = 0
    BY <1>6, <1>9, <2>3, <2>7, <2>8, Zenon
  <2>10. \A k \in 1..m + 1 : u[k + Breaks(k - 1)] = Sextet(k)
    <3>1. ASSUME NEW k \in 1..m + 1
          PROVE  k + Breaks(k - 1) \in 1..Len(d)
      <4>1. k - 1 \in 0..m /\ k - 1 \in Nat
        BY <1>1
      <4>2. Breaks(k - 1) <= Breaks(m) /\ Breaks(k - 1) \in Nat
        BY <1>1, <4>1, BreaksGrow, Zenon
      <4>3. Len(d) = m + Breaks(m) + 1 /\ m \in Nat /\ Breaks(m) \in Nat
        BY <1>1, <1>4, Zenon
      <4> QED BY <4>2, <4>3
    <3>2. ASSUME NEW k \in 1..m + 1
          PROVE  u[k + Breaks(k - 1)] = Sextet(k)
      <4>1. u[k + Breaks(k - 1)] = d[k + Breaks(k - 1)]
        BY <2>3, <3>1, Zenon
      <4> QED BY <1>7, <4>1, Zenon
    <3> QED BY <3>2, Zenon
  <2> QED BY <1>1, <2>3, <2>4, <2>6, <2>9, <2>10, Zenon DEF LaidOut
<1> QED BY <1>8, <1>9, Zenon

(* All the sextets are laid out, and what follows them is padding. *)
Complete(t) ==
  /\ t \in Seq(0..65) /\ Sextets + Breaks(Sextets) <= Len(t)
  /\ Count(t) = Len(t) - Breaks(Sextets)
  /\ \A n \in 1..Sextets + Breaks(Sextets) :
       t[n] = LF <=> arg.nl /\ n % (LineLen + 1) = 0
  /\ \A k \in 1..Sextets : t[k + Breaks(k - 1)] = Sextet(k)
  /\ \A n \in Sextets + Breaks(Sextets) + 1..Len(t) : t[n] = Fill
  /\ Len(t) = IF arg.pad THEN UpToFour(Sextets) + Breaks(UpToFour(Sextets))
              ELSE Sextets + Breaks(Sextets)

(* The size of the padded text, as to_base64 computes it beforehand.       *)
LEMMA Sizes ==
  ASSUME GoodText
  PROVE  /\ Sextets \in Nat /\ UpToFour(Sextets) \in Nat
         /\ Breaks(Sextets) \in Nat /\ Breaks(UpToFour(Sextets)) \in Nat
         /\ Sextets <= UpToFour(Sextets) /\ UpToFour(Sextets) <= Sextets + 3
         /\ Breaks(Sextets) <= Breaks(UpToFour(Sextets))
         /\ FinalSize = UpToFour(Sextets) + Breaks(UpToFour(Sextets))
<1>1. /\ Sextets \in Nat /\ UpToFour(Sextets) \in Nat /\ UpToFour(Sextets) - Sextets \in 0..3
      /\ UpToFour((Len(arg.data) * 8 + 5) \div 6) = UpToFour(Sextets)
  BY Counts, Zenon DEF GoodText
<1>2. Sextets <= UpToFour(Sextets) /\ UpToFour(Sextets) <= Sextets + 3
  BY <1>1
<1>3. Sextets \in 0..UpToFour(Sextets)
  BY <1>1, <1>2
<1>4. /\ Breaks(Sextets) \in Nat /\ Breaks(UpToFour(Sextets)) \in Nat
      /\ Breaks(Sextets) <= Breaks(UpToFour(Sextets))
  BY <1>1, <1>3, BreaksGrow, Zenon
<1>5. FinalSize = UpToFour(Sextets) + Breaks(UpToFour(Sextets))
  BY <1>1, Zenon DEF FinalSize, Breaks
<1> QED BY <1>1, <1>2, <1>4, <1>5, Zenon

(* The padding completes the text.                                         *)
LEMMA Completes ==
  ASSUME GoodText, NEW s, LaidOut(s, Sextets), NEW t,
         t = IF arg.pad /\ Len(s) < FinalSize
             THEN s \o [k \in 1..FinalSize - Len(s) |-> Fill]
             ELSE s
  PROVE  Complete(t)
<1>1. PICK S \in Nat, B \in Nat, F \in Nat :
        S = Sextets /\ B = Breaks(Sextets) /\ F = FinalSize
  <2>1. FinalSize \in Nat
    BY Sizes
  <2> QED BY <2>1, Sizes, Zenon
<1>2. /\ s \in Seq(0..65) /\ Len(s) = S + B /\ Count(s) = S
      /\ \A n \in 1..S + B : s[n] = LF <=> arg.nl /\ n % (LineLen + 1) = 0
      /\ \A k \in 1..S : s[k + Breaks(k - 1)] = Sextet(k)
  BY <1>1, Zenon DEF LaidOut
<1>3. S + B <= F /\ F = UpToFour(Sextets) + Breaks(UpToFour(Sextets))
  <2>1. Sextets + Breaks(Sextets) <= FinalSize
    BY Sizes
  <2> QED BY <1>1, <2>1, Sizes, Zenon
<1>4. \A k \in 1..S : k + Breaks(k - 1) \in 1..S + B
  <2>1. ASSUME NEW k \in 1..S
        PROVE  k + Breaks(k - 1) \in 1..S + B
    <3>1. k - 1 \in 0..S /\ k - 1 \in Nat
      OBVIOUS
    <3>2. Breaks(k - 1) <= B /\ Breaks(k - 1) \in Nat
      BY <1>1, <3>1, BreaksGrow, Zenon
    <3> QED BY <3>2
  <2> QED BY <2>1
<1>5. ASSUME NEW p \in Nat, t = s \o [k \in 1..p |-> Fill],
             S + B + p = IF arg.pad THEN F ELSE S + B
      PROVE  Complete(t)
  <2>1. /\ t \in Seq(0..65) /\ Len(t) = S + B + p
        /\ \A n \in 1..S + B : t[n] = s[n]
        /\ \A n \in S + B + 1..S + B + p : t[n] = Fill
        /\ Count(t) = S + p
    <3>1. /\ t \in Seq(0..65) /\ Len(t) = Len(s) + p
          /\ \A n \in 1..Len(s) : t[n] = s[n]
          /\ \A n \in Len(s) + 1..Len(s) + p : t[n] = Fill
          /\ Count(t) = Count(s) + p
      <4>1. \A y : y = s \o [k \in 1..p |-> Fill] =>
              /\ y \in Seq(0..65) /\ Len(y) = Len(s) + p
              /\ \A n \in 1..Len(s) : y[n] = s[n]
              /\ \A n \in Len(s) + 1..Len(s) + p : y[n] = Fill
              /\ Count(y) = Count(s) + p
        BY <1>2, Padded
      <4> QED BY <1>5, <4>1, Zenon
    <3> QED BY <1>2, <3>1, Zenon
  <2>2. S + B <= Len(t) /\ Count(t) = Len(t) - B
    <3>1. S + B <= S + B + p /\ S + p = (S + B + p) - B
      OBVIOUS
    <3> QED BY <2>1, <3>1, Zenon
  <2>3. \A n \in 1..S + B : t[n] = LF <=> arg.nl /\ n % (LineLen + 1) = 0
    BY <1>2, <2>1, Zenon
  <2>4. \A k \in 1..S : t[k + Breaks(k - 1)] = Sextet(k)
    BY <1>2, <1>4, <2>1, Zenon
  <2>5. Len(t) = IF arg.pad THEN F ELSE S + B
    BY <1>5, <2>1, Zenon
  <2> QED BY <1>1, <1>3, <2>1, <2>2, <2>3, <2>4, <2>5, Zenon DEF Complete
<1>6. CASE arg.pad /\ Len(s) < FinalSize
  <2>1. F - (S + B) \in Nat /\ S + B + (F - (S + B)) = F
    BY <1>3
  <2>2. t = s \o [k \in 1..F - (S + B) |-> Fill]
    BY <1>1, <1>2, <1>6, Zenon
  <2> QED BY <1>5, <1>6, <2>1, <2>2, Zenon
<1>7. CASE ~(arg.pad /\ Len(s) < FinalSize)
  <2>1. t = s
    BY <1>7, Zenon
  <2>2. /\ S + B <= S + B /\ S + B - B = S
        /\ \A n \in S + B + 1..S + B : FALSE
    OBVIOUS
  <2>3. arg.pad => S + B = F
    <3>1. arg.pad => ~(S + B < F)
      BY <1>1, <1>2, <1>7, Zenon
    <3> QED BY <1>3, <3>1
  <2>4. S + B = IF arg.pad THEN F ELSE S + B
    BY <2>3, Zenon
  <2>5. /\ S + B <= Len(t) /\ Count(t) = Len(t) - B
        /\ Len(t) = IF arg.pad THEN F ELSE S + B
    <3>1. Len(t) = S + B /\ Count(t) = S
      BY <1>2, <2>1, Zenon
    <3>2. S + B <= Len(t)
      BY <3>1, <2>2, Zenon
    <3>3. Count(t) = Len(t) - B
      <4>1. \A x : x = S + B => x - B = S
        OBVIOUS
      <4>2. Len(t) - B = S
        BY <3>1, <4>1, Zenon
      <4> QED BY <3>1, <4>2, Zenon
    <3>4. Len(t) = IF arg.pad THEN F ELSE S + B
      BY <3>1, <2>4, Zenon
    <3> QED BY <3>2, <3>3, <3>4, Zenon
  <2>6. \A n \in S + B + 1..Len(t) : t[n] = Fill
    BY <1>2, <2>1, <2>2, Zenon
  <2>7. /\ t \in Seq(0..65)
        /\ \A n \in 1..S + B : t[n] = LF <=> arg.nl /\ n % (LineLen + 1) = 0
        /\ \A k \in 1..S : t[k + Breaks(k - 1)] = Sextet(k)
    BY <1>2, <2>1, Zenon
  <2> QED BY <1>1, <1>3, <2>5, <2>6, <2>7, Zenon DEF Complete
<1> QED BY <1>6, <1>7, Zenon

(* RfcText has the sextets where the rounds wrote them.                    *)
LEMMA PositionOfSextet ==
  ASSUME NEW k, k <= Sextets
  PROVE  Position(k) = k + Breaks(k - 1)
  BY Zenon DEF Position, Breaks

(* RfcText of a text with m of its sextets laid out. *)
LEMMA LaidOutIsRfc ==
  ASSUME GoodText, pc = "encode", LaidOut(text, i)
  PROVE  RfcText
<1>1. /\ i \in Nat /\ i <= Sextets /\ Len(text) = i + Breaks(i) /\ Count(text) = i
      /\ \A n \in 1..Len(text) : text[n] = LF <=> arg.nl /\ n % (LineLen + 1) = 0
      /\ \A k \in 1..i : text[k + Breaks(k - 1)] = Sextet(k)
  BY Zenon DEF LaidOut
<1>2. Sextets \in Nat /\ Breaks(i) \in Nat /\ Breaks(Sextets) \in Nat
  BY <1>1, Sizes, BreaksGrow, Zenon
<1>3. Breaks(i) <= Breaks(Sextets)
  <2>1. i \in 0..Sextets
    BY <1>1, <1>2
  <2> QED BY <1>2, <2>1, BreaksGrow, Zenon
<1>4. ASSUME NEW n \in 1..Len(text)
      PROVE  text[n] = LF <=> /\ arg.nl /\ n % (LineLen + 1) = 0
                              /\ n <= Sextets + Sextets \div LineLen
  <2>1. n <= Sextets + Breaks(Sextets)
    BY <1>1, <1>2, <1>3
  <2>2. arg.nl => n <= Sextets + Sextets \div LineLen
    BY <1>2, <2>1, BreaksGrow, Zenon
  <2> QED BY <1>1, <2>2, Zenon
<1>5. Symbols = i
  BY <1>1, Zenon DEF Symbols, Count
<1>6. ASSUME NEW k \in 1..i
      PROVE  text[Position(k)] = IF k <= Sextets THEN Sextet(k) ELSE Fill
  <2>1. k <= Sextets
    BY <1>1, <1>2
  <2>2. Position(k) = k + Breaks(k - 1)
    BY <2>1, PositionOfSextet, Zenon
  <2> QED BY <1>1, <2>1, <2>2, Zenon
<1> QED BY <1>4, <1>5, <1>6, Zenon DEF RfcText

(* RfcText of a text that is complete.                                     *)
LEMMA CompleteIsRfc ==
  ASSUME GoodText, pc # "encode", Complete(text)
  PROVE  RfcText
<1>1. PICK S \in Nat, B \in Nat : S = Sextets /\ B = Breaks(Sextets)
  BY Sizes, Zenon
<1>2. /\ text \in Seq(0..65) /\ S + B <= Len(text) /\ Count(text) = Len(text) - B
      /\ \A n \in 1..S + B : text[n] = LF <=> arg.nl /\ n % (LineLen + 1) = 0
      /\ \A k \in 1..S : text[k + Breaks(k - 1)] = Sextet(k)
      /\ \A n \in S + B + 1..Len(text) : text[n] = Fill
      /\ Len(text) = IF arg.pad THEN UpToFour(S) + Breaks(UpToFour(S)) ELSE S + B
  BY <1>1, Zenon DEF Complete
<1>3. PICK l \in Nat : l = Len(text)
  BY <1>2, LenProperties, Zenon
<1>4. arg.nl => B = S \div LineLen
  BY <1>1, BreaksGrow, Zenon
<1>5. ASSUME NEW n \in 1..Len(text)
      PROVE  text[n] = LF <=> /\ arg.nl /\ n % (LineLen + 1) = 0
                              /\ n <= S + S \div LineLen
  <2>1. CASE n \in 1..S + B
    <3>1. n <= S + B
      BY <2>1
    <3>2. arg.nl => n <= S + S \div LineLen
      BY <1>4, <3>1, Zenon
    <3> QED BY <1>2, <2>1, <3>2, Zenon
  <2>2. CASE n \in S + B + 1..Len(text)
    <3>1. text[n] # LF
      BY <1>2, <2>2 DEF LF, Fill
    <3>2. ~(n <= S + B)
      BY <1>1, <2>2
    <3>3. arg.nl => ~(n <= S + S \div LineLen)
      BY <1>4, <3>2, Zenon
    <3> QED BY <3>1, <3>3, Zenon
  <2>3. n \in 1..S + B \/ n \in S + B + 1..Len(text)
    BY <1>3
  <2> QED BY <2>1, <2>2, <2>3, Zenon
<1>6. Symbols = Count(text)
  BY Zenon DEF Symbols, Count
<1>7. ASSUME NEW k \in 1..Symbols
      PROVE  text[Position(k)] = IF k <= S THEN Sextet(k) ELSE Fill
  <2>1. k \in 1..l - B /\ S + B <= l
    BY <1>2, <1>3, <1>6, Zenon
  <2>2. CASE k <= S
    <3>1. k \in 1..S
      BY <2>1, <2>2
    <3>2. Position(k) = k + Breaks(k - 1)
      BY <1>1, <2>2, PositionOfSextet, Zenon
    <3> QED BY <1>2, <2>2, <3>1, <3>2, Zenon
  <2>3. CASE ~(k <= S)
    <3>1. Position(k) = k + B
      BY <1>1, <2>3, Zenon DEF Position, Breaks
    <3>2. k + B \in S + B + 1..l
      BY <2>1, <2>3
    <3> QED BY <1>2, <1>3, <2>3, <3>1, <3>2, Zenon
  <2> QED BY <2>2, <2>3, Zenon
<1>8. IF ~arg.pad THEN Symbols = S ELSE ~PaddingFillsLine => Symbols = UpToFour(S)
  <2>1. CASE ~arg.pad
    <3>1. (S + B) - B = S
      OBVIOUS
    <3> QED BY <1>2, <1>6, <2>1, <3>1, Zenon
  <2>2. CASE arg.pad
    <3>1. PICK U \in Nat, C \in Nat : U = UpToFour(S) /\ C = Breaks(UpToFour(S))
      BY <1>1, Sizes, Zenon
    <3>2. Symbols = (U + C) - B
      BY <1>2, <1>6, <2>2, <3>1, Zenon
    <3>3. CASE arg.nl /\ ~PaddingFillsLine
      <4>1. C = U \div LineLen /\ B = S \div LineLen
        BY <1>4, <3>1, <3>3, BreaksGrow, Zenon
      <4>2. S <= U /\ U <= S + 3
        BY <1>1, <3>1, Sizes, Zenon
      <4>3. C = B \/ C = B + 1
        BY <4>1, <4>2, OneLineMore
      <4>4. ~(C > B)
        BY <1>1, <3>1, <3>3, <4>1, Zenon DEF PaddingFillsLine
      <4>5. (U + C) - B = U
        BY <4>3, <4>4
      <4> QED BY <2>2, <3>1, <3>2, <4>5, Zenon
    <3>4. CASE ~arg.nl
      <4>1. C = 0 /\ B = 0
        BY <1>1, <3>1, <3>4, Zenon DEF Breaks
      <4>2. (U + C) - B = U
        BY <4>1
      <4> QED BY <2>2, <3>1, <3>2, <4>2, Zenon
    <3>5. CASE PaddingFillsLine
      BY <2>2, <3>5, Zenon
    <3> QED BY <3>3, <3>4, <3>5, Zenon
  <2> QED BY <2>1, <2>2, Zenon
<1> QED BY <1>1, <1>5, <1>7, <1>8, Zenon DEF RfcText

(* What the calls may be refused for. *)
Refusable ==
  \/ arg.nl /\ Sextets >= LineLen
  \/ arg.strict /\ Symbols % 4 # 0

(* The first m characters of the text are read into s, and the bits of the *)
(* last that are not yet in s are kept in b.                               *)
ReadBack(m, s, b) ==
  /\ m \in Nat /\ m <= Sextets /\ (arg.nl => m <= LineLen)
  /\ s \in Seq(0..255) /\ Len(s) = (6 * m) \div 8
  /\ \A n \in 1..Len(s) : s[n] = ByteAt(n - 1)
  /\ m % 4 = 1 => b = Sextet(m)
  /\ m % 4 = 2 => b = Sextet(m) % 16
  /\ m % 4 = 3 => b = Sextet(m) % 4

TextInv ==
  OfText =>
    /\ GoodText
    /\ pc = "encode" => LaidOut(text, i) /\ it = (6 * i) \div 8 + 1 /\ out = <<>>
    /\ pc # "encode" => Complete(text)
    /\ pc = "check" => it = 1 /\ i = 0 /\ out = <<>>
    /\ pc \in {"decode", "done"} =>
         /\ ReadBack(i, out, prev_byte) /\ it = i + 1
         /\ ~(arg.strict /\ Symbols % 4 # 0)
    /\ pc = "done" => i = Sextets /\ ~(arg.nl /\ Sextets >= LineLen)
    /\ pc = "refused" => Refusable

(* What is computed from the arguments changes only with them.             *)
LEMMA SameArguments ==
  ASSUME arg' = arg
  PROVE  /\ GoodText' <=> GoodText
         /\ Sextets' = Sextets
         /\ \A k : Sextet(k)' = Sextet(k)
         /\ \A k : Breaks(k)' = Breaks(k)
         /\ \A k : ByteAt(k)' = ByteAt(k)
<1>1. (GoodText' <=> GoodText) /\ Sextets' = Sextets
  BY Zenon DEF GoodText, Sextets
<1>2. ASSUME NEW k
      PROVE  Bit(k)' = Bit(k) /\ Breaks(k)' = Breaks(k) /\ ByteAt(k)' = ByteAt(k)
  BY Zenon DEF Bit, Breaks, ByteAt
<1>3. ASSUME NEW k
      PROVE  Sextet(k)' = Sextet(k)
  BY SMT DEF Sextet, Bit
<1> QED BY <1>1, <1>2, <1>3, Zenon

(* An empty text.                                                          *)
LEMMA InitialText ==
  ASSUME InitText, it = 1, i = 0, text = <<>>, prev_byte = 0, out = <<>>
  PROVE  TextInv
<1>1. GoodText /\ pc = "encode"
  BY ByteOpAssumption DEF InitText, GoodText
<1>2. (6 * i) \div 8 + 1 = 1 /\ 0 + 0 = 0 /\ 0 \in Nat /\ 0 <= Sextets /\ 0 \div LineLen = 0
  BY <1>1, Sizes, Line
<1>3. Breaks(0) = 0
  BY <1>2, Zenon DEF Breaks
<1>4. text \in Seq(0..65) /\ Len(text) = 0 /\ \A n \in 1..Len(text) : FALSE
  OBVIOUS
<1>5. Count(text) = 0
  <2>1. {n \in 1..Len(text) : text[n] # LF} = {}
    BY <1>4
  <2> QED BY <2>1, FS_EmptySet, Zenon DEF Count
<1>6. \A k \in 1..0 : FALSE
  OBVIOUS
<1>7. LaidOut(text, 0)
  BY <1>2, <1>3, <1>4, <1>5, <1>6, Zenon DEF LaidOut
<1> QED BY <1>1, <1>2, <1>7 DEF TextInv

(* A round writes the sextet that is due, behind those before it.          *)
LEMMA EncodeRoundKeeps ==
  ASSUME TextInv, EncodeRound
  PROVE  TextInv'
<1>1. /\ pc = "encode" /\ it <= Len(arg.data)
      /\ arg' = arg /\ pc' = "encode" /\ out' = out /\ i' = i + 1
      /\ it' = IF i % 4 = 0 THEN it ELSE it + 1
  BY DEF EncodeRound
<1>2. GoodText /\ LaidOut(text, i) /\ it = (6 * i) \div 8 + 1 /\ out = <<>> /\ i \in Nat
  BY <1>1, Zenon DEF TextInv, OfText, LaidOut
<1>3. PICK m \in Nat : m = (6 * i) \div 8
  BY <1>2
<1>4. it = m + 1 /\ m < Len(arg.data) /\ it + 1 = m + 2
  <2>1. Len(arg.data) \in Nat
    BY <1>2, Counts, Zenon DEF GoodText
  <2> QED BY <1>1, <1>2, <1>3, <2>1
<1>5. i < Sextets
  BY <1>2, <1>3, <1>4, Counts, Zenon DEF GoodText
<1>6. /\ Lookup(i, arg.data[m + 1],
                IF m + 1 < Len(arg.data) THEN arg.data[m + 2] ELSE 0) = Sextet(i + 1)
      /\ (6 * (i + 1)) \div 8 = IF i % 4 = 0 THEN m ELSE m + 1
  BY <1>2, <1>3, <1>4, RoundWrites, Zenon DEF GoodText
<1>7. text' = Append(text, Sextet(i + 1))
                \o (IF arg.nl /\ (i + 1) % LineLen = 0 THEN <<LF>> ELSE <<>>)
  BY <1>4, <1>6, Zenon DEF EncodeRound
<1>8. LaidOut(text', i + 1)
  BY <1>2, <1>5, <1>7, LaysOut, Zenon
<1>9. it' = (6 * i') \div 8 + 1
  BY <1>1, <1>4, <1>6, Zenon
<1>10. LaidOut(text, i)' /\ GoodText'
  BY <1>1, <1>2, <1>8, SameArguments, Zenon DEF LaidOut, Count
<1> QED BY <1>1, <1>2, <1>9, <1>10 DEF TextInv

(* The loop is over when all sextets are written, and not earlier.         *)
LEMMA EncodeEndKeeps ==
  ASSUME TextInv, EncodeEnd
  PROVE  TextInv'
<1>1. /\ pc = "encode" /\ it > Len(arg.data)
      /\ arg' = arg /\ pc' = "check" /\ out' = out /\ it' = 1 /\ i' = 0
      /\ text' = IF arg.pad /\ Len(text) < FinalSize
                 THEN text \o [k \in 1..FinalSize - Len(text) |-> Fill]
                 ELSE text
  BY DEF EncodeEnd
<1>2. GoodText /\ LaidOut(text, i) /\ it = (6 * i) \div 8 + 1 /\ out = <<>> /\ i \in Nat
      /\ i <= Sextets
  BY <1>1, Zenon DEF TextInv, OfText, LaidOut
<1>3. i = Sextets
  <2>1. Len(arg.data) \in Nat /\ Sextets \in Nat
    BY <1>2, Counts, Zenon DEF GoodText
  <2>2. ~((6 * i) \div 8 < Len(arg.data))
    BY <1>1, <1>2, <2>1
  <2>3. ~(i < Sextets)
    BY <1>2, <2>2, Counts, Zenon DEF GoodText
  <2> QED BY <1>2, <2>1, <2>3
<1>4. Complete(text')
  BY <1>1, <1>2, <1>3, Completes, Zenon
<1>5. Complete(text)'
  BY <1>1, <1>4, SameArguments, Zenon DEF Complete, Count, UpToFour
<1>6. GoodText'
  BY <1>1, <1>2, SameArguments, Zenon
<1> QED BY <1>1, <1>2, <1>5, <1>6 DEF TextInv

(* The rounds go round.                                                    *)
LEMMA NextRound ==
  ASSUME NEW n \in Nat
  PROVE  /\ n % 4 = 0 => (n + 1) % 4 = 1
         /\ n % 4 = 1 => (n + 1) % 4 = 2
         /\ n % 4 = 2 => (n + 1) % 4 = 3
         /\ n % 4 = 3 => (n + 1) % 4 = 0
  OBVIOUS

(* A round reads one character more. *)
LEMMA ReadsOn ==
  ASSUME GoodText, NEW m, NEW s, NEW b, ReadBack(m, s, b),
         m < Sextets, ~(arg.nl /\ m = LineLen),
         NEW c, c = Sextet(m + 1),
         NEW u, u = CASE m % 4 = 0 -> s
                      [] m % 4 = 1 -> Append(s, b * 4 + c \div 16)
                      [] m % 4 = 2 -> Append(s, b * 16 + c \div 4)
                      [] m % 4 = 3 -> Append(s, b * 64 + c),
         NEW d, d = CASE m % 4 = 0 -> c
                      [] m % 4 = 1 -> c % 16
                      [] m % 4 = 2 -> c % 4
                      [] m % 4 = 3 -> b
  PROVE  ReadBack(m + 1, u, d)
<1>1. /\ m \in Nat /\ m + 1 \in Nat /\ m + 1 <= Sextets /\ m + 1 - 1 = m
      /\ arg.nl => m + 1 <= LineLen
  <2>1. m \in Nat /\ Sextets \in Nat /\ LineLen \in Nat
    BY Line, Sizes, Zenon DEF ReadBack
  <2>2. arg.nl => m <= LineLen /\ m # LineLen
    BY Zenon DEF ReadBack
  <2>3. arg.nl => m + 1 <= LineLen
    BY <2>1, <2>2
  <2>4. m + 1 \in Nat /\ m + 1 <= Sextets /\ m + 1 - 1 = m
    BY <2>1
  <2> QED BY <2>1, <2>3, <2>4, Zenon
<1>2. PICK p \in Nat : p = (6 * m) \div 8
  BY <1>1
<1>3. s \in Seq(0..255) /\ Len(s) = p /\ \A n \in 1..p : s[n] = ByteAt(n - 1)
  BY <1>2, Zenon DEF ReadBack
<1>4. ByteAt(p) \in 0..255
  BY BytesAreBytes, Zenon DEF GoodText
<1>5. ASSUME NEW y, y = Append(s, ByteAt(p))
      PROVE  /\ y \in Seq(0..255) /\ Len(y) = p + 1
             /\ \A n \in 1..Len(y) : y[n] = ByteAt(n - 1)
  <2>1. /\ y \in Seq(0..255) /\ Len(y) = p + 1 /\ y[p + 1] = ByteAt(p)
        /\ \A n \in 1..p : y[n] = s[n]
    <3>1. PICK x \in 0..255 : x = ByteAt(p)
      BY <1>4, Zenon
    <3>2. /\ Append(s, x) \in Seq(0..255) /\ Len(Append(s, x)) = p + 1
          /\ Append(s, x)[p + 1] = x
          /\ \A n \in 1..p : Append(s, x)[n] = s[n]
      BY <1>3, AppendProperties
    <3>3. y = Append(s, x)
      BY <1>5, <3>1, Zenon
    <3>4. y \in Seq(0..255) /\ Len(y) = p + 1 /\ y[p + 1] = ByteAt(p)
      BY <3>1, <3>2, <3>3, Zenon
    <3>5. ASSUME NEW n \in 1..p
          PROVE  y[n] = s[n]
      BY <3>2, <3>3, Zenon
    <3> QED BY <3>4, <3>5, Zenon
  <2>2. \A n \in 1..p + 1 : n \in 1..p \/ n = p + 1
    OBVIOUS
  <2>3. \A n \in 1..p + 1 : y[n] = ByteAt(n - 1)
    <3>1. ASSUME NEW n \in 1..p
          PROVE  y[n] = ByteAt(n - 1)
      BY <1>3, <2>1, Zenon
    <3>2. ASSUME NEW n, n = p + 1
          PROVE  y[n] = ByteAt(n - 1)
      <4>1. n - 1 = p
        BY <3>2
      <4> QED BY <2>1, <3>2, <4>1, Zenon
    <3> QED BY <2>2, <3>1, <3>2, Zenon
  <2> QED BY <2>1, <2>3, Zenon
<1>6. /\ m % 4 = 0 => (6 * (m + 1)) \div 8 = p
      /\ m % 4 = 1 => /\ (6 * (m + 1)) \div 8 = p + 1
                      /\ Sextet(m) * 4 + (Sextet(m + 1) \div 16) = ByteAt(p)
      /\ m % 4 = 2 => /\ (6 * (m + 1)) \div 8 = p + 1
                      /\ (Sextet(m) % 16) * 16 + (Sextet(m + 1) \div 4) = ByteAt(p)
      /\ m % 4 = 3 => /\ (6 * (m + 1)) \div 8 = p + 1
                      /\ (Sextet(m) % 4) * 64 + Sextet(m + 1) = ByteAt(p)
  BY <1>1, <1>2, RoundReads, Zenon DEF GoodText
<1>7. ASSUME NEW r, NEW w, NEW x, NEW y, NEW z, NEW e,
              e = CASE r = 0 -> w [] r = 1 -> x [] r = 2 -> y [] r = 3 -> z
       PROVE  (r = 0 => e = w) /\ (r = 1 => e = x) /\ (r = 2 => e = y) /\ (r = 3 => e = z)
  BY <1>7
<1>8. CASE m % 4 = 0
  <2>1. u = s /\ d = c /\ (m + 1) % 4 = 1
    <3>1. (m + 1) % 4 = 1
      BY <1>1, <1>8, NextRound, Zenon
    <3> QED BY <1>8, <1>7, <3>1
  <2>2. (m + 1) % 4 # 2 /\ (m + 1) % 4 # 3
    BY <2>1
  <2> QED BY <1>1, <1>3, <1>6, <1>8, <2>1, <2>2, Zenon DEF ReadBack
<1>9. CASE m % 4 = 1
  <2>1. u = Append(s, b * 4 + c \div 16) /\ d = c % 16 /\ (m + 1) % 4 = 2
    <3>1. (m + 1) % 4 = 2
      BY <1>1, <1>9, NextRound, Zenon
    <3> QED BY <1>9, <1>7, <3>1
  <2>2. (m + 1) % 4 # 1 /\ (m + 1) % 4 # 3
    BY <2>1
  <2>3. u = Append(s, ByteAt(p))
    BY <1>6, <1>9, <2>1, Zenon DEF ReadBack
  <2> QED BY <1>1, <1>5, <1>6, <1>9, <2>1, <2>2, <2>3, Zenon DEF ReadBack
<1>10. CASE m % 4 = 2
  <2>1. u = Append(s, b * 16 + c \div 4) /\ d = c % 4 /\ (m + 1) % 4 = 3
    <3>1. (m + 1) % 4 = 3
      BY <1>1, <1>10, NextRound, Zenon
    <3> QED BY <1>10, <1>7, <3>1
  <2>2. (m + 1) % 4 # 1 /\ (m + 1) % 4 # 2
    BY <2>1
  <2>3. u = Append(s, ByteAt(p))
    BY <1>6, <1>10, <2>1, Zenon DEF ReadBack
  <2> QED BY <1>1, <1>5, <1>6, <1>10, <2>1, <2>2, <2>3, Zenon DEF ReadBack
<1>11. CASE m % 4 = 3
  <2>1. u = Append(s, b * 64 + c) /\ (m + 1) % 4 = 0
    <3>1. (m + 1) % 4 = 0
      BY <1>1, <1>11, NextRound, Zenon
    <3> QED BY <1>11, <1>7, <3>1
  <2>2. (m + 1) % 4 # 1 /\ (m + 1) % 4 # 2 /\ (m + 1) % 4 # 3
    BY <2>1
  <2>3. u = Append(s, ByteAt(p))
    BY <1>6, <1>11, <2>1, Zenon DEF ReadBack
  <2> QED BY <1>1, <1>5, <1>6, <1>11, <2>2, <2>3, Zenon DEF ReadBack
<1>12. m % 4 \in 0..3
  BY <1>1
<1>13. m % 4 = 0 \/ m % 4 = 1 \/ m % 4 = 2 \/ m % 4 = 3
  BY <1>12
<1> QED BY <1>8, <1>9, <1>10, <1>11, <1>13, Zenon

(* The character behind m sextets, when no line feed is among those. *)
LEMMA NextCharacter ==
  ASSUME GoodText, Complete(text), NEW m \in Nat, m <= Sextets,
         arg.nl => m <= LineLen
  PROVE  /\ arg.nl /\ m = LineLen => /\ m + 1 <= Len(text) /\ text[m + 1] = LF
                                     /\ Sextets >= LineLen
         /\ ~(arg.nl /\ m = LineLen) /\ m < Sextets =>
              /\ m + 1 <= Len(text) /\ text[m + 1] = Sextet(m + 1)
              /\ text[m + 1] # LF /\ text[m + 1] # Fill
         /\ ~(arg.nl /\ m = LineLen) /\ m = Sextets =>
              (m + 1 <= Len(text) => text[m + 1] = Fill)
<1>1. PICK S \in Nat, B \in Nat, l \in Nat :
        S = Sextets /\ B = Breaks(Sextets) /\ l = Len(text)
  <2>1. Len(text) \in Nat
    BY LenProperties DEF Complete
  <2> QED BY <2>1, Sizes, Zenon
<1>2. /\ S + B <= l
      /\ \A n \in 1..S + B : text[n] = LF <=> arg.nl /\ n % (LineLen + 1) = 0
      /\ \A k \in 1..S : text[k + Breaks(k - 1)] = Sextet(k)
      /\ \A n \in S + B + 1..l : text[n] = Fill
  BY <1>1, Zenon DEF Complete
<1>3. CASE arg.nl /\ m = LineLen
  <2>1. LineLen <= S
    BY <1>1, <1>3, Zenon
  <2>2. B = S \div LineLen
    BY <1>1, <1>3, BreaksGrow, Zenon
  <2>3. LineLen \div LineLen = 1
    BY Line
  <2>4. LineLen \div LineLen <= S \div LineLen
    BY Line, <2>1, DivMonotone, Zenon
  <2>5. 1 <= B
    BY <2>2, <2>3, <2>4, Zenon
  <2>6. m + 1 \in 1..S + B /\ m + 1 <= l
    BY <1>2, <1>3, <2>1, <2>5, Line
  <2>7. (m + 1) % (LineLen + 1) = 0
    BY <1>3, Line
  <2>8. S >= LineLen
    BY <2>1, Line
  <2> QED BY <1>1, <1>2, <1>3, <2>6, <2>7, <2>8, Zenon
<1>4. CASE ~(arg.nl /\ m = LineLen)
  <2>1. Breaks(m) = 0
    <3>1. CASE arg.nl
      <4>1. m < LineLen
        BY <1>4, <3>1, Line
      <4>2. m \div LineLen = 0
        BY <4>1, Line
      <4> QED BY <3>1, <4>2, Zenon DEF Breaks
    <3>2. CASE ~arg.nl
      BY <3>2, Zenon DEF Breaks
    <3> QED BY <3>1, <3>2
  <2>2. CASE m < S
    <3>1. m + 1 \in 1..S /\ m + 1 - 1 = m /\ m + 1 + 0 = m + 1 /\ m + 1 <= l
      BY <1>2, <2>2
    <3>2. text[m + 1 + 0] = Sextet(m + 1)
      <4>1. PICK k \in 1..S : k = m + 1 /\ k - 1 = m
        BY <3>1
      <4>2. text[k + Breaks(k - 1)] = Sextet(k)
        BY <1>2, Zenon
      <4> QED BY <2>1, <4>1, <4>2, Zenon
    <3>3. Sextet(m + 1) \in 0..63
      BY SextetIsDigit, Zenon DEF GoodText
    <3>4. \A x \in 0..63 : x # LF /\ x # Fill
      BY DEF LF, Fill
    <3>5. m # S
      BY <2>2
    <3> QED BY <1>1, <1>4, <3>1, <3>2, <3>3, <3>4, <3>5, Zenon
  <2>3. CASE m = S
    <3>1. B = 0 /\ ~(m < S)
      <4>1. B = 0
        BY <1>1, <2>1, <2>3, Zenon
      <4> QED BY <2>3, <4>1
    <3>2. m + 1 <= l => m + 1 \in S + B + 1..l
      BY <2>3, <3>1
    <3> QED BY <1>1, <1>2, <1>4, <2>3, <3>1, <3>2, Zenon
  <2>4. m < S \/ m = S
    BY <1>1
  <2> QED BY <2>2, <2>3, <2>4, Zenon
<1> QED BY <1>3, <1>4, Zenon

(* Nothing is read yet.                                                    *)
LEMMA DecodeStartKeeps ==
  ASSUME TextInv, DecodeStart
  PROVE  TextInv'
<1>1. /\ pc = "check" /\ arg' = arg /\ out' = out /\ it' = it /\ i' = i
      /\ text' = text /\ prev_byte' = prev_byte
      /\ pc' = IF arg.strict /\ Symbols % 4 # 0 THEN "refused" ELSE "decode"
  BY DEF DecodeStart, loop
<1>2. GoodText /\ Complete(text) /\ it = 1 /\ i = 0 /\ out = <<>>
  BY <1>1 DEF TextInv, OfText
<1>3. /\ GoodText' /\ Complete(text)' /\ Symbols' = Symbols
      /\ (Refusable' <=> Refusable)
  BY <1>1, <1>2, SameArguments, Zenon
     DEF Complete, Count, UpToFour, Symbols, Refusable
<1>4. CASE arg.strict /\ Symbols % 4 # 0
  <2>1. Refusable' /\ pc' = "refused"
    BY <1>1, <1>3, <1>4, Zenon DEF Refusable
  <2> QED BY <1>3, <2>1 DEF TextInv
<1>5. CASE ~(arg.strict /\ Symbols % 4 # 0)
  <2>1. pc' = "decode"
    BY <1>1, <1>5, Zenon
  <2>2. ReadBack(i', out', prev_byte')
    <3>1. /\ 0 \in Nat /\ 0 <= Sextets /\ 0 <= LineLen /\ (6 * 0) \div 8 = 0
          /\ 0 % 4 # 1 /\ 0 % 4 # 2 /\ 0 % 4 # 3
      BY <1>2, Sizes, Line
    <3>2. <<>> \in Seq(0..255) /\ Len(<<>>) = 0 /\ \A n \in 1..0 : FALSE
      OBVIOUS
    <3> QED BY <1>1, <1>2, <3>1, <3>2, Zenon DEF ReadBack
  <2>3. ReadBack(i, out, prev_byte)'
    BY <1>1, <2>2, SameArguments, Zenon DEF ReadBack
  <2>4. it' = i' + 1 /\ ~(arg'.strict /\ Symbols' % 4 # 0)
    <3>1. it' = i' + 1
      BY <1>1, <1>2
    <3> QED BY <1>1, <1>3, <1>5, <3>1, Zenon
  <2> QED BY <1>3, <2>1, <2>3, <2>4 DEF TextInv
<1> QED BY <1>4, <1>5, Zenon

(* A round reads the sextet that is due, or finds a line feed.             *)
LEMMA DecodeRoundKeeps ==
  ASSUME TextInv, DecodeRound
  PROVE  TextInv'
<1>1. /\ pc = "decode" /\ it <= Len(text) /\ text[it] # Fill
      /\ arg' = arg /\ text' = text
  BY Zenon DEF DecodeRound, Refuse, loop
<1>2. /\ GoodText /\ Complete(text) /\ ReadBack(i, out, prev_byte) /\ it = i + 1
      /\ ~(arg.strict /\ Symbols % 4 # 0)
  BY <1>1 DEF TextInv, OfText
<1>3. /\ GoodText' /\ Complete(text)' /\ Symbols' = Symbols
      /\ (Refusable' <=> Refusable)
  BY <1>1, <1>2, SameArguments, Zenon
     DEF Complete, Count, UpToFour, Symbols, Refusable
<1>4. i \in Nat /\ i <= Sextets /\ (arg.nl => i <= LineLen)
  BY <1>2, Zenon DEF ReadBack
<1>5. /\ arg.nl /\ i = LineLen => text[i + 1] = LF /\ Sextets >= LineLen
      /\ ~(arg.nl /\ i = LineLen) /\ i < Sextets =>
           text[i + 1] = Sextet(i + 1) /\ text[i + 1] # LF
      /\ ~(arg.nl /\ i = LineLen) => i # Sextets
  BY <1>1, <1>2, <1>4, NextCharacter, Zenon
<1>6. i < Sextets \/ i = Sextets
  <2>1. Sextets \in Nat
    BY <1>2, Sizes, Zenon
  <2> QED BY <1>4, <2>1
<1>7. CASE text[it] = LF
  <2>1. pc' = "refused"
    BY <1>7, Zenon DEF DecodeRound, Refuse
  <2>2. Refusable
    BY <1>2, <1>5, <1>6, <1>7, Zenon DEF Refusable
  <2> QED BY <1>3, <2>1, <2>2 DEF TextInv
<1>8. CASE text[it] # LF
  <2>1. i < Sextets /\ ~(arg.nl /\ i = LineLen) /\ text[it] = Sextet(i + 1)
    BY <1>2, <1>5, <1>6, <1>8, Zenon
  <2>2. /\ out' = CASE i % 4 = 0 -> out
                    [] i % 4 = 1 -> Append(out, prev_byte * 4 + text[it] \div 16)
                    [] i % 4 = 2 -> Append(out, prev_byte * 16 + text[it] \div 4)
                    [] i % 4 = 3 -> Append(out, prev_byte * 64 + text[it])
        /\ prev_byte' = CASE i % 4 = 0 -> text[it]
                          [] i % 4 = 1 -> text[it] % 16
                          [] i % 4 = 2 -> text[it] % 4
                          [] i % 4 = 3 -> prev_byte
        /\ it' = it + 1 /\ i' = i + 1 /\ pc' = pc
    BY <1>8, Zenon DEF DecodeRound
  <2>3. ReadBack(i + 1, out', prev_byte')
    BY <1>2, <2>1, <2>2, ReadsOn, Zenon
  <2>4. ReadBack(i, out, prev_byte)'
    BY <1>1, <2>2, <2>3, SameArguments, Zenon DEF ReadBack
  <2>5. it' = i' + 1 /\ ~(arg'.strict /\ Symbols' % 4 # 0) /\ pc' = "decode"
    BY <1>1, <1>2, <1>3, <2>2, Zenon
  <2> QED BY <1>3, <2>4, <2>5 DEF TextInv
<1> QED BY <1>7, <1>8

(* The loop is over when all sextets are read, and not earlier.            *)
LEMMA DecodeEndKeeps ==
  ASSUME TextInv, DecodeEnd
  PROVE  TextInv'
<1>1. /\ pc = "decode" /\ (it <= Len(text) => text[it] = Fill)
      /\ arg' = arg /\ text' = text /\ it' = it /\ i' = i
      /\ prev_byte' = prev_byte /\ out' = out /\ pc' = "done"
  BY Zenon DEF DecodeEnd, loop
<1>2. /\ GoodText /\ Complete(text) /\ ReadBack(i, out, prev_byte) /\ it = i + 1
      /\ ~(arg.strict /\ Symbols % 4 # 0)
  BY <1>1 DEF TextInv, OfText
<1>3. /\ GoodText' /\ Complete(text)' /\ Symbols' = Symbols /\ Sextets' = Sextets
      /\ (ReadBack(i, out, prev_byte)' <=> ReadBack(i, out, prev_byte))
  BY <1>1, <1>2, SameArguments, Zenon
     DEF Complete, Count, UpToFour, Symbols, ReadBack
<1>4. i \in Nat /\ i <= Sextets /\ (arg.nl => i <= LineLen)
  BY <1>2, Zenon DEF ReadBack
<1>5. /\ arg.nl /\ i = LineLen => i + 1 <= Len(text) /\ text[i + 1] = LF
      /\ ~(arg.nl /\ i = LineLen) /\ i < Sextets =>
           i + 1 <= Len(text) /\ text[i + 1] # Fill
  BY <1>2, <1>4, NextCharacter, Zenon
<1>6. ~(arg.nl /\ i = LineLen) /\ ~(i < Sextets)
  <2>1. LF # Fill
    BY DEF LF, Fill
  <2> QED BY <1>1, <1>2, <1>5, <2>1, Zenon
<1>7. i = Sextets
  <2>1. Sextets \in Nat
    BY <1>2, Sizes, Zenon
  <2> QED BY <1>4, <1>6, <2>1
<1>8. ~(arg.nl /\ Sextets >= LineLen)
  <2>1. arg.nl => i <= LineLen /\ i # LineLen
    BY <1>4, <1>6, Zenon
  <2> QED BY <1>4, <1>7, <2>1, Line
<1> QED BY <1>1, <1>2, <1>3, <1>7, <1>8 DEF TextInv

(* The conversions of a text keep the invariant; those of an integer and a *)
(* stuttering step do not touch it.                                        *)
LEMMA TextInvHolds == ByteSpec => []TextInv
<1>1. ASSUME ByteInit
      PROVE  TextInv
  <2>1. CASE InitText
    BY <1>1, <2>1, InitialText, Zenon DEF ByteInit
  <2>2. CASE InitInteger
    BY <2>2 DEF InitInteger, TextInv, OfText
  <2> QED BY <1>1, <2>1, <2>2, Zenon DEF ByteInit
<1>2. ASSUME TextInv, [ByteNext]_byte_vars
      PROVE  TextInv'
  <2>1. CASE EncodeRound
    BY <1>2, <2>1, EncodeRoundKeeps, Zenon
  <2>2. CASE EncodeEnd
    BY <1>2, <2>2, EncodeEndKeeps, Zenon
  <2>3. CASE DecodeStart
    BY <1>2, <2>3, DecodeStartKeeps, Zenon
  <2>4. CASE DecodeRound
    BY <1>2, <2>4, DecodeRoundKeeps, Zenon
  <2>5. CASE DecodeEnd
    BY <1>2, <2>5, DecodeEndKeeps, Zenon
  <2>6. CASE to_bin_arr
    BY <2>6 DEF to_bin_arr, TextInv, OfText
  <2>7. CASE bin_arr_to
    BY <2>7 DEF bin_arr_to, TextInv, OfText
  <2>8. CASE UNCHANGED byte_vars
    <3>1. /\ arg' = arg /\ pc' = pc /\ it' = it /\ i' = i /\ text' = text
          /\ prev_byte' = prev_byte /\ out' = out
      BY <2>8 DEF byte_vars, loop
    <3>2. /\ (GoodText' <=> GoodText) /\ Symbols' = Symbols /\ Sextets' = Sextets
          /\ (Complete(text)' <=> Complete(text))
      BY <3>1, SameArguments, Zenon DEF Complete, Count, UpToFour, Symbols
    <3>3. LaidOut(text, i)' <=> LaidOut(text, i)
      BY <3>1, SameArguments, Zenon DEF LaidOut, Count
    <3>4. ReadBack(i, out, prev_byte) => ReadBack(i, out, prev_byte)'
      BY <3>1, SameArguments, Zenon DEF ReadBack
    <3>5. Refusable' <=> Refusable
      BY <3>1, <3>2, Zenon DEF Refusable
    <3> QED BY <1>2, <3>1, <3>2, <3>3, <3>4, <3>5 DEF TextInv, OfText
  <2> QED BY <1>2, <2>1, <2>2, <2>3, <2>4, <2>5, <2>6, <2>7, <2>8, Zenon DEF ByteNext
<1> QED BY <1>1, <1>2, PTL DEF ByteSpec

(* At every round of to_base64 the text is RFC 4648's so far, and at its    *)
(* end it is as long as was asked for, except that padding that fills a    *)
(* line is one too long (byte_op.cpp:33), for every line length and data.  *)
THEOREM TextsAreRfc == ByteSpec => []RfcText
<1>1. TextInv => RfcText
  <2>1. SUFFICES ASSUME TextInv, OfText
                 PROVE  RfcText
    BY Zenon DEF RfcText
  <2>2. CASE pc = "encode"
    BY <2>1, <2>2, LaidOutIsRfc, Zenon DEF TextInv
  <2>3. CASE pc # "encode"
    BY <2>1, <2>3, CompleteIsRfc, Zenon DEF TextInv
  <2> QED BY <2>2, <2>3
<1> QED BY <1>1, TextInvHolds, PTL

(* What to_base64 wrote, base64_to reads back, or refuses it for a line    *)
(* feed or an incomplete group, and for nothing else (byte_op.cpp:88).     *)
THEOREM TextsComeBack == ByteSpec => []RoundTrip
<1>1. TextInv => RoundTrip
  <2>1. ASSUME TextInv, pc = "done"
        PROVE  out = arg.data /\ ~Refusable
    <3>1. /\ GoodText /\ ReadBack(Sextets, out, prev_byte) /\ ~Refusable
      BY <2>1 DEF TextInv, OfText, Refusable
    <3>2. arg.data \in Seq(0..255) /\ (6 * Sextets) \div 8 = Len(arg.data)
      BY <3>1, Counts, Zenon DEF GoodText
    <3>3. PICK l \in Nat : l = Len(arg.data)
      BY <3>2, LenProperties
    <3>4. out \in Seq(0..255) /\ Len(out) = l /\ \A n \in 1..l : out[n] = ByteAt(n - 1)
      BY <3>1, <3>2, <3>3, Zenon DEF ReadBack
    <3>5. ASSUME NEW n \in 1..l
          PROVE  out[n] = arg.data[n]
      <4>1. n - 1 < Len(arg.data) /\ n - 1 + 1 = n
        BY <3>3
      <4>2. ByteAt(n - 1) = arg.data[n]
        BY <4>1, Zenon DEF ByteAt
      <4> QED BY <3>4, <4>2, Zenon
    <3>6. out = arg.data
      BY <3>2, <3>3, <3>4, <3>5, SeqEqual
    <3> QED BY <3>1, <3>6
  <2>2. TextInv /\ pc = "refused" => Refusable
    BY DEF TextInv, OfText
  <2> QED BY <2>1, <2>2, Zenon DEF RoundTrip, Refusable
<1> QED BY <1>1, TextInvHolds, PTL
-----------------------------------------------------------------------------
(* Integers. A number is its lower bytes and the rest of it, shifted: the  *)
(* sum of the terms differs from the number by a multiple of the size of   *)
(* its type, which the cast drops.                                         *)

LEMMA QuotientIs ==
  ASSUME NEW a \in Int, NEW m \in Nat \ {0}, NEW q \in Int, NEW r \in 0..m - 1,
         a = q * m + r
  PROVE  a \div m = q /\ a % m = r
OBVIOUS

LEMMA Divided ==
  ASSUME NEW a \in Int, NEW m \in Nat \ {0}
  PROVE  /\ a \div m \in Int /\ (a % m) \in 0..m - 1
         /\ a = (a \div m) * m + (a % m)
OBVIOUS

LEMMA DividedTwice ==
  ASSUME NEW a \in Int, NEW p \in Nat \ {0}, NEW m \in Nat \ {0}
  PROVE  (a \div p) \div m = a \div (p * m)
OBVIOUS

LEMMA SameRemainder ==
  ASSUME NEW a \in Int, NEW m \in Nat \ {0}, NEW q \in Int
  PROVE  (q * m + a) % m = a % m
<1>1. PICK p \in Int, r \in 0..m - 1 : a = p * m + r /\ a % m = r
  BY Divided
<1>2. q * m + a = (q + p) * m + r /\ q + p \in Int /\ q * m + a \in Int
  BY <1>1
<1> QED BY <1>1, <1>2, QuotientIs

(* Each scale is the one before it times Base. *)
LEMMA Scales ==
  /\ \A k \in 0..8 : Scale(k) \in Nat \ {0}
  /\ Scale(0) = 1 /\ Scale(1) = Base
  /\ \A k \in 0..7 : Scale(k + 1) = Scale(k) * Base
<1>1. Base \in Nat \ {0}
  BY ByteOpAssumption
<1>2. ASSUME NEW b \in Nat \ {0}, NEW c \in Nat \ {0}
      PROVE  b * c \in Nat \ {0}
  OBVIOUS
<1> DEFINE b2 == Base * Base
           b4 == b2 * b2
<1>3. b2 \in Nat \ {0}
  BY <1>1, <1>2
<1>4. b4 \in Nat \ {0}
  BY <1>2, <1>3
<1>5. b2 * Base \in Nat \ {0} /\ b4 * Base \in Nat \ {0} /\ b4 * b2 \in Nat \ {0}
      /\ b4 * b4 \in Nat \ {0}
  BY <1>1, <1>2, <1>3, <1>4
<1>6. b4 * b2 * Base \in Nat \ {0}
  BY <1>1, <1>2, <1>5
<1>7. /\ Scale(0) = 1 /\ Scale(1) = Base /\ Scale(2) = b2 /\ Scale(3) = b2 * Base
      /\ Scale(4) = b4 /\ Scale(5) = b4 * Base /\ Scale(6) = b4 * b2
      /\ Scale(7) = b4 * b2 * Base /\ Scale(8) = b4 * b4
  BY DEF Scale
<1>8. b4 = b2 * Base * Base /\ b4 * b2 = b4 * Base * Base
      /\ b4 * b4 = b4 * b2 * Base * Base
  BY <1>1, <1>3, <1>4
<1> HIDE DEF b2, b4
<1>9. \A k \in 0..8 : Scale(k) \in Nat \ {0}
  BY <1>1, <1>3, <1>4, <1>5, <1>6, <1>7
<1>10. \A k \in 0..7 : Scale(k + 1) = Scale(k) * Base
  <2> TAKE k \in 0..7
  <2>1. k \in {0, 1, 2, 3, 4, 5, 6, 7}
    OBVIOUS
  <2>2. b2 = Base * Base
    BY DEF b2
  <2>3. 1 * Base = Base
    BY <1>1
  <2> QED BY <1>7, <1>8, <2>1, <2>2, <2>3
<1> QED BY <1>7, <1>9, <1>10

(* What v is above its k lowest bytes, its k-th byte, and its k lowest     *)
(* bytes.                                                                  *)
Above(v, k) == v \div Scale(k)
Digit(v, k) == Above(v, k) % Base
Below(v, k) == v - Above(v, k) * Scale(k)

LEMMA Digits ==
  ASSUME NEW v \in Int
  PROVE  /\ \A k \in 0..8 : Above(v, k) \in Int /\ Below(v, k) \in Int
         /\ \A k \in 0..8 : Digit(v, k) \in 0..Base - 1
         /\ Below(v, 0) = 0
         /\ \A k \in 0..7 : Below(v, k + 1) = Below(v, k) + Digit(v, k) * Scale(k)
<1>1. Base \in Nat \ {0}
  BY ByteOpAssumption
<1>2. ASSUME NEW k \in 0..8
      PROVE  Above(v, k) \in Int /\ Below(v, k) \in Int /\ Digit(v, k) \in 0..Base - 1
  <2>1. PICK s \in Nat \ {0} : s = Scale(k)
    BY Scales
  <2>2. Above(v, k) \in Int
    BY <2>1, Divided DEF Above
  <2>3. Below(v, k) \in Int
    BY <2>1, <2>2 DEF Below
  <2> QED BY <1>1, <2>2, <2>3, Divided DEF Digit
<1>3. Below(v, 0) = 0
  <2>1. v \div 1 = v
    BY QuotientIs
  <2> QED BY <2>1, Scales DEF Below, Above
<1>4. ASSUME NEW k \in 0..7
      PROVE  Below(v, k + 1) = Below(v, k) + Digit(v, k) * Scale(k)
  <2>1. PICK s \in Nat \ {0} : s = Scale(k) /\ Scale(k + 1) = s * Base
    <3>1. k \in 0..8
      OBVIOUS
    <3> QED BY <3>1, Scales
  <2>2. PICK a \in Int : a = Above(v, k)
    BY <1>2
  <2>3. Above(v, k + 1) = a \div Base
    <3>1. (v \div s) \div Base = v \div (s * Base)
      BY <1>1, <2>1, DividedTwice
    <3> QED BY <2>1, <2>2, <3>1 DEF Above
  <2>4. PICK q \in Int, d \in 0..Base - 1 :
          a \div Base = q /\ a % Base = d /\ a = q * Base + d
    BY <1>1, Divided
  <2>5. Digit(v, k) = d
    BY <2>2, <2>4 DEF Digit
  <2>6. Below(v, k + 1) = v - q * (s * Base) /\ Below(v, k) = v - a * s
    BY <2>1, <2>2, <2>3, <2>4 DEF Below
  <2>7. d \in Int
    BY <1>1
  <2>8. a * s = q * (s * Base) + d * s
    BY <1>1, <2>4, <2>7
  <2>9. q * (s * Base) \in Int /\ d * s \in Int
    BY <1>1, <2>7
  <2> QED BY <2>1, <2>5, <2>6, <2>8, <2>9
<1> QED BY <1>2, <1>3, <1>4

(* A cast drops the multiples of the size of the type, *)
LEMMA CastDropsMultiples ==
  ASSUME NEW t \in Types, NEW v \in Int, NEW q \in Int
  PROVE  Cast(t, q * Scale(t.bytes) + v) = Cast(t, v)
<1>1. PICK s \in Nat \ {0} : s = Scale(t.bytes)
  BY Scales DEF Types
<1>2. (q * s + v) % s = v % s
  BY SameRemainder
<1> QED BY <1>1, <1>2, Zenon DEF Cast

(* and leaves the values of the type as they are. *)
LEMMA CastKeepsValues ==
  ASSUME NEW t \in Types, NEW v \in Values(t)
  PROVE  v \in Int /\ Cast(t, v) = v
<1>1. PICK s \in Nat \ {0} : s = Scale(t.bytes)
  BY Scales DEF Types
<1>2. PICK w \in 0..s - 1 : v = Cast(t, w)
  BY <1>1 DEF Values
<1>3. w % s = w /\ (w - s) % s = w
  <2>1. w = 0 * s + w /\ w - s = (-1) * s + w /\ w \in Int /\ w - s \in Int
    BY <1>1
  <2> QED BY <2>1, QuotientIs
<1>4. PICK h \in Int : h = s \div 2
  OBVIOUS
<1>5. v = IF t.signed /\ w >= h THEN w - s ELSE w
  BY <1>1, <1>2, <1>3, <1>4, Zenon DEF Cast
<1>6. v % s = w
  BY <1>3, <1>5
<1>7. Cast(t, v) = IF t.signed /\ w >= h THEN w - s ELSE w
  BY <1>1, <1>4, <1>6, Zenon DEF Cast
<1>8. v \in Int
  BY <1>5
<1> QED BY <1>5, <1>7, <1>8, Zenon

Written ==
  [p \in 1..arg.type.bytes |->
     LET k == IF arg.little THEN p - 1 ELSE arg.type.bytes - p
     IN (arg.value \div Scale(k)) % Base]

OfInteger ==
  arg.type \in Types /\ arg.value \in Values(arg.type) /\ arg.little \in BOOLEAN

(* The place a byte is read at is the one it was written at. *)
LEMMA ReadWhereWritten ==
  ASSUME OfInteger, out = Written, NEW k \in 0..arg.type.bytes - 1
  PROVE  out[Place(k)] = Digit(arg.value, k)
<1>1. PICK b \in 1..8 : b = arg.type.bytes
  BY DEF OfInteger, Types
<1>2. Place(k) \in 1..b
  BY <1>1 DEF Place
<1>3. k = IF arg.little THEN Place(k) - 1 ELSE b - Place(k)
  BY <1>1 DEF Place
<1>4. Written[Place(k)] = (arg.value \div Scale(IF arg.little THEN Place(k) - 1 ELSE b - Place(k))) % Base
  BY <1>1, <1>2, Zenon DEF Written
<1> QED BY <1>3, <1>4, Zenon DEF Digit, Above

(* The terms add up to the bytes below the width. *)
LEMMA SumIsBelow ==
  ASSUME OfInteger, out = Written, ~ShiftsTheByte
  PROVE  Sum = Below(arg.value, arg.type.bytes)
<1>1. PICK v \in Int : v = arg.value
  BY CastKeepsValues DEF OfInteger
<1>2. PICK b \in {1, 2, 4, 8} : b = arg.type.bytes
  BY DEF OfInteger, Types
<1>3. ASSUME NEW k \in 0..b - 1
      PROVE  /\ Term(k) = Below(v, k + 1) - Below(v, k)
             /\ Below(v, k) \in Int /\ Below(v, k + 1) \in Int
  <2>1. k \in 0..7 /\ k \in 0..8 /\ k + 1 \in 0..8
    BY <1>2
  <2>2. Term(k) = Digit(v, k) * Scale(k)
    BY <1>1, <1>2, ReadWhereWritten DEF Term
  <2>3. Digit(v, k) \in Int /\ Scale(k) \in Int
    <3>1. Digit(v, k) \in 0..Base - 1 /\ Scale(k) \in Nat
      BY <2>1, Digits, Scales
    <3> QED BY <3>1, ByteOpAssumption
  <2>4. Below(v, k) \in Int /\ Below(v, k + 1) \in Int
    BY <2>1, Digits
  <2>5. Below(v, k + 1) = Below(v, k) + Digit(v, k) * Scale(k)
    BY <2>1, Digits
  <2>6. Digit(v, k) * Scale(k) \in Int
    BY <2>3
  <2> QED BY <2>2, <2>4, <2>5, <2>6
<1>4. Below(v, 0) = 0
  BY Digits
<1>5. CASE b = 1
  <2>1. Sum = Term(0)
    BY <1>2, <1>5 DEF Sum
  <2> QED BY <1>1, <1>2, <1>3, <1>4, <1>5, <2>1
<1>6. CASE b = 2
  <2>1. Sum = Term(0) + Term(1)
    BY <1>2, <1>6 DEF Sum
  <2> QED BY <1>1, <1>2, <1>3, <1>4, <1>6, <2>1
<1>7. CASE b = 4
  <2>1. Sum = (Term(0) + Term(1)) + (Term(2) + Term(3))
    BY <1>2, <1>7 DEF Sum
  <2> QED BY <1>1, <1>2, <1>3, <1>4, <1>7, <2>1
<1>8. CASE b = 8
  <2>1. Sum = ((Term(0) + Term(1)) + (Term(2) + Term(3)))
                + ((Term(4) + Term(5)) + (Term(6) + Term(7)))
    BY <1>2, <1>8 DEF Sum
  <2> QED BY <1>1, <1>2, <1>3, <1>4, <1>8, <2>1
<1> QED BY <1>2, <1>5, <1>6, <1>7, <1>8

(* The sum is cast to the integer that was written. *)
LEMMA ReadAgain ==
  ASSUME OfInteger, out = Written, ~ShiftsTheByte
  PROVE  Cast(arg.type, Sum) = arg.value
<1> DEFINE t == arg.type
<1>1. PICK v \in Int : v = arg.value /\ Cast(t, v) = v
  BY CastKeepsValues DEF OfInteger
<1>2. t \in Types /\ t.bytes \in 0..8
  BY DEF OfInteger, Types
<1>3. PICK q \in Int, low \in Int, s \in Nat \ {0} :
        /\ q = Above(v, t.bytes) /\ low = Below(v, t.bytes) /\ s = Scale(t.bytes)
  BY <1>2, Digits, Scales
<1>4. low = v - q * s
  BY <1>3 DEF Below
<1>5. v = q * s + low
  BY <1>4
<1>6. Cast(t, v) = Cast(t, low)
  BY <1>2, <1>3, <1>5, CastDropsMultiples
<1> QED BY <1>1, <1>3, <1>6, SumIsBelow

(* The bytes are those of the integer from one conversion to the other. *)
IntegerInv ==
  /\ pc \in {"to_bin_arr", "bin_arr_to", "read"} => OfInteger
  /\ pc = "bin_arr_to" => out = Written
  /\ ReadsBack

(* An integer of every type, for every byte width, is read back as it was  *)
(* written in the same byte order; nothing is said of a uint32_t in little *)
(* endian, whose bytes are shifted too early (byte_op.cpp:266).            *)
THEOREM IntegersComeBack == ByteSpec => []ReadsBack
<1>1. ByteInit => IntegerInv
  <2>1. ASSUME InitInteger
        PROVE  OfInteger /\ pc = "to_bin_arr"
    BY <2>1 DEF InitInteger, OfInteger
  <2>2. InitText => pc = "encode"
    BY DEF InitText
  <2> QED BY <2>1, <2>2 DEF ByteInit, IntegerInv, ReadsBack
<1>2. IntegerInv /\ [ByteNext]_byte_vars => IntegerInv'
  <2> SUFFICES ASSUME IntegerInv, [ByteNext]_byte_vars
               PROVE  IntegerInv'
    OBVIOUS
  <2>1. CASE to_bin_arr
    <3>1. arg' = arg /\ pc' = "bin_arr_to" /\ pc = "to_bin_arr"
      BY <2>1 DEF to_bin_arr
    <3>2. out' = Written /\ Written' = Written
      BY <2>1, <3>1, Zenon DEF to_bin_arr, Written, Scale
    <3>3. OfInteger'
      BY <3>1 DEF IntegerInv, OfInteger
    <3> QED BY <3>1, <3>2, <3>3 DEF IntegerInv, ReadsBack
  <2>2. CASE bin_arr_to
    <3>1. arg' = arg /\ pc' = "read" /\ pc = "bin_arr_to"
      BY <2>2 DEF bin_arr_to
    <3>2. OfInteger /\ out = Written /\ OfInteger'
      BY <3>1 DEF IntegerInv, OfInteger
    <3>3. ~ShiftsTheByte => number' = arg.value
      BY <2>2, <3>2, ReadAgain DEF bin_arr_to
    <3>4. ShiftsTheByte' <=> ShiftsTheByte
      BY <3>1 DEF ShiftsTheByte
    <3> QED BY <3>1, <3>2, <3>3, <3>4 DEF IntegerInv, ReadsBack
  <2>3. CASE UNCHANGED byte_vars
    <3>1. arg' = arg /\ pc' = pc /\ out' = out /\ number' = number
      BY <2>3 DEF byte_vars
    <3>2. /\ OfInteger' <=> OfInteger
          /\ ShiftsTheByte' <=> ShiftsTheByte
          /\ Written' = Written
      BY <3>1, Zenon DEF OfInteger, ShiftsTheByte, Written
    <3> QED BY <3>1, <3>2 DEF IntegerInv, ReadsBack
  <2>4. CASE EncodeRound \/ EncodeEnd \/ DecodeStart \/ DecodeRound \/ DecodeEnd
    <3>1. pc' \in {"encode", "check", "decode", "done", "refused"}
      BY <2>4 DEF EncodeRound, EncodeEnd, DecodeStart, DecodeRound, DecodeEnd, Refuse
    <3> QED BY <3>1 DEF IntegerInv, ReadsBack
  <2> QED BY <2>1, <2>2, <2>3, <2>4, Zenon DEF ByteNext
<1>3. IntegerInv => ReadsBack
  BY DEF IntegerInv
<1> QED BY <1>1, <1>2, <1>3, PTL DEF ByteSpec
===============================================================================
