-------------------------- MODULE TlsSetup_proofs --------------------------
(***************************************************************************)
(* Proofs about what comes before data flows over TLS: the handshake       *)
(* between two objects (TlsHandshake), for any limit of retries; and the   *)
(* certificates of servers on the context they share (TlsServer), for any  *)
(* number of servers, certificates, keys and kinds of keys.                *)
(***************************************************************************)
EXTENDS TlsHandshake, TlsServer, TLAPS

(***************************************************************************)
(* The handshake.  Flights are taken in their order and only after they    *)
(* were made, so the side that is done has either made the last flight, or *)
(* taken it from a side that is done too.                                  *)
(***************************************************************************)

(* What was taken has arrived, and what has arrived was made. *)
InOrder ==
  \A s \in Sides :
    /\ progress[s] <= flights
    /\ arrived[s] <= LastMade(Other(s))
    /\ LastMade(s) # progress[s] => progress[s] <= arrived[s]

Inv == TypeOK /\ InOrder /\ OkIsSettled
-----------------------------------------------------------------------------
(* Flights, and how far a call of OpenSSL goes. *)

(* The flights of each side. *)
LEMMA Flights ==
  /\ \A k \in 0..4 : Maker(k) = IF k \in {1, 3} THEN "client" ELSE "server"
  /\ \A k \in 0..4 : k \in {0, 1, 2, 3, 4}
<1>1. \A k \in 0..4 : k \in {0, 1, 2, 3, 4}
  OBVIOUS
<1>2. 0 % 2 = 0 /\ 1 % 2 = 1 /\ 2 % 2 = 0 /\ 3 % 2 = 1 /\ 4 % 2 = 0
  OBVIOUS
<1> QED
  BY <1>1, <1>2 DEF Maker

(* It made the flight it is at, or the one before it.                      *)
LEMMA MadeRange ==
  ASSUME NEW s \in Sides, NEW k \in 0..4
  PROVE  /\ Made(s, k) \in {k, k - 1}
         /\ Made(s, k) \in 0..4
         /\ Maker(k) = s => Made(s, k) = k
  BY Flights DEF Made, Sides

LEMMA OtherSide ==
  ASSUME NEW s \in Sides
  PROVE  /\ Other(s) \in Sides /\ Other(s) # s /\ Other(Other(s)) = s
         /\ Sides = {s, Other(s)}
  BY DEF Sides, Other

(* A call goes forward, never past the last flight, and stops at a flight  *)
(* of the other side only when that flight is the last and has arrived.    *)
LEMMA ReachForward ==
  ASSUME TypeOK, InOrder, NEW s \in Sides
  PROVE  /\ Reach(s) \in progress[s]..flights
         /\ Reach(s) # progress[s] => \/ Maker(Reach(s)) = s
                                      \/ (Reach(s) = flights /\ flights <= arrived[s])
<1> DEFINE next == progress[s] + 1
<1>1. progress[s] \in 0..4 /\ arrived[s] \in 0..4 /\ flights \in {3, 4}
  BY DEF TypeOK
<1>2. progress[s] <= flights
  BY DEF InOrder
<1>3. CASE next > flights
  BY <1>1, <1>2, <1>3 DEF Reach
<1>4. CASE next <= flights /\ Maker(next) = s
  <2>1. Reach(s) = next
    BY <1>1, <1>2, <1>4 DEF Reach
  <2> QED
    BY <1>1, <1>2, <1>4, <2>1
<1>5. CASE next <= flights /\ Maker(next) # s
  <2>1. next # flights => Maker(next + 1) = s
    BY <1>1, <1>2, <1>5, Flights DEF Sides
  <2>2. CASE arrived[s] < next
    BY <1>1, <1>2, <1>5, <2>2 DEF Reach
  <2>3. CASE arrived[s] >= next /\ next = flights
    BY <1>1, <1>2, <1>5, <2>3 DEF Reach
  <2>4. CASE arrived[s] >= next /\ next # flights
    <3>1. Reach(s) = next + 1
      BY <1>1, <1>2, <1>5, <2>4 DEF Reach
    <3> QED
      BY <1>1, <1>2, <1>5, <2>1, <2>4, <3>1
  <2> QED
    BY <1>1, <1>2, <2>2, <2>3, <2>4
<1> QED
  BY <1>1, <1>2, <1>3, <1>4, <1>5

(* A side that advances keeps the order, and undoes no flight.             *)
LEMMA AdvanceInOrder ==
  ASSUME TypeOK, InOrder, NEW s \in Sides, Advance(s),
         flights' = flights, arrived' = arrived
  PROVE  /\ progress' \in [Sides -> 0..4]
         /\ InOrder'
         /\ \A r \in Sides : progress[r] <= progress'[r] /\ LastMade(r) <= LastMade(r)'
<1> DEFINE p == progress[s]
           q == Reach(s)
<1>1. p \in 0..4 /\ flights \in {3, 4} /\ p <= flights /\ q \in p..flights
  BY ReachForward DEF TypeOK, InOrder
<1>2. q \in 0..4
  BY <1>1
<1>3. progress' = [progress EXCEPT ![s] = q] /\ progress \in [Sides -> 0..4]
  BY DEF Advance, TypeOK
<1>4. progress' \in [Sides -> 0..4] /\ progress'[s] = q
      /\ \A r \in Sides : r # s => progress'[r] = progress[r]
  BY <1>2, <1>3
<1> HIDE DEF p, q
<1>5. /\ Made(s, p) \in {p, p - 1} /\ (Maker(p) = s => Made(s, p) = p)
      /\ Made(s, q) \in {q, q - 1} /\ (Maker(q) = s => Made(s, q) = q)
  BY <1>1, <1>2, MadeRange
<1>6. q # p => Maker(q) = s \/ (q = flights /\ flights <= arrived[s])
  BY ReachForward DEF p, q
<1>7. LastMade(s) = Made(s, p) /\ LastMade(s)' = Made(s, q)
  BY <1>4 DEF LastMade, p
<1>8. \A r \in Sides : r # s => LastMade(r)' = LastMade(r)
  BY <1>4 DEF LastMade
<1>9. LastMade(s) <= LastMade(s)' /\ LastMade(s) \in 0..4 /\ LastMade(s)' \in 0..4
  BY <1>1, <1>2, <1>5, <1>7, MadeRange
<1>10. \A r \in Sides : arrived[r] \in 0..4 /\ progress[r] \in 0..4 /\ LastMade(r) \in 0..4
  BY MadeRange DEF TypeOK, LastMade
<1>11. \A r \in Sides : progress[r] <= progress'[r] /\ LastMade(r) <= LastMade(r)'
  BY <1>1, <1>4, <1>8, <1>9, <1>10 DEF p
<1>12. InOrder'
  <2> SUFFICES ASSUME NEW r \in Sides
               PROVE  /\ progress'[r] <= flights
                      /\ arrived[r] <= LastMade(Other(r))'
                      /\ LastMade(r)' # progress'[r] => progress'[r] <= arrived[r]
    BY DEF InOrder, Other
  <2>1. progress[r] <= flights /\ arrived[r] <= LastMade(Other(r))
        /\ (LastMade(r) # progress[r] => progress[r] <= arrived[r])
    BY DEF InOrder
  <2>2. arrived[r] <= LastMade(Other(r))'
    BY <2>1, <1>10, <1>11, <1>9, <1>8, OtherSide
  <2>3. CASE r # s
    BY <2>1, <2>2, <2>3, <1>4, <1>8
  <2>4. CASE r = s
    <3>1. LastMade(s)' # q => q <= arrived[s]
      BY <2>1, <2>4, <1>1, <1>5, <1>6, <1>7 DEF p
    <3> QED
      BY <2>2, <2>4, <3>1, <1>1, <1>4
  <2> QED
    BY <2>3, <2>4
<1> QED
  BY <1>4, <1>11, <1>12

(* When one side is done, the other is done or has nothing more to wait    *)
(* for than a flight that was made.                                        *)
BothSettled ==
  \A s, r \in Sides : Complete(s) => Complete(r) \/ LastMade(Other(r)) = flights

LEMMA DoneSettlesBoth == TypeOK /\ InOrder => BothSettled
<1> SUFFICES ASSUME TypeOK, InOrder, NEW s \in Sides, NEW r \in Sides, Complete(s), r # s
             PROVE  Complete(r) \/ LastMade(s) = flights
  BY DEF BothSettled, Sides, Other
<1>1. progress[s] = flights /\ Other(s) = r
  BY DEF Complete, Sides, Other
<1>2. LastMade(s) # flights => flights <= arrived[s] /\ arrived[s] <= LastMade(r)
  BY <1>1 DEF InOrder
<1>3. LastMade(r) \in {progress[r], progress[r] - 1} /\ progress[r] <= flights
  BY MadeRange DEF TypeOK, LastMade, InOrder
<1>4. flights \in 0..4 /\ progress[r] \in 0..4 /\ arrived[s] \in 0..4
  BY DEF TypeOK
<1> QED
  BY <1>2, <1>3, <1>4 DEF Complete

(* A call of OpenSSL keeps the invariant, when it makes no object "ok" or  *)
(* is done itself.                                                         *)
LEMMA AdvanceSettled ==
  ASSUME Inv, TypeOK', NEW s \in Sides, Advance(s),
         flights' = flights, arrived' = arrived,
         m_handshake' = m_handshake \/ progress'[s] = flights
  PROVE  Inv'
<1>1. InOrder' /\ \A r \in Sides : progress[r] <= progress'[r] /\ LastMade(r) <= LastMade(r)'
  BY AdvanceInOrder DEF Inv
<1>2. \A r \in Sides :
        /\ flights \in 0..4 /\ progress[r] \in 0..4 /\ progress'[r] \in 0..4
        /\ LastMade(r) \in 0..4 /\ LastMade(r)' \in 0..4
        /\ LastMade(r)' <= progress'[r] /\ progress'[r] <= flights
  BY <1>1, MadeRange DEF Inv, TypeOK, LastMade, InOrder
<1>3. OkIsSettled'
  <2>1. CASE m_handshake' = m_handshake
    <3> SUFFICES ASSUME NEW r \in Sides, m_handshake[r] = "ok"
                 PROVE  Complete(r)' \/ LastMade(Other(r))' = flights
      BY <2>1 DEF OkIsSettled, Other
    <3>1. Complete(r) \/ LastMade(Other(r)) = flights
      BY DEF Inv, OkIsSettled
    <3>2. Other(r) \in Sides
      BY OtherSide
    <3> QED
      BY <1>1, <1>2, <3>1, <3>2 DEF Complete
  <2>2. CASE progress'[s] = flights
    <3>1. TypeOK' /\ InOrder'
      BY <1>1
    <3>2. BothSettled'
      BY <3>1, DoneSettlesBoth, PTL
    <3>3. Complete(s)'
      BY <2>2 DEF Complete
    <3> QED
      BY <3>2, <3>3 DEF BothSettled, OkIsSettled, Other
  <2> QED
    BY <2>1, <2>2
<1> QED
  BY <1>1, <1>3 DEF Inv
-----------------------------------------------------------------------------
LEMMA InitInv == Init => Inv
<1> SUFFICES ASSUME Init
             PROVE  Inv
  OBVIOUS
<1>1. TypeOK
  <2>1. m_handshake \in [Sides -> {"connect", "accept", "ok"}]
    BY DEF Init, Sides
  <2>2. retry_count \in [Sides -> 0..MaxRetry]
    BY HandshakeAssumption DEF Init
  <2>3. progress \in [Sides -> 0..4] /\ arrived \in [Sides -> 0..4]
    BY DEF Init
  <2>4. trying \in [Sides -> BOOLEAN] /\ broken \in BOOLEAN
    BY Zenon DEF Init
  <2>5. flights \in {3, 4} /\ turn = "none"
    BY DEF Init
  <2> QED
    BY <2>1, <2>2, <2>3, <2>4, <2>5 DEF TypeOK
<1>2. \A s \in Sides : Other(s) \in Sides /\ LastMade(s) = 0 /\ progress[s] = 0 /\ arrived[s] = 0
  BY OtherSide DEF Init, LastMade, Made
<1>3. InOrder
  BY <1>2 DEF Init, InOrder
<1>4. OkIsSettled
  BY DEF Init, OkIsSettled
<1> QED
  BY <1>1, <1>3, <1>4 DEF Inv

(* Every step stays in the ranges, and enters a call only when the thread  *)
(* is free.                                                                *)
LEMMA NextTypeOK == Inv /\ Next => TypeOK'
<1> SUFFICES ASSUME Inv, Next
             PROVE  TypeOK'
  OBVIOUS
<1> USE HandshakeAssumption DEF Inv
<1>1. ASSUME NEW s \in Sides, Transfer(s)
      PROVE  TypeOK'
  <2>1. LastMade(Other(s)) \in 0..4
    BY MadeRange, OtherSide DEF TypeOK, LastMade
  <2> QED
    BY <1>1, <2>1 DEF TypeOK, Transfer
<1>2. ASSUME NEW s \in Sides, Call(s)
      PROVE  TypeOK'
  BY <1>2 DEF TypeOK, Call, Free
<1>3. ASSUME NEW s \in Sides, Try(s)
      PROVE  TypeOK'
  <2>1. CASE TrySucceeds(s)
    <3>1. progress' \in [Sides -> 0..4]
      BY <2>1, AdvanceInOrder DEF TrySucceeds
    <3> QED
      BY <2>1, <3>1 DEF TypeOK, TrySucceeds, Leave
  <2>2. CASE TryWants(s)
    <3>1. progress' \in [Sides -> 0..4]
      BY <2>2, AdvanceInOrder DEF TryWants
    <3>2. retry_count' \in [Sides -> 0..MaxRetry]
      <4>1. CASE retry_count[s] >= MaxRetry
        BY <2>2, <4>1 DEF TypeOK, TryWants
      <4>2. CASE ~(retry_count[s] >= MaxRetry)
        <5>1. retry_count[s] + 1 \in 0..MaxRetry
          BY <4>2 DEF TypeOK
        <5> QED
          BY <2>2, <4>2, <5>1 DEF TypeOK, TryWants
      <4> QED
        BY <4>1, <4>2
    <3>3. trying' = trying \/ trying' = [trying EXCEPT ![s] = FALSE]
      BY <2>2 DEF TryWants, Leave
    <3>4. trying' \in [Sides -> BOOLEAN] /\ \A r \in Sides : trying'[r] => trying[r]
      BY <3>3 DEF TypeOK
    <3> QED
      BY <2>2, <3>1, <3>2, <3>4 DEF TypeOK, TryWants
  <2>3. CASE TryFails(s)
    BY <2>3 DEF TypeOK, TryFails, Leave
  <2> QED
    BY <1>3, <2>1, <2>2, <2>3 DEF Try
<1>4. ASSUME NEW s \in Sides, Exchange(s)
      PROVE  TypeOK'
  <2>1. progress' \in [Sides -> 0..4]
    BY <1>4, AdvanceInOrder DEF Exchange
  <2> QED
    BY <1>4, <2>1 DEF TypeOK, Exchange
<1>5. CASE Break
  BY <1>5 DEF TypeOK, Break
<1>6. CASE TakeTurns
  BY <1>6 DEF TypeOK, TakeTurns, Free, Sides
<1>7. CASE Turn
  <2>1. CASE TurnSucceeds
    <3>1. progress' \in [Sides -> 0..4] /\ turn' = "none"
      BY <2>1, AdvanceInOrder DEF TurnSucceeds, TypeOK
    <3>2. m_handshake' \in [Sides -> {"connect", "accept", "ok"}]
      BY <2>1 DEF TurnSucceeds, BothOk
    <3> QED
      BY <2>1, <3>1, <3>2 DEF TypeOK, TurnSucceeds
  <2>2. CASE TurnWants
    <3>1. progress' \in [Sides -> 0..4]
      BY <2>2, AdvanceInOrder DEF TurnWants, TypeOK
    <3>2. turn' \in Sides
      BY <2>2, OtherSide DEF TurnWants, TypeOK
    <3> QED
      BY <2>2, <3>1, <3>2 DEF TypeOK, TurnWants
  <2>3. CASE TurnFails
    BY <2>3 DEF TypeOK, TurnFails
  <2> QED
    BY <1>7, <2>1, <2>2, <2>3 DEF Turn
<1> QED
  BY <1>1, <1>2, <1>3, <1>4, <1>5, <1>6, <1>7 DEF Next

LEMMA NextInv == Inv /\ [Next]_vars => Inv'
<1> SUFFICES ASSUME Inv, [Next]_vars
             PROVE  Inv'
  OBVIOUS
<1>1. CASE Next
  <2>1. TypeOK'
    BY <1>1, NextTypeOK
  <2>2. \A r \in Sides : arrived[r] \in 0..4 /\ LastMade(r) \in 0..4
    BY MadeRange DEF Inv, TypeOK, LastMade
  <2>3. ASSUME NEW s \in Sides, Transfer(s)
        PROVE  Inv'
    <3>1. \A r \in Sides : LastMade(r)' = LastMade(r) /\ arrived[r] <= arrived'[r]
                           /\ arrived'[r] <= LastMade(Other(r))
      BY <2>2, <2>3, OtherSide DEF Transfer, LastMade, Inv, TypeOK, InOrder
    <3>2. \A r \in Sides : arrived'[r] \in 0..4 /\ progress[r] \in 0..4
      BY <2>1, <2>3 DEF Transfer, Inv, TypeOK
    <3>3. \A r \in Sides : Other(r) \in Sides
      BY OtherSide
    <3>4. InOrder'
      BY <2>2, <2>3, <3>1, <3>2, <3>3 DEF Transfer, Inv, InOrder, Other
    <3>5. OkIsSettled'
      BY <2>3, <3>1, <3>3 DEF Transfer, Inv, OkIsSettled, Complete, Other
    <3> QED
      BY <2>1, <3>4, <3>5 DEF Inv
  <2>4. ASSUME UNCHANGED <<flights, progress, arrived>>,
               m_handshake' = m_handshake
        PROVE  Inv'
    BY <2>1, <2>4 DEF Inv, InOrder, OkIsSettled, LastMade, Complete, Other
  <2>5. ASSUME NEW s \in Sides, Call(s)
        PROVE  Inv'
    BY <2>4, <2>5 DEF Call
  <2>6. ASSUME NEW s \in Sides, Try(s)
        PROVE  Inv'
    <3>1. CASE TrySucceeds(s)
      BY <2>1, <3>1, AdvanceSettled DEF TrySucceeds
    <3>2. CASE TryWants(s)
      BY <2>1, <3>2, AdvanceSettled DEF TryWants
    <3>3. CASE TryFails(s)
      BY <2>4, <3>3 DEF TryFails
    <3> QED
      BY <2>6, <3>1, <3>2, <3>3 DEF Try
  <2>7. ASSUME NEW s \in Sides, Exchange(s)
        PROVE  Inv'
    BY <2>1, <2>7, AdvanceSettled DEF Exchange
  <2>8. CASE Break
    BY <2>4, <2>8 DEF Break
  <2>9. CASE TakeTurns
    BY <2>4, <2>9 DEF TakeTurns
  <2>10. CASE Turn
    <3>1. CASE TurnSucceeds
      BY <2>1, <3>1, AdvanceSettled DEF TurnSucceeds, Inv, TypeOK
    <3>2. CASE TurnWants
      BY <2>1, <3>2, AdvanceSettled DEF TurnWants, Inv, TypeOK
    <3>3. CASE TurnFails
      BY <2>4, <3>3 DEF TurnFails
    <3> QED
      BY <2>10, <3>1, <3>2, <3>3 DEF Turn
  <2> QED
    BY <1>1, <2>3, <2>5, <2>6, <2>7, <2>8, <2>9, <2>10 DEF Next
<1>2. CASE UNCHANGED vars
  BY <1>2 DEF vars, Inv, TypeOK, InOrder, OkIsSettled, LastMade, Complete, Other
<1> QED
  BY <1>1, <1>2
-----------------------------------------------------------------------------
(* Every variable stays in its range, for any limit of retries: the count  *)
(* of handshake() never passes io_max_retry, and no thread is in two calls.*)
THEOREM TypeCorrect == Spec => []TypeOK
<1>1. Inv => TypeOK
  BY DEF Inv
<1> QED
  BY <1>1, InitInv, NextInv, PTL DEF Spec

(* An object handshake() or same_thread_handshake() marks "ok" waits for   *)
(* nothing its peer has still to do: its part is over, or the last flight  *)
(* was made.                                                               *)
THEOREM OkMeansSettled == Spec => []OkIsSettled
<1>1. Inv => OkIsSettled
  BY DEF Inv
<1> QED
  BY <1>1, InitInv, NextInv, PTL DEF Spec
-----------------------------------------------------------------------------
(***************************************************************************)
(* The certificates.  Each entry of the context holds things of one kind,  *)
(* and a call of listen() marks every entry it changes: what is not marked *)
(* since a server began to listen is what that server put there.           *)
(***************************************************************************)

KindOfCert(c) == KindOf[KeyOf[c]]

ContextType ==
  /\ certificate \in [Kinds -> Certs \cup {None}]
  /\ key \in [Kinds -> Keys \cup {None}]
  /\ current \in Kinds \cup {None}

ServerType ==
  /\ alive \subseteq Servers
  /\ listening \in [Servers -> BOOLEAN]
  /\ m_pubkey_path \in [Servers -> Certs \cup {None}]
  /\ m_privkey_path \in [Servers -> Keys \cup {None}]
  /\ ContextType
  /\ calls \in Nat
  /\ since \in [Servers -> 0..calls]
  /\ changed \in [Kinds -> 0..calls]
  /\ misgiven \subseteq Kinds

(* The entries of the context are of their kind, and a key fits the        *)
(* certificate beside it.                                                  *)
EntriesFit ==
  \A k \in Kinds :
    /\ certificate[k] # None => KindOfCert(certificate[k]) = k
    /\ key[k] # None => KindOf[key[k]] = k
    /\ certificate[k] # None /\ key[k] # None => key[k] = KeyOf[certificate[k]]

(* A server that listens was given files. *)
ListenersHaveFiles ==
  \A s \in Servers :
    listening[s] => m_pubkey_path[s] \in Certs /\ m_privkey_path[s] \in Keys

(* What no call has changed since a server with good files began to listen *)
(* is what that server put there.                                          *)
UntouchedIsTheirs ==
  \A s \in Servers :
    listening[s] /\ Fits(s) /\ changed[Kind(s)] <= since[s]
      => /\ certificate[Kind(s)] = m_pubkey_path[s]
         /\ key[Kind(s)] = m_privkey_path[s]

LEMMA KindsOf ==
  /\ \A k \in Keys : KindOf[k] \in Kinds
  /\ \A c \in Certs : KeyOf[c] \in Keys /\ KindOfCert(c) \in Kinds
  /\ None \notin Certs /\ None \notin Keys /\ None \notin Kinds
  BY ServerAssumption DEF KindOfCert, Kinds

(* What listen() makes of the context, whether it goes on or throws: the   *)
(* certificate replaces that of its kind, where no key stays that does not *)
(* fit, and the key is set unless it is refused.                           *)
Replaced(pub) == [certificate EXCEPT ![KindOfCert(pub)] = pub]
Kept(pub) ==
  [key EXCEPT ![KindOfCert(pub)] = IF @ = KeyOf[pub] THEN @ ELSE None]
Taken(pub, priv) ==
  priv # None /\ (Replaced(pub)[KindOf[priv]] = None
                  \/ KeyOf[Replaced(pub)[KindOf[priv]]] = priv)

LEMMA Fields ==
  ASSUME NEW a, NEW b, NEW r, r = [context |-> a, ok |-> b]
  PROVE  r.context = a /\ r.ok = b
  OBVIOUS

(* listen() with no certificate, with a key that is refused, and with one  *)
(* that is taken.                                                          *)
LEMMA NoCertificate ==
  ASSUME NEW priv
  PROVE  /\ Configured(None, priv).context = Context
         /\ ~Configured(None, priv).ok
<1>1. Configured(None, priv) = [context |-> Context, ok |-> FALSE]
  BY DEF Configured, Configure
<1>2. Configured(None, priv).ok = FALSE
  BY <1>1
<1> QED BY <1>1, <1>2

LEMMA CertificateSet ==
  ASSUME NEW pub, NEW priv
  PROVE  /\ WithCertificate(Context, pub)
              = [certificate |-> Replaced(pub), key |-> Kept(pub),
                 current |-> KindOfCert(pub)]
         /\ priv # None /\ Takes(WithCertificate(Context, pub), priv)
              <=> Taken(pub, priv)
<1>1. WithCertificate(Context, pub)
        = [certificate |-> Replaced(pub), key |-> Kept(pub),
           current |-> KindOfCert(pub)]
  BY DEF WithCertificate, Context, Replaced, Kept, KindOfCert
<1>2. Takes(WithCertificate(Context, pub), priv)
        <=> (Replaced(pub)[KindOf[priv]] = None
             \/ KeyOf[Replaced(pub)[KindOf[priv]]] = priv)
  BY <1>1 DEF Takes
<1> QED BY <1>1, <1>2 DEF Taken

LEMMA KeyRefused ==
  ASSUME NEW pub, NEW priv, pub # None, ~Taken(pub, priv)
  PROVE  /\ Configured(pub, priv).context
              = [certificate |-> Replaced(pub), key |-> Kept(pub),
                 current |-> KindOfCert(pub)]
         /\ ~Configured(pub, priv).ok
<1>1. Configured(pub, priv)
        = [context |-> WithCertificate(Context, pub), ok |-> FALSE]
  BY CertificateSet DEF Configured, Configure
<1>2. Configured(pub, priv).ok = FALSE
  BY <1>1
<1> QED BY <1>1, <1>2, CertificateSet

LEMMA KeySet ==
  ASSUME NEW pub, NEW priv, pub # None, Taken(pub, priv)
  PROVE  /\ Configured(pub, priv).context
              = [certificate |-> Replaced(pub),
                 key |-> [Kept(pub) EXCEPT ![KindOf[priv]] = priv],
                 current |-> KindOf[priv]]
         /\ Configured(pub, priv).ok => Replaced(pub)[KindOf[priv]] # None
<1> DEFINE with == WithKey(WithCertificate(Context, pub), priv)
<1>1. Configured(pub, priv) = [context |-> with, ok |-> Matches(with)]
  BY CertificateSet DEF Configured, Configure
<1>2. with = [certificate |-> Replaced(pub),
              key |-> [Kept(pub) EXCEPT ![KindOf[priv]] = priv],
              current |-> KindOf[priv]]
  BY CertificateSet DEF WithKey
<1> HIDE DEF with
<1>3. Configured(pub, priv).context = with
      /\ Configured(pub, priv).ok = Matches(with)
  <2> DEFINE match == Matches(with)
  <2>1. Configured(pub, priv) = [context |-> with, ok |-> match]
    BY <1>1
  <2> HIDE DEF match
  <2>2. Configured(pub, priv).context = with /\ Configured(pub, priv).ok = match
    BY <2>1, Fields
  <2> QED BY <2>2 DEF match
<1>4. Configured(pub, priv).ok <=> Matches(with)
  BY <1>3, Zenon
<1>5. Matches(with) => Replaced(pub)[KindOf[priv]] # None
  BY <1>2 DEF Matches
<1> QED BY <1>2, <1>3, <1>4, <1>5
-----------------------------------------------------------------------------
(* Entry by entry, what a call of listen() leaves in the context. *)
LEMMA EntriesAfter ==
  ASSUME ServerType, NEW pub \in Certs \cup {None}, NEW priv \in Keys \cup {None},
         SetContext(pub, priv)
  PROVE  /\ ContextType'
         /\ \A k \in Kinds :
              /\ certificate'[k] = IF pub # None /\ k = KindOfCert(pub) THEN pub
                                   ELSE certificate[k]
              /\ key'[k] = IF pub = None THEN key[k]
                           ELSE IF Taken(pub, priv) /\ k = KindOf[priv] THEN priv
                           ELSE IF k = KindOfCert(pub) /\ key[k] # KeyOf[pub] THEN None
                           ELSE key[k]
<1> DEFINE c == Configured(pub, priv).context
<1>0. certificate' = c.certificate /\ key' = c.key /\ current' = c.current
  BY DEF SetContext
<1> HIDE DEF c
<1>1. CASE pub = None
  <2>1. c = Context
    BY <1>1, NoCertificate DEF c
  <2>2. certificate' = certificate /\ key' = key /\ current' = current
    BY <1>0, <2>1 DEF Context
  <2> QED BY <1>1, <2>2 DEF ServerType, ContextType
<1>2. CASE pub # None
  <2>1. pub \in Certs /\ KindOfCert(pub) \in Kinds /\ KeyOf[pub] \in Keys
    BY <1>2, KindsOf
  <2>2. /\ Replaced(pub) \in [Kinds -> Certs \cup {None}]
        /\ Kept(pub) \in [Kinds -> Keys \cup {None}]
    BY <2>1 DEF ServerType, ContextType, Replaced, Kept
  <2>3. \A k \in Kinds :
          /\ Replaced(pub)[k] = IF k = KindOfCert(pub) THEN pub ELSE certificate[k]
          /\ Kept(pub)[k] = IF k = KindOfCert(pub) /\ key[k] # KeyOf[pub] THEN None
                            ELSE key[k]
    BY <2>1 DEF ServerType, ContextType, Replaced, Kept
  <2>5. CASE ~Taken(pub, priv)
    <3>1. certificate' = Replaced(pub) /\ key' = Kept(pub)
          /\ current' = KindOfCert(pub)
      <4>1. c = [certificate |-> Replaced(pub), key |-> Kept(pub),
                 current |-> KindOfCert(pub)]
        BY <1>2, <2>5, KeyRefused, Zenon DEF c
      <4> QED BY <1>0, <4>1
    <3> QED BY <1>2, <2>1, <2>2, <2>3, <2>5, <3>1 DEF ContextType
  <2>6. CASE Taken(pub, priv)
    <3>1. priv \in Keys /\ KindOf[priv] \in Kinds
      BY <2>6, KindsOf DEF Taken
    <3>2. /\ certificate' = Replaced(pub)
          /\ key' = [Kept(pub) EXCEPT ![KindOf[priv]] = priv]
          /\ current' = KindOf[priv]
      <4>1. c = [certificate |-> Replaced(pub),
                 key |-> [Kept(pub) EXCEPT ![KindOf[priv]] = priv],
                 current |-> KindOf[priv]]
        BY <1>2, <2>6, KeySet, Zenon DEF c
      <4> QED BY <1>0, <4>1
    <3> QED BY <1>2, <2>1, <2>2, <2>3, <2>6, <3>1, <3>2 DEF ContextType
  <2> QED BY <2>5, <2>6
<1> QED BY <1>1, <1>2

(* When listen() goes on, the key is one that fits, in an entry that has   *)
(* its certificate.                                                        *)
LEMMA Accepted ==
  ASSUME ServerType, NEW pub \in Certs \cup {None}, NEW priv \in Keys \cup {None},
         Configured(pub, priv).ok
  PROVE  /\ pub \in Certs /\ priv \in Keys
         /\ Taken(pub, priv)
         /\ Replaced(pub)[KindOf[priv]] \in Certs
         /\ KeyOf[Replaced(pub)[KindOf[priv]]] = priv
         /\ KindOf[priv] = KindOfCert(pub) => priv = KeyOf[pub]
<1>1. pub # None /\ Taken(pub, priv)
  BY NoCertificate, KeyRefused
<1>2. /\ pub \in Certs /\ KindOfCert(pub) \in Kinds /\ KeyOf[pub] \in Keys
      /\ priv \in Keys /\ KindOf[priv] \in Kinds
  BY <1>1, KindsOf DEF Taken
<1>3. Replaced(pub)[KindOf[priv]] # None
  BY <1>1, KeySet
<1>4. Replaced(pub) \in [Kinds -> Certs \cup {None}]
  BY <1>2 DEF ServerType, ContextType, Replaced
<1>5. KeyOf[Replaced(pub)[KindOf[priv]]] = priv
  BY <1>1, <1>3 DEF Taken
<1>6. Replaced(pub)[KindOfCert(pub)] = pub
  BY <1>2 DEF ServerType, ContextType, Replaced
<1> QED BY <1>1, <1>2, <1>3, <1>4, <1>5, <1>6

(* The entries stay of their kind, whatever files are given. *)
LEMMA EntriesStayFit ==
  ASSUME ServerType, EntriesFit,
         NEW pub \in Certs \cup {None}, NEW priv \in Keys \cup {None},
         SetContext(pub, priv)
  PROVE  EntriesFit'
<1> SUFFICES ASSUME NEW k \in Kinds
             PROVE  /\ certificate'[k] # None => KindOfCert(certificate'[k]) = k
                    /\ key'[k] # None => KindOf[key'[k]] = k
                    /\ certificate'[k] # None /\ key'[k] # None
                         => key'[k] = KeyOf[certificate'[k]]
  BY DEF EntriesFit, KindOfCert
<1>1. /\ certificate[k] # None => KindOfCert(certificate[k]) = k
      /\ key[k] # None => KindOf[key[k]] = k
      /\ certificate[k] # None /\ key[k] # None => key[k] = KeyOf[certificate[k]]
  BY DEF EntriesFit
<1>2. CASE pub = None
  BY <1>1, <1>2, EntriesAfter
<1>3. CASE pub # None
  <2>1. pub \in Certs /\ KindOfCert(pub) \in Kinds /\ KeyOf[pub] \in Keys
    BY <1>3, KindsOf
  <2>2. certificate'[k] = IF k = KindOfCert(pub) THEN pub ELSE certificate[k]
    BY <1>3, EntriesAfter
  <2>3. key'[k] = IF Taken(pub, priv) /\ k = KindOf[priv] THEN priv
                  ELSE IF k = KindOfCert(pub) /\ key[k] # KeyOf[pub] THEN None
                  ELSE key[k]
    BY <1>3, EntriesAfter
  <2>4. certificate'[k] # None => KindOfCert(certificate'[k]) = k
    BY <1>1, <2>2
  <2>5. key'[k] # None => KindOf[key'[k]] = k
    BY <1>1, <2>3
  <2>6. CASE Taken(pub, priv) /\ k = KindOf[priv]
    <3>1. Replaced(pub)[k] = certificate'[k]
      BY <2>1, <2>2 DEF Replaced, ServerType, ContextType
    <3> QED BY <2>3, <2>4, <2>5, <2>6, <3>1 DEF Taken
  <2>7. CASE ~(Taken(pub, priv) /\ k = KindOf[priv])
    BY <1>1, <2>1, <2>2, <2>3, <2>4, <2>5, <2>7 DEF KindOfCert
  <2> QED BY <2>4, <2>5, <2>6, <2>7
<1> QED BY <1>2, <1>3
-----------------------------------------------------------------------------
(* The history of the context: a call leaves an entry as it was or marks   *)
(* it as changed by itself, and remembers a certificate without its key.   *)
LEMMA HistoryAfter ==
  ASSUME ServerType, NEW pub \in Certs \cup {None}, NEW priv \in Keys \cup {None},
         SetContext(pub, priv)
  PROVE  /\ calls' = calls + 1 /\ calls' \in Nat
         /\ changed' \in [Kinds -> 0..calls']
         /\ \A k \in Kinds :
              \/ changed'[k] = calls'
              \/ /\ changed'[k] = changed[k]
                 /\ certificate'[k] = certificate[k] /\ key'[k] = key[k]
         /\ misgiven' \subseteq Kinds /\ misgiven \subseteq misgiven'
         /\ pub \in Certs /\ priv # KeyOf[pub] => KindOfCert(pub) \in misgiven'
<1> DEFINE c == Configured(pub, priv).context
<1>0. certificate' = c.certificate /\ key' = c.key
  BY DEF SetContext
<1>1. changed' = [k \in Kinds |-> IF Entry(c, k) # Entry(Context, k) THEN calls'
                                  ELSE changed[k]]
  BY DEF SetContext
<1>2. \A k \in Kinds : Entry(c, k) = Entry(Context, k)
                         => certificate'[k] = certificate[k] /\ key'[k] = key[k]
  BY <1>0 DEF Entry, Context
<1> HIDE DEF c
<1>3. calls' = calls + 1 /\ calls \in Nat
  BY DEF SetContext, ServerType
<1>4. changed' \in [Kinds -> 0..calls']
  BY <1>1, <1>3 DEF ServerType
<1>5. misgiven' = misgiven \cup (IF pub # None /\ priv # KeyOf[pub]
                                 THEN {KindOfCert(pub)} ELSE {})
  BY DEF SetContext, KindOfCert
<1>6. misgiven' \subseteq Kinds
  BY <1>5, KindsOf DEF ServerType
<1> QED BY <1>1, <1>2, <1>3, <1>4, <1>5, <1>6, KindsOf

(* What Adopt leaves of the other servers, and of its own. *)
LEMMA AdoptAfter ==
  ASSUME ServerType, NEW s \in Servers, NEW pub \in Certs, NEW priv \in Keys,
         SetContext(pub, priv), Adopt(s, pub, priv)
  PROVE  /\ listening' \in [Servers -> BOOLEAN]
         /\ since' \in [Servers -> 0..calls']
         /\ m_pubkey_path' \in [Servers -> Certs \cup {None}]
         /\ m_privkey_path' \in [Servers -> Keys \cup {None}]
         /\ m_pubkey_path'[s] = pub /\ m_privkey_path'[s] = priv
         /\ since'[s] = calls'
         /\ \A r \in Servers \ {s} :
              /\ listening'[r] = listening[r] /\ since'[r] = since[r]
              /\ m_pubkey_path'[r] = m_pubkey_path[r]
              /\ m_privkey_path'[r] = m_privkey_path[r]
<1>1. calls' = calls + 1 /\ calls' \in Nat /\ calls \in Nat
  BY HistoryAfter DEF ServerType
<1>2. since' \in [Servers -> 0..calls']
  BY <1>1 DEF Adopt, ServerType
<1> QED BY <1>2 DEF Adopt, ServerType

(* An operation that moves servers about: each that is left has what one   *)
(* had, or nothing.                                                        *)
Inherits ==
  /\ UNCHANGED <<context, history>>
  /\ alive' \subseteq Servers
  /\ listening' \in [Servers -> BOOLEAN]
  /\ since' \in [Servers -> 0..calls']
  /\ m_pubkey_path' \in [Servers -> Certs \cup {None}]
  /\ m_privkey_path' \in [Servers -> Keys \cup {None}]
  /\ \A s \in Servers :
       \/ ~listening'[s] /\ since'[s] = 0
       \/ \E r \in Servers :
            /\ listening'[s] = listening[r] /\ since'[s] = since[r]
            /\ m_pubkey_path'[s] = m_pubkey_path[r]
            /\ m_privkey_path'[s] = m_privkey_path[r]

LEMMA Movements ==
  ASSUME ServerType, NEW s \in Servers, NEW r \in Servers,
         Construct(s) \/ Destroy(s) \/ Accept(s) \/ MoveConstruct(s, r)
           \/ MoveAssign(s, r) \/ UNCHANGED server_vars
  PROVE  Inherits
<1> USE DEF ServerType
<1>1. CASE Construct(s)
  BY <1>1 DEF Construct, Inherits, socket, paths, history
<1>2. CASE Destroy(s)
  <2>1. 0 \in 0..calls /\ calls' = calls
    BY <1>2 DEF Destroy, history
  <2>2. \A t \in Servers :
          \/ t = s /\ ~listening'[t] /\ since'[t] = 0
          \/ /\ listening'[t] = listening[t] /\ since'[t] = since[t]
             /\ m_pubkey_path'[t] = m_pubkey_path[t]
             /\ m_privkey_path'[t] = m_privkey_path[t]
    BY <1>2 DEF Destroy
  <2>3. /\ alive' \subseteq Servers
        /\ listening' \in [Servers -> BOOLEAN] /\ since' \in [Servers -> 0..calls']
        /\ m_pubkey_path' \in [Servers -> Certs \cup {None}]
        /\ m_privkey_path' \in [Servers -> Keys \cup {None}]
    BY <1>2, <2>1 DEF Destroy
  <2> QED BY <1>2, <2>2, <2>3 DEF Destroy, Inherits
<1>3. CASE Accept(s)
  BY <1>3 DEF Accept, Inherits, socket, paths, history
<1>4. CASE MoveConstruct(s, r)
  <2>1. 0 \in 0..calls /\ calls' = calls /\ s # r
    BY <1>4 DEF MoveConstruct, history
  <2>2. \A t \in Servers :
          \/ t = r /\ ~listening'[t] /\ since'[t] = 0
          \/ \E u \in {t, r} :
               /\ listening'[t] = listening[u] /\ since'[t] = since[u]
               /\ m_pubkey_path'[t] = m_pubkey_path[u]
               /\ m_privkey_path'[t] = m_privkey_path[u]
    <3> TAKE t \in Servers
    <3>1. CASE t = r
      BY <1>4, <2>1, <3>1 DEF MoveConstruct
    <3>2. CASE t = s
      BY <1>4, <2>1, <3>2 DEF MoveConstruct
    <3>3. CASE t \notin {r, s}
      BY <1>4, <2>1, <3>3 DEF MoveConstruct
    <3> QED BY <3>1, <3>2, <3>3
  <2>3. /\ alive' \subseteq Servers
        /\ listening' \in [Servers -> BOOLEAN] /\ since' \in [Servers -> 0..calls']
        /\ m_pubkey_path' \in [Servers -> Certs \cup {None}]
        /\ m_privkey_path' \in [Servers -> Keys \cup {None}]
    BY <1>4, <2>1 DEF MoveConstruct
  <2>4. \A t \in Servers :
          \/ ~listening'[t] /\ since'[t] = 0
          \/ \E u \in Servers :
               /\ listening'[t] = listening[u] /\ since'[t] = since[u]
               /\ m_pubkey_path'[t] = m_pubkey_path[u]
               /\ m_privkey_path'[t] = m_privkey_path[u]
    <3> TAKE t \in Servers
    <3>1. \A u \in {t, r} : u \in Servers
      OBVIOUS
    <3>2. CASE t = r /\ ~listening'[t] /\ since'[t] = 0
      BY <3>2, Zenon
    <3>3. CASE \E u \in {t, r} :
                 /\ listening'[t] = listening[u] /\ since'[t] = since[u]
                 /\ m_pubkey_path'[t] = m_pubkey_path[u]
                 /\ m_privkey_path'[t] = m_privkey_path[u]
      BY <3>1, <3>3, Zenon
    <3> QED BY <2>2, <3>2, <3>3, Zenon
  <2>5. UNCHANGED <<context, history>>
    BY <1>4, Zenon DEF MoveConstruct
  <2> QED BY <2>3, <2>4, <2>5, Zenon DEF Inherits
<1>5. CASE MoveAssign(s, r)
  BY <1>5 DEF MoveAssign, Swapped, Inherits, history
<1>6. CASE UNCHANGED server_vars
  BY <1>6 DEF server_vars, Inherits, socket, paths, history
<1> QED BY <1>1, <1>2, <1>3, <1>4, <1>5, <1>6

(* The operations, by what they do to the context. *)
LEMMA Operations ==
  ASSUME ServerType, [ServerNext]_server_vars
  PROVE  \/ Inherits
         \/ \E pub \in Certs \cup {None}, priv \in Keys \cup {None} :
              ListenThrows(pub, priv)
         \/ \E s \in Servers, pub \in Certs, priv \in Keys :
              /\ Configured(pub, priv).ok
              /\ SetContext(pub, priv) /\ Adopt(s, pub, priv)
              /\ alive' \subseteq Servers
<1>1. CASE UNCHANGED server_vars
  BY <1>1 DEF server_vars, Inherits, socket, paths, history, ServerType
<1>2. CASE \E s \in Servers :
             \/ Construct(s) \/ Destroy(s) \/ Accept(s)
             \/ \E r \in Servers : MoveConstruct(s, r) \/ MoveAssign(s, r)
  BY <1>2, Movements
<1>3. CASE \E s \in Servers, pub \in Certs \cup {None}, priv \in Keys \cup {None} :
             Listen(s, pub, priv) \/ ConstructListening(s, pub, priv)
  <2>1. PICK s \in Servers, pub \in Certs \cup {None}, priv \in Keys \cup {None} :
          Listen(s, pub, priv) \/ ConstructListening(s, pub, priv)
    BY <1>3
  <2>2. /\ Configured(pub, priv).ok /\ SetContext(pub, priv) /\ Adopt(s, pub, priv)
        /\ alive' \subseteq Servers
    BY <2>1 DEF Listen, ConstructListening, ServerType
  <2>3. pub \in Certs /\ priv \in Keys
    BY <2>2, Accepted
  <2> QED BY <2>2, <2>3
<1> QED BY <1>1, <1>2, <1>3, Zenon DEF ServerNext

(* Every variable stays in its range, and a server that listens has files. *)
LEMMA TypeStep ==
  ServerType /\ ListenersHaveFiles /\ [ServerNext]_server_vars
    => ServerType' /\ ListenersHaveFiles'
<1> SUFFICES ASSUME ServerType, ListenersHaveFiles, [ServerNext]_server_vars
             PROVE  ServerType' /\ ListenersHaveFiles'
  OBVIOUS
<1>1. CASE Inherits
  <2>1. ServerType'
    BY <1>1 DEF Inherits, ServerType, ContextType, context, history
  <2> QED BY <1>1, <2>1 DEF Inherits, ListenersHaveFiles
<1>2. ASSUME NEW pub \in Certs \cup {None}, NEW priv \in Keys \cup {None},
             ListenThrows(pub, priv)
      PROVE  ServerType' /\ ListenersHaveFiles'
  <2>1. SetContext(pub, priv) /\ UNCHANGED <<alive, socket, paths>>
    BY <1>2 DEF ListenThrows
  <2>2. /\ ContextType' /\ calls' = calls + 1 /\ calls' \in Nat
        /\ changed' \in [Kinds -> 0..calls'] /\ misgiven' \subseteq Kinds
    BY <2>1, EntriesAfter, HistoryAfter
  <2>3. since' \in [Servers -> 0..calls']
    BY <2>1, <2>2 DEF ServerType, socket
  <2> QED BY <2>1, <2>2, <2>3 DEF ServerType, ListenersHaveFiles, socket, paths
<1>3. ASSUME NEW s \in Servers, NEW pub \in Certs, NEW priv \in Keys,
             SetContext(pub, priv), Adopt(s, pub, priv), alive' \subseteq Servers
      PROVE  ServerType' /\ ListenersHaveFiles'
  <2>2. /\ ContextType' /\ calls' \in Nat
        /\ changed' \in [Kinds -> 0..calls'] /\ misgiven' \subseteq Kinds
    BY <1>3, EntriesAfter, HistoryAfter
  <2>3. ServerType'
    BY <1>3, <2>2, AdoptAfter DEF ServerType
  <2>4. ListenersHaveFiles'
    BY <1>3, AdoptAfter DEF ListenersHaveFiles
  <2> QED BY <2>3, <2>4
<1> QED BY <1>1, <1>2, <1>3, Operations
-----------------------------------------------------------------------------
ServerInv ==
  ServerType /\ EntriesFit /\ ListenersHaveFiles /\ UntouchedIsTheirs /\ GoodFilesSuffice

LEMMA InitServer == ServerInit => ServerInv
<1> SUFFICES ASSUME ServerInit PROVE ServerInv
  OBVIOUS
<1>1. ServerType
  BY ServerAssumption DEF ServerInit, ServerType, ContextType
<1>2. EntriesFit
  BY DEF ServerInit, EntriesFit
<1>3. \A s \in Servers : ~listening[s]
  BY DEF ServerInit
<1> QED
  BY <1>1, <1>2, <1>3
     DEF ServerInv, ListenersHaveFiles, UntouchedIsTheirs, GoodFilesSuffice

LEMMA EntriesStep ==
  ServerType /\ EntriesFit /\ [ServerNext]_server_vars => EntriesFit'
<1> SUFFICES ASSUME ServerType, EntriesFit, [ServerNext]_server_vars PROVE EntriesFit'
  OBVIOUS
<1>1. CASE Inherits
  BY <1>1 DEF Inherits, EntriesFit, KindOfCert, context
<1>2. ASSUME NEW pub \in Certs \cup {None}, NEW priv \in Keys \cup {None},
             SetContext(pub, priv)
      PROVE  EntriesFit'
  BY <1>2, EntriesStayFit
<1> QED BY <1>1, <1>2, Operations DEF ListenThrows

(* A call marks each entry it changes, so an entry that was not marked     *)
(* since a server began to listen is what it was then.                     *)
LEMMA UntouchedStep ==
  ServerType /\ ListenersHaveFiles /\ UntouchedIsTheirs /\ [ServerNext]_server_vars
    => UntouchedIsTheirs'
<1> SUFFICES ASSUME ServerType, ListenersHaveFiles, UntouchedIsTheirs,
                    [ServerNext]_server_vars,
                    NEW s \in Servers,
                    listening'[s], Fits(s)', changed'[Kind(s)'] <= since'[s]
             PROVE  /\ certificate'[Kind(s)'] = m_pubkey_path'[s]
                    /\ key'[Kind(s)'] = m_privkey_path'[s]
  BY DEF UntouchedIsTheirs
<1>0. m_pubkey_path'[s] \in Certs /\ m_privkey_path'[s] = KeyOf[m_pubkey_path'[s]]
  BY DEF Fits
<1>k. Kind(s)' = KindOfCert(m_pubkey_path'[s]) /\ Kind(s)' \in Kinds
  BY <1>0, KindsOf DEF Kind, KindOfCert
<1>u. ASSUME NEW r \in Servers, listening[r],
             m_pubkey_path'[s] = m_pubkey_path[r], m_privkey_path'[s] = m_privkey_path[r],
             changed[Kind(s)'] <= since[r]
      PROVE  /\ certificate[Kind(s)'] = m_pubkey_path'[s]
             /\ key[Kind(s)'] = m_privkey_path'[s]
  <2>1. Fits(r) /\ Kind(r) = Kind(s)'
    BY <1>0, <1>k, <1>u DEF Fits, Kind, KindOfCert
  <2> QED BY <1>u, <2>1 DEF UntouchedIsTheirs
<1>1. CASE Inherits
  <2>1. UNCHANGED <<certificate, key, changed>>
    BY <1>1 DEF Inherits, context, history
  <2>2. PICK r \in Servers :
          /\ listening'[s] = listening[r] /\ since'[s] = since[r]
          /\ m_pubkey_path'[s] = m_pubkey_path[r]
          /\ m_privkey_path'[s] = m_privkey_path[r]
    BY <1>1 DEF Inherits
  <2> QED BY <1>u, <2>1, <2>2
<1>2. ASSUME NEW pub \in Certs \cup {None}, NEW priv \in Keys \cup {None},
             SetContext(pub, priv),
             NEW r \in Servers, listening[r], since'[s] = since[r],
             m_pubkey_path'[s] = m_pubkey_path[r], m_privkey_path'[s] = m_privkey_path[r]
      PROVE  /\ certificate'[Kind(s)'] = m_pubkey_path'[s]
             /\ key'[Kind(s)'] = m_privkey_path'[s]
  <2>1. calls' = calls + 1 /\ since[r] \in 0..calls /\ calls \in Nat
    BY <1>2, HistoryAfter DEF ServerType
  <2>2. changed'[Kind(s)'] # calls'
    BY <1>2, <2>1
  <2>3. /\ changed'[Kind(s)'] = changed[Kind(s)']
        /\ certificate'[Kind(s)'] = certificate[Kind(s)']
        /\ key'[Kind(s)'] = key[Kind(s)']
    BY <1>2, <1>k, <2>2, HistoryAfter
  <2> QED BY <1>2, <1>u, <2>3
<1>3. ASSUME NEW pub \in Certs \cup {None}, NEW priv \in Keys \cup {None},
             ListenThrows(pub, priv)
      PROVE  /\ certificate'[Kind(s)'] = m_pubkey_path'[s]
             /\ key'[Kind(s)'] = m_privkey_path'[s]
  <2>1. /\ SetContext(pub, priv) /\ listening' = listening /\ since' = since
        /\ m_pubkey_path' = m_pubkey_path /\ m_privkey_path' = m_privkey_path
    BY <1>3 DEF ListenThrows, socket, paths
  <2> QED BY <1>2, <2>1
<1>4. ASSUME NEW t \in Servers, NEW pub \in Certs, NEW priv \in Keys,
             Configured(pub, priv).ok, SetContext(pub, priv), Adopt(t, pub, priv)
      PROVE  /\ certificate'[Kind(s)'] = m_pubkey_path'[s]
             /\ key'[Kind(s)'] = m_privkey_path'[s]
  <2>1. CASE s = t
    <3>1. m_pubkey_path'[s] = pub /\ m_privkey_path'[s] = priv
      BY <1>4, <2>1, AdoptAfter
    <3>2. priv = KeyOf[pub] /\ Kind(s)' = KindOfCert(pub) /\ KindOf[priv] = Kind(s)'
      BY <1>0, <1>k, <3>1 DEF KindOfCert
    <3>3. Taken(pub, priv)
      BY <1>4, Accepted
    <3>4. certificate'[Kind(s)'] = pub /\ key'[Kind(s)'] = priv
      BY <1>4, <1>k, <3>2, <3>3, EntriesAfter, KindsOf
    <3> QED BY <3>1, <3>4
  <2>2. CASE s # t
    <3>1. /\ listening'[s] = listening[s] /\ since'[s] = since[s]
          /\ m_pubkey_path'[s] = m_pubkey_path[s]
          /\ m_privkey_path'[s] = m_privkey_path[s]
      BY <1>4, <2>2, AdoptAfter
    <3> QED BY <1>2, <1>4, <3>1
  <2> QED BY <2>1, <2>2
<1> QED BY <1>1, <1>3, <1>4, Operations

(* A certificate without its key is remembered; any other call that sets a *)
(* certificate sets its key too.                                           *)
LEMMA GoodFilesStep ==
  ServerType /\ ListenersHaveFiles /\ GoodFilesSuffice /\ [ServerNext]_server_vars
    => GoodFilesSuffice'
<1> SUFFICES ASSUME ServerType, ListenersHaveFiles, GoodFilesSuffice,
                    [ServerNext]_server_vars,
                    NEW s \in Servers, listening'[s], Kind(s)' \notin misgiven'
             PROVE  certificate'[Kind(s)'] # None /\ key'[Kind(s)'] # None
  BY DEF GoodFilesSuffice
<1>0. m_pubkey_path'[s] \in Certs
  BY TypeStep DEF ListenersHaveFiles
<1>k. Kind(s)' = KindOfCert(m_pubkey_path'[s]) /\ Kind(s)' \in Kinds
  BY <1>0, KindsOf DEF Kind, KindOfCert
<1>u. ASSUME NEW r \in Servers, listening[r], m_pubkey_path'[s] = m_pubkey_path[r],
             Kind(s)' \notin misgiven
      PROVE  certificate[Kind(s)'] # None /\ key[Kind(s)'] # None
  <2>1. Kind(r) = Kind(s)'
    BY <1>k, <1>u DEF Kind, KindOfCert
  <2> QED BY <1>u, <2>1 DEF GoodFilesSuffice
<1>1. CASE Inherits
  <2>1. UNCHANGED <<certificate, key, misgiven>>
    BY <1>1 DEF Inherits, context, history
  <2>2. PICK r \in Servers :
          listening'[s] = listening[r] /\ m_pubkey_path'[s] = m_pubkey_path[r]
    BY <1>1 DEF Inherits
  <2> QED BY <1>u, <2>1, <2>2
<1>c. ASSUME NEW pub \in Certs \cup {None}, NEW priv \in Keys \cup {None},
             SetContext(pub, priv),
             \/ pub \in Certs /\ Kind(s)' = KindOfCert(pub) /\ Taken(pub, priv)
             \/ certificate[Kind(s)'] # None /\ key[Kind(s)'] # None
      PROVE  certificate'[Kind(s)'] # None /\ key'[Kind(s)'] # None
  <2>1. pub \in Certs /\ Kind(s)' = KindOfCert(pub) => priv = KeyOf[pub]
    BY <1>c, HistoryAfter
  <2>2. /\ certificate'[Kind(s)'] = IF pub # None /\ Kind(s)' = KindOfCert(pub) THEN pub
                                    ELSE certificate[Kind(s)']
        /\ key'[Kind(s)'] = IF pub = None THEN key[Kind(s)']
             ELSE IF Taken(pub, priv) /\ Kind(s)' = KindOf[priv] THEN priv
             ELSE IF Kind(s)' = KindOfCert(pub) /\ key[Kind(s)'] # KeyOf[pub] THEN None
             ELSE key[Kind(s)']
    BY <1>c, <1>k, EntriesAfter
  <2>3. CASE pub = None
    BY <1>c, <2>2, <2>3, KindsOf
  <2>4. CASE pub \in Certs /\ Kind(s)' # KindOfCert(pub)
    BY <1>c, <2>2, <2>4, KindsOf DEF Taken
  <2>5. CASE pub \in Certs /\ Kind(s)' = KindOfCert(pub)
    <3>1. priv = KeyOf[pub] /\ KindOf[priv] = Kind(s)' /\ priv \in Keys
      BY <2>1, <2>5, KindsOf DEF KindOfCert
    <3>2. Replaced(pub)[KindOf[priv]] = pub
      BY <2>5, <1>k, <3>1 DEF Replaced, ServerType, ContextType
    <3>3. Taken(pub, priv)
      BY <3>1, <3>2, KindsOf DEF Taken
    <3> QED BY <2>2, <2>5, <3>1, <3>3, KindsOf
  <2> QED BY <2>3, <2>4, <2>5
<1>2. ASSUME NEW pub \in Certs \cup {None}, NEW priv \in Keys \cup {None},
             ListenThrows(pub, priv)
      PROVE  certificate'[Kind(s)'] # None /\ key'[Kind(s)'] # None
  <2>1. /\ SetContext(pub, priv) /\ listening' = listening
        /\ m_pubkey_path' = m_pubkey_path
    BY <1>2 DEF ListenThrows, socket, paths
  <2>2. Kind(s)' \notin misgiven
    BY <2>1, HistoryAfter
  <2> QED BY <1>u, <1>c, <2>1, <2>2
<1>3. ASSUME NEW t \in Servers, NEW pub \in Certs, NEW priv \in Keys,
             Configured(pub, priv).ok, SetContext(pub, priv), Adopt(t, pub, priv)
      PROVE  certificate'[Kind(s)'] # None /\ key'[Kind(s)'] # None
  <2>1. Taken(pub, priv)
    BY <1>3, Accepted
  <2>2. Kind(s)' \notin misgiven
    BY <1>3, HistoryAfter
  <2>3. CASE s = t
    <3>1. m_pubkey_path'[s] = pub
      BY <1>3, <2>3, AdoptAfter
    <3> QED BY <1>3, <1>k, <1>c, <2>1, <3>1
  <2>4. CASE s # t
    <3>1. listening'[s] = listening[s] /\ m_pubkey_path'[s] = m_pubkey_path[s]
      BY <1>3, <2>4, AdoptAfter
    <3> QED BY <1>3, <1>u, <1>c, <2>2, <3>1
  <2> QED BY <2>3, <2>4
<1> QED BY <1>1, <1>2, <1>3, Operations
LEMMA ServerStep == ServerInv /\ [ServerNext]_server_vars => ServerInv'
  BY TypeStep, EntriesStep, UntouchedStep, GoodFilesStep DEF ServerInv

LEMMA ServerInvariant == ServerSpec => []ServerInv
  BY InitServer, ServerStep, PTL DEF ServerSpec

(* Every variable of the servers and of their context stays in its range,  *)
(* and every entry of the context is of its kind, with a key that fits.    *)
THEOREM EntriesAreFitting == ServerSpec => [](ServerType /\ EntriesFit)
<1>1. ServerInv => ServerType /\ EntriesFit
  BY DEF ServerInv
<1> QED BY <1>1, ServerInvariant, PTL

(* A server that listens can serve, unless a certificate of its kind was   *)
(* given without its key, whatever listen() calls fail.                    *)
THEOREM ServersCanServe == ServerSpec => []GoodFilesSuffice
<1>1. ServerInv => GoodFilesSuffice
  BY DEF ServerInv
<1> QED BY <1>1, ServerInvariant, PTL

(* A client is shown its server's certificate as long as no later call     *)
(* changed what the context has of that kind.                              *)
THEOREM ClientsAreShownTheirServer == ServerSpec => ClientsSeeTheirServer
<1>1. ASSUME ServerInv, [ServerNext]_server_vars, accepted' # accepted
      PROVE  LET s == accepted'.server
             IN Fits(s) /\ changed[Kind(s)] <= since[s]
                  => /\ m_pubkey_path[s] \in accepted'.shows
                     /\ \A c \in accepted'.shows \ {m_pubkey_path[s]} :
                          KindOf[KeyOf[c]] # Kind(s)
  <2>1. PICK s \in Servers : Accept(s)
    BY <1>1 DEF ServerNext, server_vars, Construct, Destroy, MoveConstruct, MoveAssign,
                Listen, ConstructListening, ListenThrows
  <2>2. /\ listening[s] /\ accepted'.server = s
        /\ accepted'.shows
             = {certificate[k] : k \in {k \in Kinds : key[k] # None}} \ {None}
    BY <2>1 DEF Accept
  <2>3. SUFFICES ASSUME Fits(s), changed[Kind(s)] <= since[s]
                 PROVE  /\ m_pubkey_path[s] \in accepted'.shows
                        /\ \A c \in accepted'.shows \ {m_pubkey_path[s]} :
                             KindOf[KeyOf[c]] # Kind(s)
    BY <2>2
  <2>4. /\ certificate[Kind(s)] = m_pubkey_path[s] /\ key[Kind(s)] = m_privkey_path[s]
        /\ m_pubkey_path[s] \in Certs /\ m_privkey_path[s] \in Keys /\ Kind(s) \in Kinds
    BY <1>1, <2>2, <2>3, KindsOf
       DEF ServerInv, UntouchedIsTheirs, ListenersHaveFiles, Kind, KindOfCert
  <2>5. m_pubkey_path[s] \in accepted'.shows
    BY <2>2, <2>4, KindsOf
  <2>6. ASSUME NEW c \in accepted'.shows, c # m_pubkey_path[s]
        PROVE  KindOf[KeyOf[c]] # Kind(s)
    <3>1. PICK k \in Kinds : c = certificate[k] /\ c # None
      BY <2>2, <2>6
    <3>2. KindOfCert(c) = k
      BY <1>1, <3>1 DEF ServerInv, EntriesFit
    <3> QED BY <2>4, <2>6, <3>1, <3>2 DEF KindOfCert
  <2> QED BY <2>5, <2>6
<1>2. ServerInv /\ [ServerNext]_server_vars
        => [accepted' # accepted =>
              LET s == accepted'.server
              IN Fits(s) /\ changed[Kind(s)] <= since[s]
                   => /\ m_pubkey_path[s] \in accepted'.shows
                      /\ \A c \in accepted'.shows \ {m_pubkey_path[s]} :
                           KindOf[KeyOf[c]] # Kind(s)]_server_vars
  BY <1>1
<1> QED BY <1>2, ServerInvariant, PTL DEF ServerSpec, ClientsSeeTheirServer

(* A key that does not fit is refused, unless it is of another kind and an *)
(* earlier call left its own certificate in the context.                   *)
THEOREM MismatchesAreRefused == ServerSpec => MismatchNeedsLeftover
<1> DEFINE Leftover(s) ==
      \E c \in Certs : LET k == KindOf[KeyOf[c]]
                       IN /\ m_privkey_path'[s] = KeyOf[c]
                          /\ k # Kind(s)' /\ certificate[k] = c
<1>1. ASSUME ServerInv, [ServerNext]_server_vars,
             NEW s \in Servers, since'[s] > calls, ~Fits(s)'
      PROVE  Leftover(s)
  <2>0. ServerType
    BY <1>1 DEF ServerInv
  <2>1. ~Inherits
    <3> SUFFICES ASSUME Inherits PROVE FALSE
      OBVIOUS
    <3>1. since'[s] \in 0..calls
      BY DEF Inherits, history
    <3> QED BY <1>1, <2>0, <3>1 DEF ServerType
  <2>2. ~\E pub \in Certs \cup {None}, priv \in Keys \cup {None} : ListenThrows(pub, priv)
    <3> SUFFICES ASSUME NEW pub \in Certs \cup {None}, NEW priv \in Keys \cup {None},
                        ListenThrows(pub, priv)
                 PROVE  FALSE
      OBVIOUS
    <3>1. since' = since
      BY DEF ListenThrows, socket
    <3> QED BY <1>1, <2>0, <3>1 DEF ServerType
  <2>3. PICK t \in Servers, pub \in Certs, priv \in Keys :
          Configured(pub, priv).ok /\ SetContext(pub, priv) /\ Adopt(t, pub, priv)
    BY <1>1, <2>0, <2>1, <2>2, Operations
  <2>4. s = t
    <3> SUFFICES ASSUME s # t PROVE FALSE
      OBVIOUS
    <3>1. since'[s] = since[s]
      BY <2>0, <2>3, AdoptAfter
    <3> QED BY <1>1, <2>0, <3>1 DEF ServerType
  <2>5. m_pubkey_path'[s] = pub /\ m_privkey_path'[s] = priv
    BY <2>0, <2>3, <2>4, AdoptAfter
  <2>6. priv # KeyOf[pub] /\ Kind(s)' = KindOfCert(pub)
    BY <1>1, <2>5 DEF Fits, Kind, KindOfCert
  <2>7. /\ Replaced(pub)[KindOf[priv]] \in Certs
        /\ KeyOf[Replaced(pub)[KindOf[priv]]] = priv
        /\ KindOf[priv] # KindOfCert(pub)
    BY <2>0, <2>3, <2>6, Accepted
  <2>8. Replaced(pub)[KindOf[priv]] = certificate[KindOf[priv]]
    BY <2>0, <2>7, KindsOf DEF Replaced, ServerType, ContextType
  <2>9. certificate[KindOf[priv]] \in Certs
    BY <2>7, <2>8
  <2> QED BY <2>5, <2>6, <2>7, <2>8, <2>9
<1>2. ServerInv /\ [ServerNext]_server_vars
        => [\A s \in Servers : since'[s] > calls /\ ~Fits(s)' => Leftover(s)]_server_vars
  BY <1>1
<1> QED BY <1>2, ServerInvariant, PTL DEF ServerSpec, MismatchNeedsLeftover
=============================================================================
