---------------------------- MODULE TlsHandshake ----------------------------
(***************************************************************************)
(* The TLS handshake between the two tls_socket objects of a connection    *)
(* (src/src/tls_socket.cpp): handshake(), which send() and receive() run   *)
(* first and which gives up after a number of retries, each object in its  *)
(* own thread; and same_thread_handshake(), where one thread lets the two  *)
(* objects take turns.  A program may fall back from one to the other.     *)
(*                                                                         *)
(* The protocol is a number of flights, made in turn by the client (the    *)
(* odd ones) and by the server: three in TLS 1.3, four in TLS 1.2.  A call *)
(* of SSL_connect or SSL_accept goes as far as what has arrived allows.    *)
(***************************************************************************)
EXTENDS Integers

CONSTANT MaxRetry   \* cfg::net::io_max_retry

ASSUME HandshakeAssumption == MaxRetry \in Nat

Sides == {"client", "server"}

Other(s) == IF s = "client" THEN "server" ELSE "client"

VARIABLES
  flights,      \* of the protocol version the two agree on
  progress,     \* flights each side has made or taken
  arrived,      \* the last flight of the other side that has arrived
  broken,       \* the connection broke
  m_handshake,
  trying,       \* inside handshake()
  retry_count,
  turn          \* inside same_thread_handshake(): whose turn; else "none"

vars == <<flights, progress, arrived, broken, m_handshake, trying, retry_count, turn>>

Init ==
  /\ flights \in {3, 4}
  /\ progress = [s \in Sides |-> 0] /\ arrived = [s \in Sides |-> 0]
  /\ broken = FALSE
  /\ m_handshake = [s \in Sides |-> IF s = "client" THEN "connect" ELSE "accept"]
  /\ trying = [s \in Sides |-> FALSE]
  /\ retry_count = [s \in Sides |-> 0]
  /\ turn = "none"
-----------------------------------------------------------------------------
(* OpenSSL and the network. *)

Maker(k) == IF k % 2 = 1 THEN "client" ELSE "server"

(* How far side s comes: it makes its flight if it is its turn, or takes   *)
(* the other's if that has arrived and answers it.                         *)
Reach(s) ==
  LET next == progress[s] + 1 IN
    IF next > flights THEN flights
    ELSE IF Maker(next) = s THEN next
    ELSE IF arrived[s] < next THEN progress[s]
    ELSE IF next = flights THEN next ELSE next + 1

Advance(s) == progress' = [progress EXCEPT ![s] = Reach(s)]

Complete(s) == progress[s] = flights

(* The last flight of its own that a side at flight k has made. *)
Made(s, k) == IF k = 0 \/ Maker(k) = s THEN k ELSE k - 1

LastMade(s) == Made(s, progress[s])

Transfer(s) ==
  /\ ~broken /\ arrived[s] < LastMade(Other(s))
  /\ arrived' = [arrived EXCEPT ![s] = LastMade(Other(s))]
  /\ UNCHANGED <<flights, progress, broken, m_handshake, trying, retry_count, turn>>

Break ==
  /\ ~broken
  /\ broken' = TRUE
  /\ UNCHANGED <<flights, progress, arrived, m_handshake, trying, retry_count, turn>>
-----------------------------------------------------------------------------
(* handshake() *)

(* No call that uses s is under way. *)
Free(s) == turn = "none" /\ ~trying[s]

Call(s) ==
  /\ Free(s) /\ m_handshake[s] # "ok"
  /\ trying' = [trying EXCEPT ![s] = TRUE]
  /\ retry_count' = [retry_count EXCEPT ![s] = 0]
  /\ UNCHANGED <<flights, progress, arrived, broken, m_handshake, turn>>

Leave(s) == trying' = [trying EXCEPT ![s] = FALSE]

(* A mutant: the end of the handshake is not written down. *)
Mut_Unrecorded(s) ==
  /\ trying[s] /\ ~broken
  /\ Advance(s)
  /\ progress'[s] = flights
  /\ Leave(s)
  /\ UNCHANGED <<flights, arrived, broken, m_handshake, retry_count, turn>>

(* SSL_connect or SSL_accept returns 1. *)
TrySucceeds(s) ==
  /\ trying[s] /\ ~broken
  /\ Advance(s)
  /\ progress'[s] = flights
  /\ m_handshake' = [m_handshake EXCEPT ![s] = "ok"]
  /\ Leave(s)
  /\ UNCHANGED <<flights, arrived, broken, retry_count, turn>>

(* A mutant: the retries are not limited. *)
Mut_NoTimeout(s) ==
  /\ trying[s] /\ ~broken
  /\ Advance(s)
  /\ progress'[s] # flights
  /\ UNCHANGED <<flights, arrived, broken, m_handshake, trying, retry_count, turn>>

(* It wants to read or to write: sleep and retry, or "Handshake timeout."  *)
TryWants(s) ==
  /\ trying[s] /\ ~broken
  /\ Advance(s)
  /\ progress'[s] # flights
  /\ IF retry_count[s] >= MaxRetry
     THEN Leave(s) /\ UNCHANGED retry_count
     ELSE retry_count' = [retry_count EXCEPT ![s] = @ + 1] /\ UNCHANGED trying
  /\ UNCHANGED <<flights, arrived, broken, m_handshake, turn>>

TryFails(s) ==
  /\ trying[s] /\ broken
  /\ Leave(s)
  /\ UNCHANGED <<flights, progress, arrived, broken, m_handshake, retry_count, turn>>
-----------------------------------------------------------------------------
(* same_thread_handshake() *)

TakeTurns ==
  /\ \A s \in Sides : Free(s)
  /\ m_handshake = [s \in Sides |-> IF s = "client" THEN "connect" ELSE "accept"]
  /\ turn' = "server"
  /\ UNCHANGED <<flights, progress, arrived, broken, m_handshake, trying, retry_count>>

BothOk == m_handshake' = [s \in Sides |-> "ok"]

(* A mutant: the loop ends when a side wants to read. *)
Mut_WantIsEnough ==
  /\ turn # "none" /\ ~broken
  /\ Advance(turn)
  /\ turn' = "none" /\ BothOk
  /\ UNCHANGED <<flights, arrived, broken, trying, retry_count>>

(* The side that is done first ends it for both. *)
TurnSucceeds ==
  /\ turn # "none" /\ ~broken
  /\ Advance(turn)
  /\ progress'[turn] = flights
  /\ turn' = "none" /\ BothOk
  /\ UNCHANGED <<flights, arrived, broken, trying, retry_count>>

(* A mutant: the same side goes on trying. *)
Mut_KeepTurn ==
  /\ turn # "none" /\ ~broken
  /\ Advance(turn)
  /\ progress'[turn] # flights
  /\ UNCHANGED <<flights, arrived, broken, m_handshake, trying, retry_count, turn>>

TurnWants ==
  /\ turn # "none" /\ ~broken
  /\ Advance(turn)
  /\ progress'[turn] # flights
  /\ turn' = Other(turn)
  /\ UNCHANGED <<flights, arrived, broken, m_handshake, trying, retry_count>>

TurnFails ==
  /\ turn # "none" /\ broken
  /\ turn' = "none"
  /\ UNCHANGED <<flights, progress, arrived, broken, m_handshake, trying, retry_count>>

(* SSL_read or SSL_write of an object that is "ok" first completes what is *)
(* left of the handshake, and without it waits for data as usual.          *)
Exchange(s) ==
  /\ Free(s) /\ m_handshake[s] = "ok"
  /\ Advance(s)
  /\ UNCHANGED <<flights, arrived, broken, m_handshake, trying, retry_count, turn>>

Try(s) == TrySucceeds(s) \/ TryWants(s) \/ TryFails(s)
Turn == TurnSucceeds \/ TurnWants \/ TurnFails

Next ==
  \/ \E s \in Sides : Transfer(s) \/ Call(s) \/ Try(s) \/ Exchange(s)
  \/ Break \/ TakeTurns \/ Turn

(* The threads inside a call run on, and what is sent arrives. *)
Spec ==
  /\ Init /\ [][Next]_vars
  /\ \A s \in Sides : WF_vars(Try(s)) /\ WF_vars(Transfer(s))
  /\ WF_vars(Turn)
-----------------------------------------------------------------------------
(* Every variable stays in its range, and an object is in one call only.   *)
TypeOK ==
  /\ flights \in {3, 4} /\ broken \in BOOLEAN
  /\ progress \in [Sides -> 0..4] /\ arrived \in [Sides -> 0..4]
  /\ m_handshake \in [Sides -> {"connect", "accept", "ok"}]
  /\ trying \in [Sides -> BOOLEAN]
  /\ retry_count \in [Sides -> 0..MaxRetry]
  /\ turn \in Sides \cup {"none"}
  /\ turn # "none" => \A s \in Sides : ~trying[s]

(* An object that is "ok" never waits for anything its peer has still to   *)
(* do, although same_thread_handshake() says so of both when one is done:  *)
(* if its own handshake is not over, the last flight is on its way to it.  *)
OkIsSettled ==
  \A s \in Sides :
    m_handshake[s] = "ok" => Complete(s) \/ LastMade(Other(s)) = flights

(* handshake() ends, whatever the peer does. *)
CallEnds == \A s \in Sides : trying[s] ~> ~trying[s]

(* A timeout loses nothing: two programs that call again after it end up   *)
(* with the handshake made, unless the connection breaks.                  *)
Established ==
  (\A s \in Sides : []<>(trying[s] \/ m_handshake[s] = "ok"))
    => <>(broken \/ \A s \in Sides : m_handshake[s] = "ok")

(* same_thread_handshake() of two peers ends, in no number of turns the    *)
(* code limits.                                                            *)
TurnsEnd == turn # "none" ~> turn = "none"
=============================================================================
