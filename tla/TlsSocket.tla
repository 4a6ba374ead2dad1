----------------------------- MODULE TlsSocket -----------------------------
(***************************************************************************)
(* The life of tls_socket objects (src/src/tls_socket.cpp): the socket     *)
(* they wrap, the SSL handle laid over its descriptor, and m_handshake,    *)
(* the role the object still has to play.  connect(), accept by a          *)
(* tls_socket_serv, moves, the handshake inside send() and receive(),      *)
(* same_thread_handshake(), disconnect() and destruction.                  *)
(*                                                                         *)
(* An SSL handle is named by the descriptor it was bound to.  A handshake  *)
(* that takes several flights is one step here; its flights are in         *)
(* TlsHandshake, the shared context is in TlsContext.                      *)
(***************************************************************************)
EXTENDS Integers

CONSTANTS
  Objs,        \* storage for tls_socket objects
  Fds,         \* descriptors
  None,        \* SOCKET_INVALID, and the null SSL handle
  ReuseMoved   \* moved-from objects are used again

ASSUME TlsAssumption ==
  None \notin Fds /\ ReuseMoved \in BOOLEAN

VARIABLES
  alive,
  fd,          \* the descriptor of m_sock
  ssl,         \* m_sock_ssl
  m_handshake, \* "connect", "accept" or "ok"
  moved,       \* objects whose content was moved away
  open,        \* kernel: open descriptors
  zero,        \* those whose socket was connected to "0.0.0.0"
  side,        \* the end of the connection a descriptor is
  established  \* handles whose handshake has been made

kernel == <<open, zero, side>>
vars == <<alive, fd, ssl, m_handshake, moved, open, zero, side, established>>

Init ==
  /\ alive = {} /\ moved = {} /\ open = {} /\ zero = {} /\ established = {}
  /\ fd = [o \in Objs |-> None]
  /\ ssl = [o \in Objs |-> None]
  /\ m_handshake = [o \in Objs |-> "connect"]
  /\ side = [f \in Fds |-> "client"]

(* m_sock.is_connected(), which goes by the address the socket keeps. *)
SockConnected(o) == fd[o] # None /\ fd[o] \notin zero

Usable(o) == o \in alive /\ (ReuseMoved \/ o \notin moved)

(* A descriptor of the kernel becomes an end of a connection, with a fresh *)
(* SSL handle over it, in object o; z is whether its address is 0.0.0.0.   *)
Attach(o, f, s, z) ==
  /\ f \notin open
  /\ open' = open \cup {f}
  /\ side' = [side EXCEPT ![f] = s]
  /\ established' = established \ {f}
  /\ fd' = [fd EXCEPT ![o] = f]
  /\ zero' = IF z THEN zero \cup {f} ELSE zero
  /\ ssl' = [ssl EXCEPT ![o] = f]

Construct(o) ==
  /\ o \notin alive
  /\ alive' = alive \cup {o}
  /\ UNCHANGED <<fd, ssl, m_handshake, moved, kernel, established>>

(* connect(): m_sock = move(s) overwrites the descriptor m_sock had.       *)
Connect(o) ==
  /\ Usable(o) /\ ssl[o] = None
  /\ \E f \in Fds, z \in BOOLEAN : Attach(o, f, "client", z)
  /\ UNCHANGED <<alive, m_handshake, moved>>

(* tls_socket(SSL*, socket), from tls_socket_serv::accept() *)
Accept(o) ==
  /\ o \notin alive
  /\ alive' = alive \cup {o}
  /\ \E f \in Fds : Attach(o, f, "server", FALSE)
  /\ m_handshake' = [m_handshake EXCEPT ![o] = "accept"]
  /\ UNCHANGED moved

(* A mutant: the moved-from object keeps the handle. *)
Mut_MoveKeepsHandle(o, s) ==
  /\ o \notin alive /\ s \in alive
  /\ alive' = alive \cup {o} /\ moved' = moved \cup {s}
  /\ fd' = [fd EXCEPT ![o] = fd[s], ![s] = None]
  /\ ssl' = [ssl EXCEPT ![o] = ssl[s]]
  /\ m_handshake' = [m_handshake EXCEPT ![o] = m_handshake[s]]
  /\ UNCHANGED <<kernel, established>>

(* The moved-from object keeps its m_handshake. *)
MoveConstruct(o, s) ==
  /\ o \notin alive /\ s \in alive
  /\ alive' = alive \cup {o}
  /\ moved' = IF s \in moved THEN moved \cup {o} ELSE moved \cup {s}
  /\ fd' = [fd EXCEPT ![o] = fd[s], ![s] = None]
  /\ ssl' = [ssl EXCEPT ![o] = ssl[s], ![s] = None]
  /\ m_handshake' = [m_handshake EXCEPT ![o] = m_handshake[s]]
  /\ UNCHANGED <<kernel, established>>

Swapped(f, o, s) == [f EXCEPT ![o] = f[s], ![s] = f[o]]

(* A mutant: the handshake state stays behind in an assignment. *)
Mut_SwapForgetsHandshake(o, s) ==
  /\ o \in alive /\ s \in alive
  /\ fd' = Swapped(fd, o, s)
  /\ ssl' = Swapped(ssl, o, s)
  /\ UNCHANGED <<alive, m_handshake, moved, kernel, established>>

(* A mutant: m_sock is moved over instead of swapped. *)
Mut_AssignOverwrites(o, s) ==
  /\ o \in alive /\ s \in alive /\ o # s
  /\ fd' = [fd EXCEPT ![o] = fd[s], ![s] = None]
  /\ ssl' = [ssl EXCEPT ![o] = ssl[s], ![s] = None]
  /\ m_handshake' = Swapped(m_handshake, o, s)
  /\ moved' = moved \cup {s}
  /\ UNCHANGED <<alive, kernel, established>>

(* operator=(&&) swaps every field. *)
MoveAssign(o, s) ==
  /\ o \in alive /\ s \in alive
  /\ fd' = Swapped(fd, o, s)
  /\ ssl' = Swapped(ssl, o, s)
  /\ m_handshake' = Swapped(m_handshake, o, s)
  /\ moved' = {IF q = o THEN s ELSE IF q = s THEN o ELSE q : q \in moved}
  /\ UNCHANGED <<alive, kernel, established>>

(* A mutant: disconnect() frees the handle and leaves m_sock alone. *)
Mut_DisconnectLeavesSock(o) ==
  /\ o \in alive /\ ssl[o] # None
  /\ ssl' = [ssl EXCEPT ![o] = None]
  /\ m_handshake' = [m_handshake EXCEPT ![o] = "connect"]
  /\ UNCHANGED <<alive, moved, fd, kernel, established>>

(* disconnect(): m_sock.disconnect() does nothing unless it is connected.  *)
Disconnect(o) ==
  /\ o \in alive /\ ssl[o] # None
  /\ ssl' = [ssl EXCEPT ![o] = None]
  /\ m_handshake' = [m_handshake EXCEPT ![o] = "connect"]
  /\ \/ /\ SockConnected(o)
        /\ open' = open \ {fd[o]}
        /\ fd' = [fd EXCEPT ![o] = None]
     \/ ~SockConnected(o) /\ UNCHANGED <<open, fd>>
  /\ UNCHANGED <<alive, moved, zero, side, established>>

(* disconnect() and the destructor of m_sock. *)
Destroy(o) ==
  /\ o \in alive
  /\ alive' = alive \ {o} /\ moved' = moved \ {o}
  /\ open' = open \ {fd[o]} /\ zero' = zero \ {fd[o]}
  /\ fd' = [fd EXCEPT ![o] = None]
  /\ ssl' = [ssl EXCEPT ![o] = None]
  /\ m_handshake' = [m_handshake EXCEPT ![o] = "connect"]
  /\ UNCHANGED <<side, established>>

Role(f) == IF side[f] = "client" THEN "connect" ELSE "accept"

(* The handshake of the first send() or receive() succeeds if the object   *)
(* plays the part the other end waits for; otherwise it throws.            *)
Handshake(o) ==
  /\ o \in alive /\ SockConnected(o) /\ m_handshake[o] # "ok" /\ ssl[o] # None
  /\ m_handshake[o] = Role(ssl[o])
  /\ established' = established \cup {ssl[o]}
  /\ m_handshake' = [m_handshake EXCEPT ![o] = "ok"]
  /\ UNCHANGED <<alive, fd, ssl, moved, kernel>>

(* same_thread_handshake(); that a and b are the ends of one connection is *)
(* the caller's word.                                                      *)
SameThreadHandshake(a, b) ==
  /\ a \in alive /\ b \in alive /\ ssl[a] # None /\ ssl[b] # None
  /\ m_handshake[a] = "connect" /\ m_handshake[b] = "accept"
  /\ side[ssl[a]] = "client" /\ side[ssl[b]] = "server"
  /\ established' = established \cup {ssl[a], ssl[b]}
  /\ m_handshake' = [m_handshake EXCEPT ![a] = "ok", ![b] = "ok"]
  /\ UNCHANGED <<alive, fd, ssl, moved, kernel>>

Next ==
  \/ \E o \in Objs : \/ Construct(o) \/ Connect(o) \/ Accept(o)
                     \/ Disconnect(o) \/ Destroy(o) \/ Handshake(o)
  \/ \E o, s \in Objs : \/ MoveConstruct(o, s) \/ MoveAssign(o, s)
                        \/ SameThreadHandshake(o, s)

Spec == Init /\ [][Next]_vars
-----------------------------------------------------------------------------
(* Every variable stays in its range, and storage without an object keeps  *)
(* the defaults of tls_socket.h.                                           *)
TypeOK ==
  /\ alive \subseteq Objs /\ moved \subseteq alive
  /\ fd \in [Objs -> Fds \cup {None}]
  /\ ssl \in [Objs -> Fds \cup {None}]
  /\ m_handshake \in [Objs -> {"connect", "accept", "ok"}]
  /\ open \subseteq Fds /\ zero \subseteq open /\ established \subseteq Fds
  /\ side \in [Fds -> {"client", "server"}]
  /\ \A o \in Objs \ alive :
       fd[o] = None /\ ssl[o] = None /\ m_handshake[o] = "connect"

(* A handle is laid over the descriptor of the socket beside it, an open   *)
(* one, and no two objects share either: after any moves and swaps SSL     *)
(* never reads from another object's connection, nor is it freed twice.    *)
HandleFitsSocket ==
  /\ \A o \in Objs : ssl[o] # None => fd[o] = ssl[o]
  /\ \A o \in Objs : fd[o] # None => fd[o] \in open
  /\ \A o, p \in Objs : o # p /\ fd[o] # None => fd[o] # fd[p]

(* The role of an object is the one its connection needs: the client end   *)
(* connects, the server end accepts, and "ok" is said only of a handle     *)
(* whose handshake has been made.                                          *)
RoleFits ==
  \A o \in Objs : ssl[o] # None =>
    IF m_handshake[o] = "ok" THEN ssl[o] \in established
    ELSE m_handshake[o] = Role(ssl[o]) /\ ssl[o] \notin established

(* Every open descriptor belongs to an object, so that it will be closed:  *)
(* assignment, moves and reconnection lose none, except that a connection  *)
(* to "0.0.0.0" survives disconnect() and is lost to the next connect().   *)
NoOrphan == \A f \in open \ zero : \E o \in Objs : fd[o] = f

(* disconnect() ends the connection: an object without an SSL handle has   *)
(* no descriptor left, or one connected to "0.0.0.0".                      *)
DisconnectedIsClosed ==
  \A o \in Objs : ssl[o] = None => fd[o] = None \/ fd[o] \in zero
=============================================================================
