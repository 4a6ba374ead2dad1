---------------------------- MODULE SocketHandle ----------------------------
(***************************************************************************)
(* The life of unix_socket objects (src/src/unix_socket.cpp): construction,*)
(* moves, listen, accept, connect, disconnect and destruction, against the *)
(* kernel's descriptor table.  socket_tmpl and socket_serv_tmpl forward to *)
(* these operations and add no state of their own.                         *)
(*                                                                         *)
(* An operation is one step: an object belongs to one thread, and what the *)
(* kernel does meanwhile (a client arriving) is a step of its own.  A call *)
(* that throws before it changed anything is a stuttering step.            *)
(***************************************************************************)
EXTENDS Integers

CONSTANTS
  Objs,       \* storage for socket objects
  Fds,        \* descriptors the process may have open
  Invalid,    \* SOCKET_INVALID
  Addrs,      \* addresses connect() resolves to and clients come from
  LocalAddrs, \* those that reach a listener of this machine
  AnyAddr,    \* "0.0.0.0"
  NoAddr,     \* the empty string left in a moved-from object
  Ports,      \* values of the unsigned port argument
  PortMod,    \* 65536, the size of the kernel's port space
  Backlog     \* SOMAXCONN

ASSUME HandleAssumption ==
  /\ Invalid \notin Fds
  /\ Objs \cap {"nobody", "lost"} = {}
  /\ LocalAddrs \subseteq Addrs
  /\ NoAddr \notin Addrs /\ NoAddr # AnyAddr
  /\ Ports \subseteq Nat
  /\ PortMod \in Nat \ {0, 1}
  /\ Backlog \in Nat \ {0}

VARIABLES
  alive,    \* storage that holds a constructed object
  sd,       \* m_unix_sd
  addr,     \* m_ipv4_address
  port,     \* m_ipv4_port
  kind,     \* kernel: what each descriptor is
  bound,    \* kernel: local port of a listening descriptor
  pending   \* kernel: connections waiting for accept()

object == <<alive, sd, addr, port>>
kernel == <<kind, bound, pending>>
vars == <<alive, sd, addr, port, kind, bound, pending>>

NetPorts == 1..(PortMod - 1)

Init ==
  /\ alive = {}
  /\ sd = [o \in Objs |-> Invalid]
  /\ addr = [o \in Objs |-> AnyAddr]
  /\ port = [o \in Objs |-> 0]
  /\ kind = [f \in Fds |-> "closed"]
  /\ bound = [f \in Fds |-> 0]
  /\ pending = [f \in Fds |-> 0]

IsConnected(o) == sd[o] # Invalid /\ addr[o] # AnyAddr /\ port[o] # 0

IsListening(o) == sd[o] # Invalid /\ addr[o] = AnyAddr /\ port[o] # 0

(* has_client() on a real listener, and the case where accept() succeeds.  *)
ClientWaiting(o) ==
  IsListening(o) /\ kind[sd[o]] = "listening" /\ pending[sd[o]] > 0

(* The fields of an object; storage without an object keeps the defaults. *)
SetFields(o, f, a, p) ==
  /\ sd' = [sd EXCEPT ![o] = f]
  /\ addr' = [addr EXCEPT ![o] = a]
  /\ port' = [port EXCEPT ![o] = p]

(* close(): the kernel frees the descriptor and resets waiting clients. *)
CloseFd(f) ==
  /\ kind' = [kind EXCEPT ![f] = "closed"]
  /\ bound' = [bound EXCEPT ![f] = 0]
  /\ pending' = [pending EXCEPT ![f] = 0]

PortsInUse == {bound[f] : f \in {g \in Fds : kind[g] = "listening"}}

Construct(o) ==
  /\ o \notin alive
  /\ alive' = alive \cup {o}
  /\ UNCHANGED <<sd, addr, port, kernel>>

(* A mutant: the destructor cleans up connections only. *)
Mut_DestroyConnectedOnly(o) ==
  /\ o \in alive
  /\ alive' = alive \ {o}
  /\ SetFields(o, Invalid, AnyAddr, 0)
  /\ \/ ~IsConnected(o) /\ UNCHANGED kernel
     \/ IsConnected(o) /\ CloseFd(sd[o])

Destroy(o) ==
  /\ o \in alive
  /\ alive' = alive \ {o}
  /\ SetFields(o, Invalid, AnyAddr, 0)
  /\ \/ sd[o] = Invalid /\ UNCHANGED kernel
     \/ sd[o] # Invalid /\ CloseFd(sd[o])

(* A mutant: the moved-from object keeps the descriptor. *)
Mut_MoveKeepsSource(o, s) ==
  /\ o \notin alive /\ s \in alive
  /\ alive' = alive \cup {o}
  /\ SetFields(o, sd[s], addr[s], port[s])
  /\ UNCHANGED kernel

(* A mutant: the move constructor forgets the port. *)
Mut_MoveForgetsPort(o, s) ==
  /\ o \notin alive /\ s \in alive
  /\ alive' = alive \cup {o}
  /\ sd' = [sd EXCEPT ![o] = sd[s], ![s] = Invalid]
  /\ addr' = [addr EXCEPT ![o] = addr[s], ![s] = NoAddr]
  /\ UNCHANGED <<port, kernel>>

MoveConstruct(o, s) ==
  /\ o \notin alive /\ s \in alive
  /\ alive' = alive \cup {o}
  /\ sd' = [sd EXCEPT ![o] = sd[s], ![s] = Invalid]
  /\ addr' = [addr EXCEPT ![o] = addr[s], ![s] = NoAddr]
  /\ port' = [port EXCEPT ![o] = port[s]]
  /\ UNCHANGED kernel

(* operator=(&&): the descriptor o held is overwritten, not closed; with   *)
(* s = o the object loses its own descriptor.                              *)
MoveAssign(o, s) ==
  /\ o \in alive /\ s \in alive
  /\ sd' = [sd EXCEPT ![o] = sd[s], ![s] = Invalid]
  /\ addr' = [addr EXCEPT ![o] = addr[s], ![s] = NoAddr]
  /\ port' = [port EXCEPT ![o] = port[s]]
  /\ UNCHANGED <<alive, kernel>>

(* listen(): bind() takes the port modulo 2^16, port 0 means any free one, *)
(* and fails when the port is taken; the object keeps the port as given.   *)
Listen(o, p) ==
  /\ o \in alive /\ sd[o] = Invalid
  /\ \E f \in Fds, b \in NetPorts \ PortsInUse :
       /\ p % PortMod \in {0, b}
       /\ kind[f] = "closed"
       /\ kind' = [kind EXCEPT ![f] = "listening"]
       /\ bound' = [bound EXCEPT ![f] = b]
       /\ SetFields(o, f, AnyAddr, p)
  /\ UNCHANGED <<alive, pending>>

(* A connection request reaches a listening descriptor from elsewhere. *)
ClientArrives(f) ==
  /\ kind[f] = "listening" /\ pending[f] < Backlog
  /\ pending' = [pending EXCEPT ![f] = @ + 1]
  /\ UNCHANGED <<object, kind, bound>>

(* accept() with a waiting client: the new object is built in storage t. *)
Accept(o, t) ==
  /\ o \in alive /\ t \notin alive /\ ClientWaiting(o)
  /\ \E f \in Fds, a \in Addrs \ {AnyAddr}, p \in NetPorts :
       /\ kind[f] = "closed"
       /\ kind' = [kind EXCEPT ![f] = "stream"]
       /\ SetFields(t, f, a, p)
  /\ alive' = alive \cup {t}
  /\ pending' = [pending EXCEPT ![sd[o]] = @ - 1]
  /\ UNCHANGED bound

(* accept() whose fcntl() fails: the client takes a descriptor that is     *)
(* free, and the local object closes it in the same call.                  *)
AcceptFails(o) ==
  /\ o \in alive /\ ClientWaiting(o)
  /\ \E f \in Fds : kind[f] = "closed"
  /\ pending' = [pending EXCEPT ![sd[o]] = @ - 1]
  /\ UNCHANGED <<object, kind, bound>>

(* A mutant: connect() on an object that is in use. *)
Mut_ConnectUnguarded(o, a, p) ==
  /\ o \in alive /\ p % PortMod # 0
  /\ \E f \in Fds :
       /\ kind[f] = "closed"
       /\ kind' = [kind EXCEPT ![f] = "stream"]
       /\ SetFields(o, f, a, p)
  /\ UNCHANGED <<alive, bound, pending>>

(* connect() to a listener of this machine joins its queue; elsewhere the  *)
(* connection is accepted by a host outside the model.                     *)
Connect(o, a, p) ==
  /\ o \in alive /\ sd[o] = Invalid
  /\ p % PortMod # 0
  /\ \E f \in Fds :
       /\ kind[f] = "closed"
       /\ kind' = [kind EXCEPT ![f] = "stream"]
       /\ SetFields(o, f, a, p)
  /\ \/ a \notin LocalAddrs /\ UNCHANGED pending
     \/ /\ a \in LocalAddrs
        /\ \E l \in Fds : /\ kind[l] = "listening" /\ bound[l] = p % PortMod
                          /\ pending[l] < Backlog
                          /\ pending' = [pending EXCEPT ![l] = @ + 1]
  /\ UNCHANGED <<alive, bound>>

Disconnect(o) ==
  /\ o \in alive /\ IsConnected(o)
  /\ CloseFd(sd[o])
  /\ SetFields(o, Invalid, AnyAddr, 0)
  /\ UNCHANGED alive

Next ==
  \/ \E o \in Objs : Construct(o) \/ Destroy(o) \/ AcceptFails(o) \/ Disconnect(o)
  \/ \E o, s \in Objs : MoveConstruct(o, s) \/ MoveAssign(o, s) \/ Accept(o, s)
  \/ \E o \in Objs, p \in Ports : Listen(o, p)
  \/ \E o \in Objs, a \in Addrs, p \in Ports : Connect(o, a, p)
  \/ \E f \in Fds : ClientArrives(f)

Spec == Init /\ [][Next]_vars
-----------------------------------------------------------------------------
(* Every variable stays in its range, and storage without an object keeps  *)
(* the field defaults of unix_socket.h.                                    *)
TypeOK ==
  /\ alive \subseteq Objs
  /\ sd \in [Objs -> Fds \cup {Invalid}]
  /\ addr \in [Objs -> Addrs \cup {AnyAddr, NoAddr}]
  /\ port \in [Objs -> Nat]
  /\ kind \in [Fds -> {"closed", "listening", "stream"}]
  /\ bound \in [Fds -> 0..(PortMod - 1)]
  /\ pending \in [Fds -> 0..Backlog]
  /\ \A o \in Objs \ alive : sd[o] = Invalid /\ addr[o] = AnyAddr /\ port[o] = 0

UniqueHandle ==
  \A o1, o2 \in Objs : o1 # o2 /\ sd[o1] = sd[o2] => sd[o1] = Invalid

HeldIsOpen == \A o \in Objs : sd[o] # Invalid => kind[sd[o]] # "closed"

(* "unique sock handle" (unix_socket.h): after any sequence of moves,      *)
(* accepts and reconnections no two objects hold the same descriptor, and  *)
(* the one an object holds is open: none is closed or used by two objects, *)
(* nor closed a second time when the kernel has given it to another.       *)
OneOpenOwner == UniqueHandle /\ HeldIsOpen

(* An object that reports is_connected() really holds a connection, never  *)
(* a listener, whatever addresses and ports the calls were given.          *)
ConnectedIsStream == \A o \in Objs : IsConnected(o) => kind[sd[o]] = "stream"

Held(f) == \E o \in Objs : sd[o] = f

(* An open descriptor that an object held is given up open by one          *)
(* operation only, move assignment over an object that was in use; every   *)
(* failing path, destructor and disconnect() closes what it drops.         *)
OrphanedOnlyByAssign ==
  [][\A f \in Fds : Held(f) /\ ~Held(f)' /\ kind'[f] # "closed"
        => \E o, s \in Objs : sd[o] = f /\ MoveAssign(o, s)]_vars

(* Who has each descriptor, for the abstract specification. *)
Owner == [f \in Fds |-> IF kind[f] = "closed" THEN "nobody"
                        ELSE IF Held(f) THEN CHOOSE o \in Objs : sd[o] = f
                        ELSE "lost"]

Abstract == INSTANCE Ownership
              WITH owner <- Owner, Nobody <- "nobody", Lost <- "lost"

(* Every step of the class is a step of the ownership protocol. *)
ImplementsOwnership == Abstract!Spec

(* An object tells the truth about its descriptor, whatever way it got it: *)
(* it reports is_connected() when it holds a connection, as the tests      *)
(* expect after every connect and accept, and is_listening() when it       *)
(* listens, with the port the kernel listens on.                           *)
FieldsTellTruth ==
  \A o \in Objs : sd[o] # Invalid =>
    /\ kind[sd[o]] = "stream" => IsConnected(o) /\ ~IsListening(o)
    /\ kind[sd[o]] = "listening" => IsListening(o) /\ port[o] = bound[sd[o]]
=============================================================================
