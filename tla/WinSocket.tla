------------------------------ MODULE WinSocket ------------------------------
(***************************************************************************)
(* win_socket objects (src/src/win_socket.cpp) and the count of them that  *)
(* starts and stops the Windows Sockets library: the first constructor     *)
(* calls WSAStartup, the last destructor WSACleanup.                       *)
(*                                                                         *)
(* Objects live in any threads: what WSA_init and WSA_finalizer do between *)
(* the atomic counter and the library call is open to the other objects,   *)
(* so the two calls are steps of their own.  The rest of an operation is   *)
(* one step; one that throws before it changed anything stutters.  Ports   *)
(* are not 0; they are kept as SocketHandle has them.                      *)
(*                                                                         *)
(* The counter protects less than it seems to, so the programs are told    *)
(* apart: one that makes and ends its objects one at a time (serial), one  *)
(* with objects that outlive all the others (keepers), and any other.      *)
(***************************************************************************)
EXTENDS Integers, FiniteSets

CONSTANTS
  Objs,     \* storage for socket objects
  Handles,  \* SOCKET values the library hands out
  Invalid,  \* INVALID_SOCKET
  Addrs,    \* addresses connect() resolves to
  AnyAddr,  \* "0.0.0.0"
  NoAddr,   \* the empty string left in a moved-from object
  Garbled   \* what accept() stores: "0.0.0.0", zero bytes, then the address

ASSUME WinAssumption ==
  /\ IsFiniteSet(Objs)
  /\ Invalid \notin Handles
  /\ AnyAddr \notin {NoAddr, Garbled}

VARIABLES
  phase,             \* how far the life of each object is
  winsocket,         \* m_winsocket
  addr,              \* m_ipv4_address
  wsa_lib_instances, \* the counter
  started,           \* library: WSAStartup calls not yet undone by WSACleanup
  kind,              \* library: what each handle is
  failed,            \* history: a start has failed or been refused
  serial,            \* program: objects are made and ended one at a time
  keepers,           \* program: objects made first and never destroyed
  right_version      \* system: its library has version 2.2

object == <<winsocket, addr>>
library == <<started, kind>>
setting == <<serial, keepers, right_version>>
vars == <<phase, object, wsa_lib_instances, library, failed, setting>>

InPhase(p) == {o \in Objs : phase[o] = p}
Alive(o) == phase[o] = "alive"

Init ==
  /\ serial \in BOOLEAN /\ keepers \in SUBSET Objs /\ right_version \in BOOLEAN
  /\ keepers # {} => right_version
  /\ phase = [o \in Objs |-> IF o \in keepers THEN "alive" ELSE "none"]
  /\ winsocket = [o \in Objs |-> Invalid]
  /\ addr = [o \in Objs |-> AnyAddr]
  /\ wsa_lib_instances = Cardinality(keepers)
  /\ started = IF keepers = {} THEN 0 ELSE 1
  /\ kind = [h \in Handles |-> "closed"]
  /\ failed = FALSE

IsConnected(o) == winsocket[o] # Invalid /\ addr[o] # AnyAddr
IsListening(o) == winsocket[o] # Invalid /\ addr[o] = AnyAddr

SetFields(o, h, a) ==
  /\ winsocket' = [winsocket EXCEPT ![o] = h]
  /\ addr' = [addr EXCEPT ![o] = a]

CloseHandle(h) ==
  kind' = [k \in Handles |-> IF k = h THEN "closed" ELSE kind[k]]

(* WSA_init() on behalf of o: only who finds the counter at 0 has the      *)
(* library to start; everyone else goes on at once.                        *)
WSA_init(o) ==
  /\ wsa_lib_instances' = wsa_lib_instances + 1
  /\ phase' = [phase EXCEPT ![o] = IF wsa_lib_instances = 0 THEN "starting"
                                                            ELSE "alive"]

Construct(o) ==
  /\ phase[o] = "none"
  /\ WSA_init(o)
  /\ UNCHANGED <<object, library, failed>>

WSAStartup(o) ==
  /\ phase[o] = "starting"
  /\ phase' = [phase EXCEPT ![o] = IF right_version THEN "alive" ELSE "refusing"]
  /\ started' = started + 1
  /\ UNCHANGED <<object, wsa_lib_instances, kind, failed>>

(* The exception leaves the constructor, so no destructor will take the    *)
(* count back.                                                             *)
WSAStartupFails(o) ==
  /\ phase[o] = "starting"
  /\ phase' = [phase EXCEPT ![o] = "none"]
  /\ failed' = TRUE
  /\ UNCHANGED <<object, wsa_lib_instances, library>>

(* The library's own count of its users; the last to leave closes every    *)
(* handle there is.                                                        *)
CleanUp ==
  /\ started' = started - 1
  /\ kind' = IF started = 1 THEN [h \in Handles |-> "closed"] ELSE kind

(* The library started, in another version: it is stopped again, and the   *)
(* constructor throws.                                                     *)
WSARefuses(o) ==
  /\ phase[o] = "refusing"
  /\ phase' = [phase EXCEPT ![o] = "none"]
  /\ failed' = TRUE
  /\ CleanUp
  /\ UNCHANGED <<object, wsa_lib_instances>>

(* The fields of s move to o, whose handle, if any, is overwritten. *)
TakeFields(o, s) ==
  /\ winsocket' = [winsocket EXCEPT ![o] = winsocket[s], ![s] = Invalid]
  /\ addr' = [addr EXCEPT ![o] = addr[s], ![s] = NoAddr]

(* A mutant: the move constructor does not count the new object. *)
Mut_MoveNotCounted(o, s) ==
  /\ phase[o] = "none" /\ Alive(s)
  /\ TakeFields(o, s)
  /\ phase' = [phase EXCEPT ![o] = "alive"]
  /\ UNCHANGED <<wsa_lib_instances, library, failed>>

MoveConstruct(o, s) ==
  /\ phase[o] = "none" /\ Alive(s)
  /\ TakeFields(o, s)
  /\ WSA_init(o)
  /\ UNCHANGED <<library, failed>>

MoveAssign(o, s) ==
  /\ Alive(o) /\ Alive(s)
  /\ TakeFields(o, s)
  /\ UNCHANGED <<phase, wsa_lib_instances, library, failed>>

(* The destructor closes the handle, then WSA_finalizer() counts down. *)
Destroy(o) ==
  /\ Alive(o)
  /\ phase' = [phase EXCEPT ![o] = "dropping"]
  /\ SetFields(o, Invalid, AnyAddr)
  /\ CloseHandle(winsocket[o])
  /\ UNCHANGED <<wsa_lib_instances, started, failed>>

(* A mutant: the counter is compared before it is counted down. *)
Mut_PostDecrement(o) ==
  /\ phase[o] = "dropping"
  /\ wsa_lib_instances' = wsa_lib_instances - 1
  /\ phase' = [phase EXCEPT ![o] = IF wsa_lib_instances = 0 THEN "cleaning"
                                                            ELSE "none"]
  /\ UNCHANGED <<object, library, failed>>

WSA_finalizer(o) ==
  /\ phase[o] = "dropping"
  /\ wsa_lib_instances' = wsa_lib_instances - 1
  /\ phase' = [phase EXCEPT ![o] = IF wsa_lib_instances = 1 THEN "cleaning"
                                                            ELSE "none"]
  /\ UNCHANGED <<object, library, failed>>

WSACleanup(o) ==
  /\ phase[o] = "cleaning"
  /\ phase' = [phase EXCEPT ![o] = "none"]
  /\ CleanUp
  /\ UNCHANGED <<object, wsa_lib_instances, failed>>

(* A socket the library hands out, which it does only once it is started.  *)
OpenHandle(o, k, a) ==
  /\ started > 0
  /\ \E h \in Handles : /\ kind[h] = "closed"
                        /\ kind' = [kind EXCEPT ![h] = k]
                        /\ SetFields(o, h, a)
  /\ UNCHANGED <<started, failed>>

(* On failure the temporary handle is closed by socket_raii. *)
Listen(o) ==
  /\ Alive(o) /\ winsocket[o] = Invalid
  /\ OpenHandle(o, "listening", AnyAddr)
  /\ UNCHANGED <<phase, wsa_lib_instances>>

Connect(o, a) ==
  /\ Alive(o) /\ winsocket[o] = Invalid
  /\ OpenHandle(o, "stream", a)
  /\ UNCHANGED <<phase, wsa_lib_instances>>

(* A mutant: the local object is counted when made and not when destroyed. *)
Mut_AcceptCountsTwice(o, t) ==
  /\ Alive(o) /\ phase[t] = "none"
  /\ IsListening(o) /\ kind[winsocket[o]] = "listening"
  /\ OpenHandle(t, "stream", Garbled)
  /\ phase' = [phase EXCEPT ![t] = "alive"]
  /\ wsa_lib_instances' = wsa_lib_instances + 2

(* accept() of a waiting client: a local object takes the handle and is    *)
(* moved to t.  The listener is counted all the while, so neither object   *)
(* starts or stops the library, and the local one's count comes and goes.  *)
(* The address is appended to the default one, stretched with zero bytes.  *)
(* When a later call fails, the local object closes the client.            *)
Accept(o, t) ==
  /\ Alive(o) /\ phase[t] = "none"
  /\ IsListening(o) /\ kind[winsocket[o]] = "listening"
  /\ OpenHandle(t, "stream", Garbled)
  /\ WSA_init(t)

Disconnect(o) ==
  /\ Alive(o) /\ IsConnected(o)
  /\ SetFields(o, Invalid, AnyAddr)
  /\ CloseHandle(winsocket[o])
  /\ UNCHANGED <<phase, wsa_lib_instances, started, failed>>

(* The program's next object to make or to end waits for the one before. *)
Undisturbed == serial => \A p \in Objs : phase[p] \in {"none", "alive"}

Next ==
  /\ \/ \E o \in Objs : \/ WSAStartup(o) \/ WSAStartupFails(o) \/ WSARefuses(o)
                        \/ WSA_finalizer(o) \/ WSACleanup(o)
                        \/ Listen(o) \/ Disconnect(o)
     \/ \E o \in Objs, a \in Addrs : Connect(o, a)
     \/ \E o, s \in Objs : MoveAssign(o, s)
     \/ /\ Undisturbed
        /\ \/ \E o \in Objs : Construct(o)
           \/ \E o \in Objs \ keepers : Destroy(o)
           \/ \E o, s \in Objs : MoveConstruct(o, s) \/ Accept(o, s)
  /\ UNCHANGED setting

Spec == Init /\ [][Next]_vars
-----------------------------------------------------------------------------
(* Every variable stays in its range, and storage without an object keeps  *)
(* the defaults of win_socket.h.                                           *)
TypeOK ==
  /\ phase \in [Objs -> {"none", "starting", "refusing", "alive", "dropping",
                         "cleaning"}]
  /\ winsocket \in [Objs -> Handles \cup {Invalid}]
  /\ addr \in [Objs -> Addrs \cup {AnyAddr, NoAddr, Garbled}]
  /\ wsa_lib_instances \in Nat /\ started \in Nat
  /\ kind \in [Handles -> {"closed", "listening", "stream"}]
  /\ failed \in BOOLEAN
  /\ serial \in BOOLEAN /\ keepers \in SUBSET Objs /\ right_version \in BOOLEAN
  /\ \A o \in Objs : ~Alive(o) => winsocket[o] = Invalid /\ addr[o] = AnyAddr

Starting == InPhase("starting") \cup InPhase("refusing")
Counted == InPhase("alive") \cup InPhase("dropping") \cup Starting

(* "Global instance counter" (win_socket.cpp:31): whatever the threads     *)
(* construct, move, accept and destroy, every object is counted once; a    *)
(* start that failed or was refused stays counted for ever.                *)
CountedOnce ==
  wsa_lib_instances = Cardinality(Counted) + (IF failed THEN 1 ELSE 0)

(* "Initialize on first instance" (win_socket.cpp:387): while objects are  *)
(* counted the library is started exactly once for them, except while the  *)
(* first of them is still at it and for ever after it did not succeed;     *)
(* each stop that is under way still holds a start of its own.             *)
StartedOnce ==
  started = Cardinality(InPhase("cleaning")) + Cardinality(InPhase("refusing"))
            + (IF wsa_lib_instances > 0 /\ Starting = {} /\ ~failed
               THEN 1 ELSE 0)

(* The library is never stopped under an object: the handle an object      *)
(* holds is open and nobody else's.  That is so in a program that makes    *)
(* and ends its objects one at a time, and in one with an object that was  *)
(* made before the others and outlives them.  In any other program it is   *)
(* not, since the counter is ahead of the library at both ends: a thread   *)
(* can get a handle between another's start and stop of a library in the   *)
(* wrong version, and between the last object's count and its stop, when   *)
(* the next start has failed or is a third thread's that has yet to run.   *)
OneOpenOwner ==
  serial \/ keepers # {} =>
    \A o \in Objs : winsocket[o] # Invalid =>
       /\ kind[winsocket[o]] # "closed"
       /\ \A p \in Objs \ {o} : winsocket[p] # winsocket[o]
=============================================================================
