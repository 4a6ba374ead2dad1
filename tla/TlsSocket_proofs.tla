-------------------------- MODULE TlsSocket_proofs --------------------------
(***************************************************************************)
(* Proofs about TlsSocket for any number of objects and descriptors.       *)
(***************************************************************************)
EXTENDS TlsSocket, TLAPS

FitInv == TypeOK /\ HandleFitsSocket

LEMMA NoneIsNoFd == None \notin Fds
  BY TlsAssumption

-----------------------------------------------------------------------------
(* The operations keep the ranges, and each handle with its socket.        *)

LEMMA InitFit == Init => FitInv
  BY DEF Init, FitInv, TypeOK, HandleFitsSocket

(* A new descriptor is nobody else's. *)
LEMMA AttachFit ==
  ASSUME FitInv, NEW o \in Objs, NEW f \in Fds, NEW s \in {"client", "server"},
         NEW z \in BOOLEAN, Attach(o, f, s, z)
  PROVE  /\ HandleFitsSocket'
         /\ fd' \in [Objs -> Fds \cup {None}] /\ ssl' \in [Objs -> Fds \cup {None}]
         /\ open' \subseteq Fds /\ zero' \subseteq open' /\ established' \subseteq Fds
         /\ side' \in [Fds -> {"client", "server"}]
         /\ \A q \in Objs : q # o => fd'[q] = fd[q] /\ ssl'[q] = ssl[q]
<1>1. /\ fd' = [fd EXCEPT ![o] = f] /\ ssl' = [ssl EXCEPT ![o] = f]
      /\ open' = open \cup {f} /\ f \notin open
  BY DEF Attach
<1>2. fd \in [Objs -> Fds \cup {None}] /\ ssl \in [Objs -> Fds \cup {None}]
  BY DEF FitInv, TypeOK
<1>3. fd' \in [Objs -> Fds \cup {None}] /\ ssl' \in [Objs -> Fds \cup {None}]
  BY <1>1, <1>2
<1>4. /\ \A q \in Objs : q # o => fd'[q] = fd[q] /\ ssl'[q] = ssl[q]
      /\ fd'[o] = f /\ ssl'[o] = f
  BY <1>1, <1>2
<1>5. HandleFitsSocket'
  <2>1. \A q \in Objs : fd[q] # None => fd[q] # f
    BY <1>1 DEF FitInv, HandleFitsSocket
  <2> QED
    BY <1>1, <1>4, <2>1, NoneIsNoFd DEF FitInv, HandleFitsSocket
<1>6. /\ side' \in [Fds -> {"client", "server"}] /\ open' \subseteq Fds
      /\ established' \subseteq Fds
  BY DEF Attach, FitInv, TypeOK
<1>7. zero' \subseteq open'
  BY DEF Attach, FitInv, TypeOK
<1> QED
  BY <1>3, <1>4, <1>5, <1>6, <1>7

LEMMA NextFit == FitInv /\ [Next]_vars => FitInv'
<1> SUFFICES ASSUME FitInv, [Next]_vars
             PROVE  FitInv'
  OBVIOUS
<1> USE DEF FitInv
<1>1. ASSUME NEW o \in Objs, Construct(o)
      PROVE  FitInv'
  <2>1. TypeOK'
    BY <1>1 DEF Construct, kernel, TypeOK
  <2>2. HandleFitsSocket'
    BY <1>1 DEF Construct, kernel, HandleFitsSocket
  <2> QED
    BY <2>1, <2>2
<1>2. ASSUME NEW o \in Objs, Connect(o)
      PROVE  FitInv'
  <2>1. PICK f \in Fds, z \in BOOLEAN : Attach(o, f, "client", z)
    BY <1>2 DEF Connect
  <2>2. /\ o \in alive
        /\ alive' = alive /\ m_handshake' = m_handshake /\ moved' = moved
    BY <1>2 DEF Connect, Usable
  <2> QED
    BY <2>1, <2>2, AttachFit DEF TypeOK
<1>3. ASSUME NEW o \in Objs, Accept(o)
      PROVE  FitInv'
  <2>1. PICK f \in Fds : Attach(o, f, "server", FALSE)
    BY <1>3 DEF Accept
  <2>2. /\ alive' = alive \cup {o} /\ moved' = moved
        /\ m_handshake' = [m_handshake EXCEPT ![o] = "accept"]
    BY <1>3 DEF Accept
  <2> QED
    BY <2>1, <2>2, AttachFit DEF TypeOK
<1>4. ASSUME NEW o \in Objs, Disconnect(o)
      PROVE  FitInv'
  <2>1. TypeOK'
    BY <1>4 DEF Disconnect, SockConnected, TypeOK
  <2>2. HandleFitsSocket'
    BY <1>4 DEF Disconnect, SockConnected, TypeOK, HandleFitsSocket
  <2> QED
    BY <2>1, <2>2
<1>5. ASSUME NEW o \in Objs, Destroy(o)
      PROVE  FitInv'
  <2>1. TypeOK'
    BY <1>5 DEF Destroy, TypeOK
  <2>2. HandleFitsSocket'
    BY <1>5 DEF Destroy, TypeOK, HandleFitsSocket
  <2> QED
    BY <2>1, <2>2
<1>6. ASSUME NEW o \in Objs, Handshake(o)
      PROVE  FitInv'
  <2>1. TypeOK'
    BY <1>6 DEF Handshake, kernel, TypeOK
  <2>2. HandleFitsSocket'
    BY <1>6 DEF Handshake, kernel, HandleFitsSocket
  <2> QED
    BY <2>1, <2>2
<1>7. ASSUME NEW o \in Objs, NEW s \in Objs, MoveConstruct(o, s)
      PROVE  FitInv'
  <2>1. TypeOK'
    BY <1>7 DEF MoveConstruct, kernel, TypeOK
  <2>2. HandleFitsSocket'
    BY <1>7 DEF MoveConstruct, kernel, TypeOK, HandleFitsSocket
  <2> QED
    BY <2>1, <2>2
<1>8. ASSUME NEW o \in Objs, NEW s \in Objs, MoveAssign(o, s)
      PROVE  FitInv'
  <2>1. TypeOK'
    BY <1>8 DEF MoveAssign, Swapped, kernel, TypeOK
  <2>2. HandleFitsSocket'
    BY <1>8 DEF MoveAssign, Swapped, kernel, TypeOK, HandleFitsSocket
  <2> QED
    BY <2>1, <2>2
<1>9. ASSUME NEW a \in Objs, NEW b \in Objs, SameThreadHandshake(a, b)
      PROVE  FitInv'
  <2>1. TypeOK'
    BY <1>9 DEF SameThreadHandshake, kernel, TypeOK
  <2>2. HandleFitsSocket'
    BY <1>9 DEF SameThreadHandshake, kernel, HandleFitsSocket
  <2> QED
    BY <2>1, <2>2
<1>10. CASE UNCHANGED vars
  BY <1>10 DEF vars, TypeOK, HandleFitsSocket
<1> QED
  BY <1>1, <1>2, <1>3, <1>4, <1>5, <1>6, <1>7, <1>8, <1>9, <1>10 DEF Next

(* Spec => []TypeOK: every object's fields stay in their ranges. *)
THEOREM TypeCorrect == Spec => []TypeOK
<1>1. FitInv => TypeOK
  BY DEF FitInv
<1> QED
  BY InitFit, NextFit, <1>1, PTL DEF Spec

(* After any moves, swaps, reconnections and ends of objects, however many *)
(* there are, an SSL handle lies over the open descriptor of the socket    *)
(* beside it, and no other object has that descriptor.                     *)
THEOREM HandlesFit == Spec => []HandleFitsSocket
<1>1. FitInv => HandleFitsSocket
  BY DEF FitInv
<1> QED
  BY InitFit, NextFit, <1>1, PTL DEF Spec
-----------------------------------------------------------------------------
(* No descriptor is lost.                                                  *)

LostInv == NoOrphan /\ DisconnectedIsClosed

LEMMA InitLost == Init => LostInv
  BY DEF Init, LostInv, NoOrphan, DisconnectedIsClosed

(* What an object without an SSL handle has for a descriptor is not in     *)
(* open \ zero, so a new descriptor may replace it.                        *)
LEMMA AttachLost ==
  ASSUME FitInv, LostInv, NEW o \in Objs, NEW f \in Fds, NEW s \in {"client", "server"},
         NEW z \in BOOLEAN, Attach(o, f, s, z), ssl[o] = None
  PROVE  LostInv'
<1>1. /\ fd' = [fd EXCEPT ![o] = f] /\ ssl' = [ssl EXCEPT ![o] = f]
      /\ open' = open \cup {f} /\ zero \subseteq zero'
  BY DEF Attach
<1>2. fd \in [Objs -> Fds \cup {None}] /\ ssl \in [Objs -> Fds \cup {None}]
  BY DEF FitInv, TypeOK
<1>3. /\ \A q \in Objs : q # o => fd'[q] = fd[q] /\ ssl'[q] = ssl[q]
      /\ fd'[o] = f /\ ssl'[o] = f
  BY <1>1, <1>2
<1>4. fd[o] = None \/ fd[o] \in zero
  BY DEF LostInv, DisconnectedIsClosed
<1>5. NoOrphan'
  <2> SUFFICES ASSUME NEW g \in open', g \notin zero'
               PROVE  \E q \in Objs : fd'[q] = g
    BY DEF NoOrphan
  <2>1. CASE g = f
    BY <2>1, <1>3
  <2>2. CASE g # f
    <3>1. g \in open \ zero /\ g # None
      BY <2>2, <1>1, NoneIsNoFd DEF FitInv, TypeOK
    <3>2. PICK q \in Objs : fd[q] = g
      BY <3>1 DEF LostInv, NoOrphan
    <3> QED
      BY <3>1, <3>2, <1>3, <1>4
  <2> QED
    BY <2>1, <2>2
<1>6. DisconnectedIsClosed'
  BY <1>1, <1>3, NoneIsNoFd DEF LostInv, DisconnectedIsClosed
<1> QED
  BY <1>5, <1>6 DEF LostInv

LEMMA NextLost == FitInv /\ LostInv /\ [Next]_vars => LostInv'
<1> SUFFICES ASSUME FitInv, LostInv, [Next]_vars
             PROVE  LostInv'
  OBVIOUS
<1> USE DEF LostInv
<1>1. ASSUME NEW o \in Objs, Construct(o)
      PROVE  LostInv'
  BY <1>1 DEF Construct, kernel, NoOrphan, DisconnectedIsClosed
<1>2. ASSUME NEW o \in Objs, Connect(o)
      PROVE  LostInv'
  <2>1. PICK f \in Fds, z \in BOOLEAN : Attach(o, f, "client", z)
    BY <1>2 DEF Connect
  <2> QED
    BY <1>2, <2>1, AttachLost DEF Connect
<1>3. ASSUME NEW o \in Objs, Accept(o)
      PROVE  LostInv'
  <2>1. PICK f \in Fds : Attach(o, f, "server", FALSE)
    BY <1>3 DEF Accept
  <2>2. ssl[o] = None
    BY <1>3 DEF Accept, FitInv, TypeOK
  <2> QED
    BY <2>1, <2>2, AttachLost
<1>4. ASSUME NEW o \in Objs, Disconnect(o)
      PROVE  LostInv'
  BY <1>4 DEF Disconnect, SockConnected, FitInv, TypeOK, HandleFitsSocket,
              NoOrphan, DisconnectedIsClosed
<1>5. ASSUME NEW o \in Objs, Destroy(o)
      PROVE  LostInv'
  BY <1>5 DEF Destroy, FitInv, TypeOK, HandleFitsSocket, NoOrphan, DisconnectedIsClosed
<1>6. ASSUME NEW o \in Objs, Handshake(o)
      PROVE  LostInv'
  BY <1>6 DEF Handshake, kernel, NoOrphan, DisconnectedIsClosed
<1>7. ASSUME NEW o \in Objs, NEW s \in Objs, MoveConstruct(o, s)
      PROVE  LostInv'
  BY <1>7, NoneIsNoFd DEF MoveConstruct, kernel, FitInv, TypeOK, NoOrphan,
                          DisconnectedIsClosed
<1>8. ASSUME NEW o \in Objs, NEW s \in Objs, MoveAssign(o, s)
      PROVE  LostInv'
  BY <1>8 DEF MoveAssign, Swapped, kernel, FitInv, TypeOK, NoOrphan, DisconnectedIsClosed
<1>9. ASSUME NEW a \in Objs, NEW b \in Objs, SameThreadHandshake(a, b)
      PROVE  LostInv'
  BY <1>9 DEF SameThreadHandshake, kernel, NoOrphan, DisconnectedIsClosed
<1>10. CASE UNCHANGED vars
  BY <1>10 DEF vars, NoOrphan, DisconnectedIsClosed
<1> QED
  BY <1>1, <1>2, <1>3, <1>4, <1>5, <1>6, <1>7, <1>8, <1>9, <1>10 DEF Next

LEMMA InitKept == Init => FitInv /\ LostInv
  BY InitFit, InitLost

LEMMA NextKept == FitInv /\ LostInv /\ [Next]_vars => FitInv' /\ LostInv'
  BY NextFit, NextLost

(* Every open descriptor of a connection not made to "0.0.0.0" belongs to  *)
(* an object, whose end will close it.                                     *)
THEOREM NothingLost == Spec => []NoOrphan
<1>1. LostInv => NoOrphan
  BY DEF LostInv
<1> QED
  BY InitKept, NextKept, <1>1, PTL DEF Spec

(* disconnect() leaves no descriptor behind, unless it was connected to    *)
(* "0.0.0.0".                                                              *)
THEOREM DisconnectCloses == Spec => []DisconnectedIsClosed
<1>1. LostInv => DisconnectedIsClosed
  BY DEF LostInv
<1> QED
  BY InitKept, NextKept, <1>1, PTL DEF Spec
-----------------------------------------------------------------------------
(* Objects play the part their connection needs, as long as a moved-from   *)
(* object is not connected again.  What m_handshake says is right where    *)
(* there is a handle, and the default where there is none, except in       *)
(* moved-from objects.                                                     *)

RolesInv ==
  /\ \A o \in Objs : ssl[o] = None /\ o \notin moved => m_handshake[o] = "connect"
  /\ \A o \in moved : ssl[o] = None
  /\ RoleFits

LEMMA InitRoles == Init => RolesInv
  BY DEF Init, RolesInv, RoleFits

(* No handle but o's own is of a new descriptor. *)
LEMMA AttachRoles ==
  ASSUME FitInv, RolesInv, NEW o \in Objs, NEW f \in Fds, NEW s \in {"client", "server"},
         NEW z \in BOOLEAN, Attach(o, f, s, z), o \notin moved,
         moved' = moved, m_handshake' \in [Objs -> {"connect", "accept", "ok"}],
         m_handshake'[o] = IF s = "client" THEN "connect" ELSE "accept",
         \A q \in Objs : q # o => m_handshake'[q] = m_handshake[q]
  PROVE  RolesInv'
<1>1. /\ ssl' = [ssl EXCEPT ![o] = f] /\ side' = [side EXCEPT ![f] = s]
      /\ established' = established \ {f} /\ f \notin open
  BY DEF Attach
<1>2. /\ ssl \in [Objs -> Fds \cup {None}] /\ side \in [Fds -> {"client", "server"}]
      /\ moved \subseteq Objs
  BY DEF FitInv, TypeOK
<1>3. /\ \A q \in Objs : q # o => ssl'[q] = ssl[q]
      /\ ssl'[o] = f
      /\ side'[f] = s /\ \A g \in Fds : g # f => side'[g] = side[g]
  BY <1>1, <1>2
<1>4. \A q \in Objs : ssl[q] # f
  BY <1>1, NoneIsNoFd DEF FitInv, HandleFitsSocket
<1>5. \A q \in Objs : ssl'[q] = None /\ q \notin moved' => m_handshake'[q] = "connect"
  BY <1>3, NoneIsNoFd DEF RolesInv
<1>6. \A q \in moved' : ssl'[q] = None
  BY <1>2, <1>3 DEF RolesInv
<1>7. ASSUME NEW q \in Objs, q # o, ssl'[q] # None
      PROVE  IF m_handshake'[q] = "ok" THEN ssl'[q] \in established'
             ELSE m_handshake'[q] = Role(ssl[q])' /\ ssl'[q] \notin established'
  <2>1. ssl'[q] = ssl[q] /\ ssl[q] \in Fds /\ ssl[q] # f /\ m_handshake'[q] = m_handshake[q]
    BY <1>7, <1>2, <1>3, <1>4
  <2>2. Role(ssl[q])' = Role(ssl[q])
    BY <2>1, <1>3 DEF Role
  <2>3. IF m_handshake[q] = "ok" THEN ssl[q] \in established
        ELSE m_handshake[q] = Role(ssl[q]) /\ ssl[q] \notin established
    BY <2>1, <1>7 DEF RolesInv, RoleFits
  <2>4. ssl[q] \in established' <=> ssl[q] \in established
    BY <2>1, <1>1
  <2> QED
    BY <2>1, <2>2, <2>3, <2>4
<1>8. m_handshake'[o] = Role(ssl[o])' /\ ssl'[o] \notin established'
  <2>1. Role(ssl[o])' = IF s = "client" THEN "connect" ELSE "accept"
    BY <1>3 DEF Role
  <2> QED
    BY <2>1, <1>1, <1>3
<1>9. RoleFits'
  BY <1>7, <1>8 DEF RoleFits
<1> QED
  BY <1>5, <1>6, <1>9 DEF RolesInv

LEMMA NextRoles ==
  ASSUME ~ReuseMoved
  PROVE  FitInv /\ RolesInv /\ [Next]_vars => RolesInv'
<1> SUFFICES ASSUME FitInv, RolesInv, [Next]_vars
             PROVE  RolesInv'
  OBVIOUS
<1>1. ASSUME NEW o \in Objs, Construct(o)
      PROVE  RolesInv'
  BY <1>1 DEF Construct, kernel, RolesInv, RoleFits, Role
<1>2. ASSUME NEW o \in Objs, Connect(o)
      PROVE  RolesInv'
  <2>1. PICK f \in Fds, z \in BOOLEAN : Attach(o, f, "client", z)
    BY <1>2 DEF Connect
  <2>2. o \notin moved /\ ssl[o] = None /\ moved' = moved /\ m_handshake' = m_handshake
    BY <1>2 DEF Connect, Usable
  <2>3. m_handshake[o] = "connect"
    BY <2>2 DEF RolesInv
  <2>4. m_handshake' \in [Objs -> {"connect", "accept", "ok"}]
    BY <2>2 DEF FitInv, TypeOK
  <2> QED
    BY <2>1, <2>2, <2>3, <2>4, AttachRoles
<1>3. ASSUME NEW o \in Objs, Accept(o)
      PROVE  RolesInv'
  <2>1. PICK f \in Fds : Attach(o, f, "server", FALSE)
    BY <1>3 DEF Accept
  <2>2. /\ o \notin moved /\ moved' = moved
        /\ m_handshake' = [m_handshake EXCEPT ![o] = "accept"]
    BY <1>3 DEF Accept, FitInv, TypeOK
  <2>3. /\ m_handshake' \in [Objs -> {"connect", "accept", "ok"}]
        /\ m_handshake'[o] = "accept"
        /\ \A q \in Objs : q # o => m_handshake'[q] = m_handshake[q]
    BY <2>2 DEF FitInv, TypeOK
  <2> QED
    BY <2>1, <2>2, <2>3, AttachRoles
<1>4. ASSUME NEW o \in Objs, Disconnect(o)
      PROVE  RolesInv'
  BY <1>4 DEF Disconnect, FitInv, TypeOK, RolesInv, RoleFits, Role
<1>5. ASSUME NEW o \in Objs, Destroy(o)
      PROVE  RolesInv'
  BY <1>5 DEF Destroy, FitInv, TypeOK, RolesInv, RoleFits, Role
<1>6. ASSUME NEW o \in Objs, Handshake(o)
      PROVE  RolesInv'
  <2>1. \A q \in Objs : q # o => ssl[q] # ssl[o]
    BY <1>6 DEF Handshake, FitInv, HandleFitsSocket
  <2> QED
    BY <1>6, <2>1 DEF Handshake, kernel, FitInv, TypeOK, RolesInv, RoleFits, Role
<1>7. ASSUME NEW o \in Objs, NEW s \in Objs, MoveConstruct(o, s)
      PROVE  RolesInv'
  BY <1>7 DEF MoveConstruct, kernel, FitInv, TypeOK, RolesInv, RoleFits, Role
<1>8. ASSUME NEW o \in Objs, NEW s \in Objs, MoveAssign(o, s)
      PROVE  RolesInv'
  BY <1>8 DEF MoveAssign, Swapped, kernel, FitInv, TypeOK, RolesInv, RoleFits, Role
<1>9. ASSUME NEW a \in Objs, NEW b \in Objs, SameThreadHandshake(a, b)
      PROVE  RolesInv'
  <2>1. \A q \in Objs : /\ q # a => ssl[q] # ssl[a]
                        /\ q # b => ssl[q] # ssl[b]
    BY <1>9 DEF SameThreadHandshake, FitInv, HandleFitsSocket
  <2> QED
    BY <1>9, <2>1 DEF SameThreadHandshake, kernel, FitInv, TypeOK, RolesInv, RoleFits, Role
<1>10. CASE UNCHANGED vars
  BY <1>10 DEF vars, RolesInv, RoleFits, Role
<1> QED
  BY <1>1, <1>2, <1>3, <1>4, <1>5, <1>6, <1>7, <1>8, <1>9, <1>10 DEF Next

(* The role of every object is the one its connection needs, and none says *)
(* "ok" of a handle whose handshake has not been made, unless an object    *)
(* that was moved from is connected again.                                 *)
THEOREM RolesFit ==
  ASSUME ~ReuseMoved
  PROVE  Spec => []RoleFits
<1>1. RolesInv => RoleFits
  BY DEF RolesInv
<1>2. Init => FitInv /\ RolesInv
  BY InitFit, InitRoles
<1>3. FitInv /\ RolesInv /\ [Next]_vars => FitInv' /\ RolesInv'
  BY NextFit, NextRoles
<1> QED
  BY <1>1, <1>2, <1>3, PTL DEF Spec
=============================================================================
