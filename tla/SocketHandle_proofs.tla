------------------------ MODULE SocketHandle_proofs ------------------------
(***************************************************************************)
(* Proofs about SocketHandle for every number of objects, descriptors,     *)
(* addresses and ports.  The argument: a fresh descriptor is closed before *)
(* the call, and whatever an object holds is open, so it is not held; a    *)
(* move passes the number on and forgets it; hence a number is held once,  *)
(* and closing it takes an open descriptor from nobody else.               *)
(***************************************************************************)
EXTENDS SocketHandle, TLAPS

Handles == TypeOK /\ UniqueHandle /\ HeldIsOpen

LEMMA InitHandles == Init => Handles
  BY HandleAssumption DEF Init, Handles, TypeOK, UniqueHandle, HeldIsOpen

(* A descriptor the kernel hands out is held by no object. *)
LEMMA FreshIsUnheld ==
  ASSUME Handles, NEW f \in Fds, kind[f] = "closed"
  PROVE  \A o \in Objs : sd[o] # f
  BY HandleAssumption DEF Handles, HeldIsOpen

LEMMA NextHandles == Handles /\ [Next]_vars => Handles'
<1> SUFFICES ASSUME Handles, [Next]_vars PROVE Handles'
  OBVIOUS
<1> USE HandleAssumption DEF Handles, NetPorts
<1>1. ASSUME NEW o \in Objs, Construct(o) PROVE Handles'
  BY <1>1 DEF Construct, kernel, TypeOK, UniqueHandle, HeldIsOpen
<1>2. ASSUME NEW o \in Objs, Destroy(o) PROVE Handles'
  <2>1. TypeOK'
    BY <1>2 DEF Destroy, SetFields, CloseFd, kernel, TypeOK
  <2>2. UniqueHandle'
    BY <1>2 DEF Destroy, SetFields, UniqueHandle, TypeOK
  <2>3. HeldIsOpen'
    BY <1>2 DEF Destroy, SetFields, CloseFd, kernel, TypeOK, UniqueHandle, HeldIsOpen
  <2> QED BY <2>1, <2>2, <2>3
<1>3. ASSUME NEW o \in Objs, NEW s \in Objs, MoveConstruct(o, s) \/ MoveAssign(o, s)
      PROVE Handles'
  <2>1. TypeOK'
    BY <1>3 DEF MoveConstruct, MoveAssign, kernel, TypeOK
  <2>2. UniqueHandle'
    BY <1>3 DEF MoveConstruct, MoveAssign, UniqueHandle, TypeOK
  <2>3. HeldIsOpen'
    BY <1>3 DEF MoveConstruct, MoveAssign, kernel, TypeOK, HeldIsOpen
  <2> QED BY <2>1, <2>2, <2>3
<1>4. ASSUME NEW o \in Objs, NEW p \in Ports, Listen(o, p) PROVE Handles'
  <2>1. PICK f \in Fds, b \in NetPorts \ PortsInUse :
          /\ kind[f] = "closed"
          /\ kind' = [kind EXCEPT ![f] = "listening"]
          /\ bound' = [bound EXCEPT ![f] = b]
          /\ SetFields(o, f, AnyAddr, p)
    BY <1>4 DEF Listen
  <2>2. TypeOK'
    BY <1>4, <2>1 DEF Listen, SetFields, TypeOK
  <2>3. UniqueHandle' /\ HeldIsOpen'
    BY <2>1, FreshIsUnheld DEF SetFields, TypeOK, UniqueHandle, HeldIsOpen
  <2> QED BY <2>2, <2>3
<1>5. ASSUME NEW f \in Fds, ClientArrives(f) PROVE Handles'
  BY <1>5 DEF ClientArrives, object, TypeOK, UniqueHandle, HeldIsOpen
<1>6. ASSUME NEW o \in Objs, NEW t \in Objs, Accept(o, t) PROVE Handles'
  <2>1. PICK f \in Fds, a \in Addrs \ {AnyAddr}, p \in NetPorts :
          /\ kind[f] = "closed"
          /\ kind' = [kind EXCEPT ![f] = "stream"]
          /\ SetFields(t, f, a, p)
    BY <1>6 DEF Accept
  <2>2. TypeOK'
    BY <1>6, <2>1 DEF Accept, ClientWaiting, IsListening, SetFields, TypeOK
  <2>3. UniqueHandle' /\ HeldIsOpen'
    BY <2>1, FreshIsUnheld DEF SetFields, TypeOK, UniqueHandle, HeldIsOpen
  <2> QED BY <2>2, <2>3
<1>7. ASSUME NEW o \in Objs, AcceptFails(o) PROVE Handles'
  BY <1>7 DEF AcceptFails, ClientWaiting, IsListening, object, TypeOK, UniqueHandle, HeldIsOpen
<1>8. ASSUME NEW o \in Objs, NEW a \in Addrs, NEW p \in Ports, Connect(o, a, p)
      PROVE Handles'
  <2>1. PICK f \in Fds :
          /\ kind[f] = "closed"
          /\ kind' = [kind EXCEPT ![f] = "stream"]
          /\ SetFields(o, f, a, p)
    BY <1>8 DEF Connect
  <2>2. TypeOK'
    BY <1>8, <2>1 DEF Connect, SetFields, TypeOK
  <2>3. UniqueHandle' /\ HeldIsOpen'
    BY <2>1, FreshIsUnheld DEF SetFields, TypeOK, UniqueHandle, HeldIsOpen
  <2> QED BY <2>2, <2>3
<1>9. ASSUME NEW o \in Objs, Disconnect(o) PROVE Handles'
  <2>1. TypeOK'
    BY <1>9 DEF Disconnect, IsConnected, SetFields, CloseFd, TypeOK
  <2>2. UniqueHandle' /\ HeldIsOpen'
    BY <1>9 DEF Disconnect, IsConnected, SetFields, CloseFd, TypeOK, UniqueHandle, HeldIsOpen
  <2> QED BY <2>1, <2>2
<1>10. CASE UNCHANGED vars
  BY <1>10 DEF vars, TypeOK, UniqueHandle, HeldIsOpen
<1> QED BY <1>1, <1>2, <1>3, <1>4, <1>5, <1>6, <1>7, <1>8, <1>9, <1>10 DEF Next

(* The variables stay in their ranges, whatever is called in which order.  *)
THEOREM TypeCorrect == Spec => []TypeOK
<1>1. Handles => TypeOK
  BY DEF Handles
<1> QED BY <1>1, InitHandles, NextHandles, PTL DEF Spec

(* No descriptor is held by two objects, and none that is held is closed:  *)
(* closing and using a descriptor through its object never hits another's. *)
THEOREM HandlesAreUniqueAndOpen == Spec => []OneOpenOwner
<1>1. Handles => OneOpenOwner
  BY DEF Handles, OneOpenOwner
<1> QED BY <1>1, InitHandles, NextHandles, PTL DEF Spec
-----------------------------------------------------------------------------
LEMMA NextConnected ==
  Handles /\ ConnectedIsStream /\ [Next]_vars => ConnectedIsStream'
<1> SUFFICES ASSUME Handles, ConnectedIsStream, [Next]_vars PROVE ConnectedIsStream'
  OBVIOUS
<1> USE HandleAssumption DEF Handles, ConnectedIsStream, IsConnected
<1>1. ASSUME NEW o \in Objs, Construct(o) \/ AcceptFails(o) PROVE ConnectedIsStream'
  BY <1>1 DEF Construct, AcceptFails, kernel, object
<1>2. ASSUME NEW o \in Objs, Destroy(o) \/ Disconnect(o) PROVE ConnectedIsStream'
  BY <1>2 DEF Destroy, Disconnect, SetFields, CloseFd, kernel, TypeOK, UniqueHandle
<1>3. ASSUME NEW o \in Objs, NEW s \in Objs, MoveConstruct(o, s) \/ MoveAssign(o, s)
      PROVE ConnectedIsStream'
  BY <1>3 DEF MoveConstruct, MoveAssign, kernel, TypeOK
<1>4. ASSUME NEW o \in Objs, NEW p \in Ports, Listen(o, p) PROVE ConnectedIsStream'
  BY <1>4, FreshIsUnheld DEF Listen, SetFields, TypeOK
<1>5. ASSUME NEW f \in Fds, ClientArrives(f) PROVE ConnectedIsStream'
  BY <1>5 DEF ClientArrives, object
<1>6. ASSUME NEW o \in Objs, NEW t \in Objs, Accept(o, t) PROVE ConnectedIsStream'
  BY <1>6, FreshIsUnheld DEF Accept, SetFields, TypeOK
<1>7. ASSUME NEW o \in Objs, NEW a \in Addrs, NEW p \in Ports, Connect(o, a, p)
      PROVE ConnectedIsStream'
  BY <1>7, FreshIsUnheld DEF Connect, SetFields, TypeOK
<1>8. CASE UNCHANGED vars
  BY <1>8 DEF vars
<1> QED BY <1>1, <1>2, <1>3, <1>4, <1>5, <1>6, <1>7, <1>8 DEF Next

(* is_connected() is never answered true for a listening descriptor.       *)
THEOREM ConnectedIsNeverListener == Spec => []ConnectedIsStream
<1>1. Init => ConnectedIsStream
  BY DEF Init, ConnectedIsStream, IsConnected
<1> QED BY <1>1, InitHandles, NextHandles, NextConnected, PTL DEF Spec
-----------------------------------------------------------------------------
(* Addresses and ports with which the fields of an object tell what it is. *)
Telling == AnyAddr \notin Addrs /\ Ports \subseteq NetPorts

LEMMA NextTruth ==
  Telling /\ Handles /\ FieldsTellTruth /\ [Next]_vars => FieldsTellTruth'
<1> SUFFICES ASSUME Telling, Handles, FieldsTellTruth, [Next]_vars
             PROVE  FieldsTellTruth'
  OBVIOUS
<1> USE HandleAssumption
    DEF Telling, Handles, FieldsTellTruth, IsConnected, IsListening, NetPorts
<1>1. ASSUME NEW o \in Objs, Construct(o) PROVE FieldsTellTruth'
  BY <1>1 DEF Construct, kernel
<1>2. ASSUME NEW o \in Objs, Destroy(o) \/ Disconnect(o) PROVE FieldsTellTruth'
  BY <1>2 DEF Destroy, Disconnect, SetFields, CloseFd, kernel, TypeOK, UniqueHandle
<1>3. ASSUME NEW o \in Objs, NEW s \in Objs, MoveConstruct(o, s) \/ MoveAssign(o, s)
      PROVE FieldsTellTruth'
  BY <1>3 DEF MoveConstruct, MoveAssign, kernel, TypeOK
<1>4. ASSUME NEW o \in Objs, NEW p \in Ports, Listen(o, p) PROVE FieldsTellTruth'
  <2>1. PICK f \in Fds, b \in NetPorts \ PortsInUse :
          /\ p % PortMod \in {0, b}
          /\ kind[f] = "closed"
          /\ kind' = [kind EXCEPT ![f] = "listening"]
          /\ bound' = [bound EXCEPT ![f] = b]
          /\ SetFields(o, f, AnyAddr, p)
    BY <1>4 DEF Listen
  <2>2. p = b /\ p # 0
    <3>1. p % PortMod = p
      OBVIOUS
    <3> QED BY <2>1, <3>1
  <2> QED BY <2>1, <2>2, FreshIsUnheld DEF SetFields, TypeOK
<1>5. ASSUME NEW f \in Fds, ClientArrives(f) PROVE FieldsTellTruth'
  BY <1>5 DEF ClientArrives, object
<1>6. ASSUME NEW o \in Objs, NEW t \in Objs, Accept(o, t) PROVE FieldsTellTruth'
  BY <1>6, FreshIsUnheld DEF Accept, SetFields, TypeOK
<1>7. ASSUME NEW o \in Objs, AcceptFails(o) PROVE FieldsTellTruth'
  BY <1>7 DEF AcceptFails, object
<1>8. ASSUME NEW o \in Objs, NEW a \in Addrs, NEW p \in Ports, Connect(o, a, p)
      PROVE FieldsTellTruth'
  BY <1>8, FreshIsUnheld DEF Connect, SetFields, TypeOK
<1>9. CASE UNCHANGED vars
  BY <1>9 DEF vars
<1> QED BY <1>1, <1>2, <1>3, <1>4, <1>5, <1>6, <1>7, <1>8, <1>9 DEF Next

(* As long as nobody connects to 0.0.0.0 and ports fit into 16 bits and    *)
(* are not 0, an object's answers about itself are what the kernel has.    *)
THEOREM FieldsAreTrue ==
  ASSUME Telling PROVE Spec => []FieldsTellTruth
<1>1. Init => FieldsTellTruth
  BY DEF Init, FieldsTellTruth
<1>2. Handles /\ FieldsTellTruth /\ [Next]_vars => FieldsTellTruth'
  BY NextTruth
<1> QED BY <1>1, <1>2, InitHandles, NextHandles, PTL DEF Spec
-----------------------------------------------------------------------------
(* What a step does to one descriptor that was held and is not any more.   *)
LEMMA StepOrphans ==
  ASSUME Handles, Next,
         NEW f \in Fds, Held(f), ~Held(f)', kind'[f] # "closed"
  PROVE  \E o, s \in Objs : sd[o] = f /\ MoveAssign(o, s)
<1>1. PICK h \in Objs : sd[h] = f
  BY DEF Held
<1> USE HandleAssumption DEF Handles, TypeOK, Held
<1>2. ASSUME NEW o \in Objs, Construct(o) \/ AcceptFails(o) PROVE FALSE
  BY <1>1, <1>2 DEF Construct, AcceptFails, object
<1>3. ASSUME NEW o \in Objs, Destroy(o) \/ Disconnect(o) PROVE FALSE
  BY <1>1, <1>3 DEF Destroy, Disconnect, SetFields, CloseFd, kernel
<1>4. ASSUME NEW o \in Objs, NEW s \in Objs, MoveConstruct(o, s) PROVE FALSE
  BY <1>1, <1>4 DEF MoveConstruct
<1>5. ASSUME NEW o \in Objs, NEW s \in Objs, MoveAssign(o, s) PROVE sd[o] = f
  BY <1>1, <1>5 DEF MoveAssign
<1>6. ASSUME NEW o \in Objs, NEW p \in Ports, Listen(o, p) PROVE FALSE
  BY <1>1, <1>6 DEF Listen, SetFields
<1>7. ASSUME NEW g \in Fds, ClientArrives(g) PROVE FALSE
  BY <1>1, <1>7 DEF ClientArrives, object
<1>8. ASSUME NEW o \in Objs, NEW t \in Objs, Accept(o, t) PROVE FALSE
  BY <1>1, <1>8 DEF Accept, SetFields
<1>9. ASSUME NEW o \in Objs, NEW a \in Addrs, NEW p \in Ports, Connect(o, a, p)
      PROVE FALSE
  BY <1>1, <1>9 DEF Connect, SetFields
<1> QED BY <1>2, <1>3, <1>4, <1>5, <1>6, <1>7, <1>8, <1>9 DEF Next

(* An open descriptor is lost by assigning over the object that held it,   *)
(* and by nothing else that an object can do.                              *)
THEOREM LostOnlyByAssignment == Spec => OrphanedOnlyByAssign
<1>1. Handles /\ [Next]_vars =>
        [\A f \in Fds : Held(f) /\ ~Held(f)' /\ kind'[f] # "closed"
           => \E o, s \in Objs : sd[o] = f /\ MoveAssign(o, s)]_vars
  BY StepOrphans
<1> QED BY <1>1, InitHandles, NextHandles, PTL DEF Spec, OrphanedOnlyByAssign
-----------------------------------------------------------------------------
(* The refinement mapping says who holds what. *)
OwnerIsHolder ==
  /\ Owner \in [Fds -> Objs \cup {"nobody", "lost"}]
  /\ \A f \in Fds : Owner[f] = "nobody" <=> kind[f] = "closed"
  /\ \A f \in Fds, o \in Objs : Owner[f] = o <=> sd[o] = f

LEMMA OwnerFacts == Handles => OwnerIsHolder
<1> SUFFICES ASSUME Handles PROVE OwnerIsHolder
  OBVIOUS
<1> USE HandleAssumption DEF Handles
<1>1. ASSUME NEW f \in Fds, Held(f)
      PROVE  \E o \in Objs : sd[o] = f /\ Owner[f] = o /\ kind[f] # "closed"
  BY <1>1 DEF Held, Owner, HeldIsOpen
<1>2. ASSUME NEW f \in Fds, ~Held(f)
      PROVE  Owner[f] = IF kind[f] = "closed" THEN "nobody" ELSE "lost"
  BY <1>2 DEF Owner
<1>3. Owner \in [Fds -> Objs \cup {"nobody", "lost"}]
  BY <1>1, <1>2 DEF Owner
<1>4. \A f \in Fds : Owner[f] = "nobody" <=> kind[f] = "closed"
  BY <1>1, <1>2
<1>5. \A f \in Fds, o \in Objs : Owner[f] = o <=> sd[o] = f
  BY <1>1, <1>2 DEF Held, UniqueHandle
<1> QED BY <1>3, <1>4, <1>5 DEF OwnerIsHolder

LEMMA StepRefines ==
  ASSUME Handles, Handles', Next, OwnerIsHolder, OwnerIsHolder'
  PROVE  Abstract!Next \/ UNCHANGED Owner
<1> USE HandleAssumption DEF Handles, TypeOK, OwnerIsHolder
<1>1. ASSUME UNCHANGED <<sd, kind>> PROVE UNCHANGED Owner
  BY <1>1 DEF Owner, Held
<1>2. ASSUME NEW o \in Objs, NEW f \in Fds, kind[f] = "closed", sd[o] = Invalid,
             sd' = [sd EXCEPT ![o] = f],
             kind'[f] # "closed", \A g \in Fds : g # f => kind'[g] = kind[g]
      PROVE  Abstract!Next
  <2>1. Abstract!Holds(o) = {}
    BY <1>2 DEF Abstract!Holds
  <2>2. Owner' = [Owner EXCEPT ![f] = o]
    <3>1. Owner'[f] = o
      BY <1>2
    <3>2. ASSUME NEW g \in Fds, g # f PROVE Owner'[g] = Owner[g]
      <4>1. kind'[g] = kind[g] /\ \A h \in Objs : sd'[h] = g <=> sd[h] = g
        BY <1>2, <3>2
      <4> QED BY <4>1
    <3> QED BY <3>1, <3>2
  <2>3. Abstract!Acquire(o, f)
    BY <1>2, <2>1, <2>2 DEF Abstract!Acquire
  <2> QED BY <2>3 DEF Abstract!Next
<1>3. ASSUME NEW o \in Objs, NEW f \in Fds, sd[o] = f,
             sd' = [sd EXCEPT ![o] = Invalid],
             kind' = [kind EXCEPT ![f] = "closed"]
      PROVE  Abstract!Next
  <2>1. Owner' = [Owner EXCEPT ![f] = "nobody"]
    <3>1. Owner'[f] = "nobody"
      BY <1>3
    <3>2. ASSUME NEW g \in Fds, g # f PROVE Owner'[g] = Owner[g]
      <4>1. kind'[g] = kind[g] /\ \A h \in Objs : sd'[h] = g <=> sd[h] = g
        BY <1>3, <3>2
      <4> QED BY <4>1
    <3> QED BY <3>1, <3>2
  <2>2. Abstract!Release(o, f)
    BY <1>3, <2>1 DEF Abstract!Release
  <2> QED BY <2>2 DEF Abstract!Next
<1>4. ASSUME NEW o \in Objs, NEW s \in Objs, UNCHANGED kind,
             sd' = [sd EXCEPT ![o] = sd[s], ![s] = Invalid]
      PROVE  Abstract!Next
  <2>1. ASSUME NEW f \in Fds
        PROVE  Owner'[f] = IF Owner[f] = o THEN "lost"
                           ELSE IF Owner[f] = s THEN o ELSE Owner[f]
    <3>1. CASE Owner[f] = o
      <4>1. sd[o] = f /\ kind'[f] # "closed" /\ \A h \in Objs : sd'[h] # f
        BY <1>4, <3>1 DEF UniqueHandle
      <4> QED BY <3>1, <4>1
    <3>2. CASE Owner[f] = s /\ s # o
      BY <1>4, <3>2
    <3>3. CASE Owner[f] # o /\ Owner[f] # s
      <4>1. \A h \in Objs : sd'[h] = f <=> sd[h] = f
        BY <1>4, <3>3
      <4> QED BY <1>4, <3>3, <4>1
    <3> QED BY <3>1, <3>2, <3>3
  <2>2. Abstract!Take(o, s)
    BY <2>1 DEF Abstract!Take
  <2> QED BY <2>2 DEF Abstract!Next
<1>5. ASSUME NEW o \in Objs, Construct(o) \/ AcceptFails(o) PROVE UNCHANGED Owner
  BY <1>1, <1>5 DEF Construct, AcceptFails, kernel, object
<1>6. ASSUME NEW o \in Objs, Destroy(o) \/ Disconnect(o)
      PROVE  Abstract!Next \/ UNCHANGED Owner
  <2>1. CASE sd[o] = Invalid
    BY <1>1, <1>6, <2>1 DEF Destroy, Disconnect, IsConnected, SetFields, kernel
  <2>2. CASE sd[o] # Invalid
    BY <1>3, <1>6, <2>2 DEF Destroy, Disconnect, SetFields, CloseFd
  <2> QED BY <2>1, <2>2
<1>7. ASSUME NEW o \in Objs, NEW s \in Objs, MoveConstruct(o, s) \/ MoveAssign(o, s)
      PROVE  Abstract!Next
  BY <1>4, <1>7 DEF MoveConstruct, MoveAssign, kernel
<1>8. ASSUME NEW o \in Objs, NEW p \in Ports, Listen(o, p) PROVE Abstract!Next
  <2>1. PICK f \in Fds : /\ kind[f] = "closed"
                         /\ kind' = [kind EXCEPT ![f] = "listening"]
                         /\ sd' = [sd EXCEPT ![o] = f]
    BY <1>8 DEF Listen, SetFields
  <2>2. sd[o] = Invalid
    BY <1>8 DEF Listen
  <2>3. kind'[f] # "closed" /\ \A g \in Fds : g # f => kind'[g] = kind[g]
    BY <2>1
  <2> HIDE DEF Handles, TypeOK, OwnerIsHolder
  <2> QED BY <1>2, <2>1, <2>2, <2>3, Zenon
<1>9. ASSUME NEW f \in Fds, ClientArrives(f) PROVE UNCHANGED Owner
  BY <1>1, <1>9 DEF ClientArrives, object
<1>10. ASSUME NEW o \in Objs, NEW t \in Objs, Accept(o, t) PROVE Abstract!Next
  <2>1. PICK f \in Fds : /\ kind[f] = "closed"
                         /\ kind' = [kind EXCEPT ![f] = "stream"]
                         /\ sd' = [sd EXCEPT ![t] = f]
    BY <1>10 DEF Accept, SetFields
  <2>2. sd[t] = Invalid
    BY <1>10 DEF Accept
  <2>3. kind'[f] # "closed" /\ \A g \in Fds : g # f => kind'[g] = kind[g]
    BY <2>1
  <2> HIDE DEF Handles, TypeOK, OwnerIsHolder
  <2> QED BY <1>2, <2>1, <2>2, <2>3, Zenon
<1>11. ASSUME NEW o \in Objs, NEW a \in Addrs, NEW p \in Ports, Connect(o, a, p)
       PROVE  Abstract!Next
  <2>1. PICK f \in Fds : /\ kind[f] = "closed"
                         /\ kind' = [kind EXCEPT ![f] = "stream"]
                         /\ sd' = [sd EXCEPT ![o] = f]
    BY <1>11 DEF Connect, SetFields
  <2>2. sd[o] = Invalid
    BY <1>11 DEF Connect
  <2>3. kind'[f] # "closed" /\ \A g \in Fds : g # f => kind'[g] = kind[g]
    BY <2>1
  <2> HIDE DEF Handles, TypeOK, OwnerIsHolder
  <2> QED BY <1>2, <2>1, <2>2, <2>3, Zenon
<1> QED BY <1>5, <1>6, <1>7, <1>8, <1>9, <1>10, <1>11 DEF Next

(* The class implements the ownership protocol of module Ownership.        *)
THEOREM RefinesOwnership == Spec => ImplementsOwnership
<1>1. Init => Abstract!Init
  BY DEF Init, Abstract!Init, Owner
<1>2. (Handles => OwnerIsHolder) /\ (Handles => OwnerIsHolder)'
  BY OwnerFacts, PTL
<1>3. Handles /\ Handles' /\ [Next]_vars => [Abstract!Next]_Owner
  BY <1>2, StepRefines DEF vars, Owner, Held
<1> QED BY <1>1, <1>3, InitHandles, NextHandles, PTL
        DEF Spec, ImplementsOwnership, Abstract!Spec
=============================================================================
