-------------------------- MODULE WinSocket_proofs --------------------------
(***************************************************************************)
(* Proofs about WinSocket for every finite number of objects and every set *)
(* of handles.  The argument: an object enters and leaves the set that is  *)
(* counted in the steps that count, so the counter is its size, and 0 only *)
(* when it is empty; hence one object at most is starting the library, and *)
(* who counts to 0 is the last.  In a program that makes and ends its      *)
(* objects one at a time, or keeps one, nobody else holds a handle then.   *)
(***************************************************************************)
EXTENDS WinSocket, FiniteSetTheorems, TLAPS

(* How the objects in a phase change when o goes from phase p to phase q. *)
LEMMA PhaseChange ==
  ASSUME TypeOK, NEW o \in Objs, NEW p, NEW q,
         phase[o] = p, p # q, phase' = [phase EXCEPT ![o] = q]
  PROVE  /\ InPhase(p)' = InPhase(p) \ {o} /\ o \in InPhase(p)
         /\ InPhase(q)' = InPhase(q) \cup {o} /\ o \notin InPhase(q)
         /\ \A r : r # p /\ r # q => InPhase(r)' = InPhase(r) /\ o \notin InPhase(r)
  BY DEF TypeOK, InPhase

LEMMA PhasesAreFinite ==
  ASSUME NEW S \in SUBSET Objs
  PROVE  /\ IsFiniteSet(S) /\ Cardinality(S) \in Nat
         /\ Cardinality(S) = 0 <=> S = {}
         /\ \A o \in Objs \ S : Cardinality(S \cup {o}) = Cardinality(S) + 1
         /\ \A o \in S : Cardinality(S \ {o}) = Cardinality(S) - 1
<1>1. IsFiniteSet(S)
  BY WinAssumption, FS_Subset
<1> QED BY <1>1, FS_CardinalityType, FS_EmptySet, FS_AddElement, FS_RemoveElement

(* The counter, and who may be starting the library. *)
OneStarting == \A o, p \in Starting : o = p
Counting ==
  /\ TypeOK /\ CountedOnce /\ StartedOnce /\ OneStarting
  /\ Starting # {} => ~failed

LEMMA InitCounting == Init => Counting
<1> SUFFICES ASSUME Init PROVE Counting
  OBVIOUS
<1>1. /\ InPhase("starting") = {} /\ InPhase("refusing") = {}
      /\ InPhase("dropping") = {} /\ InPhase("cleaning") = {}
      /\ InPhase("alive") = keepers
  BY DEF Init, InPhase
<1>2. Counted = keepers /\ Starting = {} /\ Cardinality({}) = 0
  BY <1>1, FS_EmptySet DEF Counted, Starting
<1>3. Cardinality(keepers) \in Nat /\ (Cardinality(keepers) = 0 <=> keepers = {})
  BY PhasesAreFinite DEF Init
<1>4. TypeOK
  BY <1>3 DEF Init, TypeOK, Alive
<1>5. CountedOnce
  BY <1>2, <1>3 DEF Init, CountedOnce
<1>6. StartedOnce
  <2>1. CASE keepers = {}
    BY <1>1, <1>2, <1>3, <2>1 DEF Init, StartedOnce
  <2>2. CASE keepers # {}
    <3>1. wsa_lib_instances > 0 /\ started = 1 /\ ~failed
      BY <1>3, <2>2 DEF Init
    <3>2. Cardinality(InPhase("cleaning")) = 0 /\ Cardinality(InPhase("refusing")) = 0
      BY <1>1, <1>2
    <3> QED BY <1>2, <3>1, <3>2 DEF StartedOnce
  <2> QED BY <2>1, <2>2
<1> QED BY <1>2, <1>4, <1>5, <1>6 DEF Counting, OneStarting

(* The sets the invariant counts are finite. *)
LEMMA Sizes ==
  /\ Counted \in SUBSET Objs /\ Cardinality(Counted) \in Nat
  /\ InPhase("cleaning") \in SUBSET Objs /\ Cardinality(InPhase("cleaning")) \in Nat
  /\ InPhase("refusing") \in SUBSET Objs /\ Cardinality(InPhase("refusing")) \in Nat
<1>1. /\ Counted \in SUBSET Objs
      /\ InPhase("cleaning") \in SUBSET Objs /\ InPhase("refusing") \in SUBSET Objs
  BY DEF Counted, Starting, InPhase
<1> QED BY <1>1, PhasesAreFinite

LEMMA SameCounting ==
  ASSUME Counting, TypeOK', UNCHANGED <<phase, wsa_lib_instances, started, failed>>
  PROVE  Counting'
<1>1. \A p : InPhase(p)' = InPhase(p)
  BY DEF InPhase
<1>2. Counted' = Counted /\ Starting' = Starting
  BY <1>1 DEF Counted, Starting
<1> QED BY <1>1, <1>2 DEF Counting, CountedOnce, StartedOnce, OneStarting

(* WSA_init: the object is counted, and starts the library only when no    *)
(* other is counted.                                                       *)
LEMMA InitCounts ==
  ASSUME Counting, TypeOK', NEW o \in Objs, phase[o] = "none", WSA_init(o),
         UNCHANGED <<started, failed>>
  PROVE  Counting'
<1> USE DEF Counting, CountedOnce, StartedOnce
<1>1. wsa_lib_instances' = wsa_lib_instances + 1
  BY DEF WSA_init
<1>2. PICK q \in {"starting", "alive"} :
        /\ phase' = [phase EXCEPT ![o] = q]
        /\ q = "starting" <=> wsa_lib_instances = 0
  BY DEF WSA_init
<1>3. /\ InPhase(q)' = InPhase(q) \cup {o}
      /\ \A r : r # "none" /\ r # q => InPhase(r)' = InPhase(r)
      /\ \A r : r # "none" => o \notin InPhase(r)
  BY <1>2, PhaseChange
<1>4. Counted' = Counted \cup {o} /\ o \notin Counted
  BY <1>2, <1>3 DEF Counted, Starting
<1>5. /\ InPhase("cleaning")' = InPhase("cleaning")
      /\ InPhase("refusing")' = InPhase("refusing")
  BY <1>2, <1>3
<1>6. Cardinality(Counted)' = Cardinality(Counted) + 1
  BY <1>4, Sizes, PhasesAreFinite
<1>7. CountedOnce'
  BY <1>1, <1>6, Sizes
<1>8. CASE wsa_lib_instances = 0
  <2>1. Counted = {} /\ ~failed
    BY <1>8, Sizes, PhasesAreFinite
  <2>2. Starting' = {o}
    BY <1>2, <1>3, <1>8, <2>1 DEF Counted, Starting
  <2> QED BY <1>1, <1>5, <1>7, <1>8, <2>1, <2>2 DEF OneStarting, TypeOK
<1>9. CASE wsa_lib_instances # 0
  <2>1. Starting' = Starting
    BY <1>2, <1>3, <1>9 DEF Starting
  <2> QED BY <1>1, <1>5, <1>7, <1>9, <2>1 DEF OneStarting, TypeOK
<1> QED BY <1>8, <1>9

(* Whoever is counted keeps the counter above 0, and who is about to stop  *)
(* the library has a start to give back.                                   *)
LEMMA TheCounterTells ==
  ASSUME Counting, NEW o \in Objs
  PROVE  /\ o \in Counted <=> phase[o] \in {"starting", "refusing", "alive", "dropping"}
         /\ o \in Counted => wsa_lib_instances > 0
         /\ phase[o] \in {"cleaning", "refusing"} => started > 0
         /\ wsa_lib_instances = 0 => Counted = {} /\ ~failed
         /\ o \in Counted /\ wsa_lib_instances = 1 => Counted = {o} /\ ~failed
<1> USE DEF Counting, TypeOK
<1>1. /\ Cardinality(Counted) = 0 <=> Counted = {}
      /\ Cardinality(InPhase("cleaning")) = 0 <=> InPhase("cleaning") = {}
      /\ Cardinality(InPhase("refusing")) = 0 <=> InPhase("refusing") = {}
  BY Sizes, PhasesAreFinite
<1>2. phase[o] \in {"starting", "refusing", "alive", "dropping"} <=> o \in Counted
  BY DEF Counted, Starting, InPhase
<1>3. o \in Counted => wsa_lib_instances > 0
  BY <1>1, Sizes DEF CountedOnce
<1>4. phase[o] \in {"cleaning", "refusing"} => started > 0
  <2>1. phase[o] \in {"cleaning", "refusing"} =>
          InPhase("cleaning") # {} \/ InPhase("refusing") # {}
    BY DEF InPhase
  <2> QED BY <1>1, <2>1, Sizes DEF StartedOnce
<1>5. wsa_lib_instances = 0 => Counted = {} /\ ~failed
  BY <1>1, Sizes DEF CountedOnce
<1>6. ASSUME o \in Counted, wsa_lib_instances = 1 PROVE Counted = {o} /\ ~failed
  <2>1. Counted \ {o} \in SUBSET Objs
    BY Sizes
  <2>2. /\ Cardinality(Counted \ {o}) = Cardinality(Counted) - 1
        /\ Cardinality(Counted \ {o}) \in Nat
        /\ Cardinality(Counted \ {o}) = 0 <=> Counted \ {o} = {}
    BY <1>6, <2>1, Sizes, PhasesAreFinite
  <2>3. ~failed /\ Cardinality(Counted \ {o}) = 0
    BY <1>1, <1>6, <2>2, Sizes DEF CountedOnce
  <2> QED BY <1>6, <2>2, <2>3
<1> QED BY <1>2, <1>3, <1>4, <1>5, <1>6

LEMMA NextType == Counting /\ [Next]_vars => TypeOK'
<1> SUFFICES ASSUME Counting, [Next]_vars PROVE TypeOK'
  OBVIOUS
<1> USE WinAssumption DEF Counting, TypeOK, Alive
<1>1. /\ serial' \in BOOLEAN /\ keepers' \in SUBSET Objs /\ right_version' \in BOOLEAN
  BY DEF Next, vars, setting
<1>2. ASSUME NEW o \in Objs, Construct(o) PROVE TypeOK'
  BY <1>1, <1>2 DEF Construct, WSA_init, object, library
<1>3. ASSUME NEW o \in Objs, WSAStartup(o) PROVE TypeOK'
  BY <1>1, <1>3, SMTT(40) DEF WSAStartup, object
<1>4. ASSUME NEW o \in Objs, WSAStartupFails(o) PROVE TypeOK'
  BY <1>1, <1>4, SMTT(40) DEF WSAStartupFails, object, library
<1>5. ASSUME NEW o \in Objs, WSACleanup(o) \/ WSARefuses(o) PROVE TypeOK'
  <2>1. started > 0
    BY <1>5, TheCounterTells DEF WSACleanup, WSARefuses
  <2>2. started' \in Nat /\ kind' \in [Handles -> {"closed", "listening", "stream"}]
    BY <1>5, <2>1 DEF WSACleanup, WSARefuses, CleanUp
  <2>3. failed' \in BOOLEAN
    BY <1>5 DEF WSACleanup, WSARefuses
  <2>4. /\ phase[o] # "alive" /\ phase' = [phase EXCEPT ![o] = "none"]
        /\ UNCHANGED <<winsocket, addr, wsa_lib_instances>>
    BY <1>5 DEF WSACleanup, WSARefuses, object
  <2> QED BY <1>1, <2>2, <2>3, <2>4
<1>6. ASSUME NEW o \in Objs, Destroy(o) \/ Disconnect(o) PROVE TypeOK'
  BY <1>1, <1>6 DEF Destroy, Disconnect, SetFields, CloseHandle
<1>7. ASSUME NEW o \in Objs, WSA_finalizer(o) PROVE TypeOK'
  BY <1>1, <1>7, TheCounterTells DEF WSA_finalizer, object, library
<1>8. ASSUME NEW o \in Objs, Listen(o) PROVE TypeOK'
  BY <1>1, <1>8 DEF Listen, OpenHandle, SetFields
<1>9. ASSUME NEW o \in Objs, NEW a \in Addrs, Connect(o, a) PROVE TypeOK'
  BY <1>1, <1>9 DEF Connect, OpenHandle, SetFields
<1>10. ASSUME NEW o \in Objs, NEW s \in Objs, MoveConstruct(o, s) PROVE TypeOK'
  <2>1. wsa_lib_instances > 0
    BY <1>10, TheCounterTells DEF MoveConstruct
  <2> QED BY <1>1, <1>10, <2>1, SMTT(40)
          DEF MoveConstruct, TakeFields, WSA_init, library
<1>11. ASSUME NEW o \in Objs, NEW s \in Objs, MoveAssign(o, s) PROVE TypeOK'
  BY <1>1, <1>11 DEF MoveAssign, TakeFields, library
<1>12. ASSUME NEW o \in Objs, NEW t \in Objs, Accept(o, t) PROVE TypeOK'
  <2>1. wsa_lib_instances > 0
    BY <1>12, TheCounterTells DEF Accept
  <2> QED BY <1>1, <1>12, <2>1, SMTT(40)
          DEF Accept, OpenHandle, SetFields, WSA_init
<1>13. CASE UNCHANGED vars
  BY <1>1, <1>13 DEF vars, object, library
<1> QED BY <1>2, <1>3, <1>4, <1>5, <1>6, <1>7, <1>8, <1>9, <1>10, <1>11, <1>12, <1>13
        DEF Next

LEMMA NextCounting == Counting /\ [Next]_vars => Counting'
<1> SUFFICES ASSUME Counting, [Next]_vars PROVE Counting'
  OBVIOUS
<1>1. TypeOK'
  BY NextType
<1>2. ASSUME NEW o \in Objs, Construct(o) PROVE Counting'
  BY <1>1, <1>2, InitCounts DEF Construct, library
<1>3. ASSUME NEW o \in Objs, NEW s \in Objs, MoveConstruct(o, s) PROVE Counting'
  BY <1>1, <1>3, InitCounts DEF MoveConstruct, library
<1>4. ASSUME NEW o \in Objs, NEW t \in Objs, Accept(o, t) PROVE Counting'
  BY <1>1, <1>4, InitCounts DEF Accept, OpenHandle
<1> USE DEF Counting, CountedOnce, StartedOnce, OneStarting
<1>5. ASSUME NEW o \in Objs, WSAStartup(o) PROVE Counting'
  <2>1. PICK q \in {"alive", "refusing"} : phase' = [phase EXCEPT ![o] = q]
    BY <1>5 DEF WSAStartup
  <2>2. /\ phase[o] = "starting" /\ started' = started + 1
        /\ UNCHANGED <<wsa_lib_instances, failed>>
    BY <1>5 DEF WSAStartup
  <2>3. /\ InPhase("starting")' = InPhase("starting") \ {o} /\ o \in InPhase("starting")
        /\ InPhase(q)' = InPhase(q) \cup {o} /\ o \notin InPhase(q)
        /\ \A r : r # "starting" /\ r # q => InPhase(r)' = InPhase(r)
    BY <2>1, <2>2, PhaseChange
  <2>4. /\ o \in Counted /\ Counted' = Counted /\ Starting = {o} /\ ~failed
        /\ InPhase("refusing") = {}
    <3>1. o \in Starting /\ o \notin InPhase("refusing")
      BY <2>2, <2>3 DEF Starting, InPhase
    <3>2. Starting = {o} /\ ~failed /\ InPhase("refusing") = {}
      BY <3>1 DEF Starting
    <3>3. Counted' = Counted /\ o \in Counted
      BY <2>1, <2>3 DEF Counted, Starting
    <3> QED BY <3>2, <3>3
  <2>5. wsa_lib_instances > 0
    BY <2>4, TheCounterTells
  <2>6. CASE q = "alive"
    <3>1. Starting' = {} /\ InPhase("refusing")' = InPhase("refusing")
      BY <2>3, <2>4, <2>6 DEF Starting
    <3> QED BY <1>1, <2>2, <2>3, <2>4, <2>5, <2>6, <3>1, Sizes
  <2>7. CASE q = "refusing"
    <3>1. Starting' = {o} /\ InPhase("refusing")' = InPhase("refusing") \cup {o}
      BY <2>3, <2>4, <2>7 DEF Starting
    <3>2. Cardinality(InPhase("refusing"))' = Cardinality(InPhase("refusing")) + 1
      <4>1. o \in Objs \ InPhase("refusing")
        BY <2>4
      <4> QED BY <3>1, <4>1, Sizes, PhasesAreFinite
    <3>3. InPhase("cleaning")' = InPhase("cleaning")
      BY <2>3, <2>7
    <3>4. StartedOnce'
      BY <2>2, <2>4, <3>1, <3>2, <3>3, Sizes
    <3> QED BY <1>1, <2>2, <2>4, <3>1, <3>4
  <2> QED BY <2>1, <2>6, <2>7
<1>6. ASSUME NEW o \in Objs, NEW q \in {"starting", "refusing"},
             phase[o] = q, phase' = [phase EXCEPT ![o] = "none"],
             failed', UNCHANGED wsa_lib_instances,
             q = "starting" => started' = started,
             q = "refusing" => started' = started - 1
      PROVE  Counting'
  <2>1. /\ InPhase(q)' = InPhase(q) \ {o} /\ o \in InPhase(q)
        /\ \A r : r # q /\ r # "none" => InPhase(r)' = InPhase(r) /\ o \notin InPhase(r)
    BY <1>6, PhaseChange
  <2>2. /\ Counted' = Counted \ {o} /\ o \in Counted
        /\ Starting' = Starting \ {o} /\ o \in Starting
    BY <2>1 DEF Counted, Starting
  <2>3. Starting' = {} /\ ~failed
    BY <2>2
  <2>4. Cardinality(Counted)' = Cardinality(Counted) - 1
    BY <2>2, Sizes, PhasesAreFinite
  <2>5. CountedOnce'
    BY <1>6, <2>3, <2>4, Sizes
  <2>6. StartedOnce'
    <3>1. /\ Starting # {} /\ failed'
          /\ Cardinality(InPhase("cleaning"))' = Cardinality(InPhase("cleaning"))
      BY <1>6, <2>1, <2>2
    <3>2. CASE q = "starting"
      BY <1>6, <2>1, <3>1, <3>2, Sizes
    <3>3. CASE q = "refusing"
      <4>1. Cardinality(InPhase("refusing"))' = Cardinality(InPhase("refusing")) - 1
        <5>1. /\ InPhase("refusing")' = InPhase("refusing") \ {o}
              /\ o \in InPhase("refusing")
          BY <2>1, <3>3
        <5> QED BY <5>1, Sizes, PhasesAreFinite
      <4>2. started = Cardinality(InPhase("cleaning")) + Cardinality(InPhase("refusing"))
        BY <3>1, Sizes
      <4>3. started' = started - 1
        BY <1>6, <3>3
      <4>4. started' = (Cardinality(InPhase("cleaning")) + Cardinality(InPhase("refusing")))'
        BY <3>1, <4>1, <4>2, <4>3, Sizes
      <4> QED BY <3>1, <4>4, Sizes
    <3> QED BY <3>2, <3>3
  <2> QED BY <1>1, <2>3, <2>5, <2>6
<1>7. ASSUME NEW o \in Objs, WSAStartupFails(o) PROVE Counting'
  BY <1>6, <1>7 DEF WSAStartupFails, library
<1>8. ASSUME NEW o \in Objs, WSARefuses(o) PROVE Counting'
  BY <1>6, <1>8 DEF WSARefuses, CleanUp
<1>9. ASSUME NEW o \in Objs, Destroy(o) PROVE Counting'
  <2>1. /\ phase[o] = "alive" /\ phase' = [phase EXCEPT ![o] = "dropping"]
        /\ UNCHANGED <<wsa_lib_instances, started, failed>>
    BY <1>9 DEF Destroy, Alive
  <2>2. /\ InPhase("alive")' = InPhase("alive") \ {o} /\ o \in InPhase("alive")
        /\ InPhase("dropping")' = InPhase("dropping") \cup {o}
        /\ \A r : r # "alive" /\ r # "dropping" => InPhase(r)' = InPhase(r)
    BY <2>1, PhaseChange
  <2>3. Counted' = Counted /\ Starting' = Starting
    BY <2>2 DEF Counted, Starting
  <2> QED BY <1>1, <2>1, <2>2, <2>3
<1>10. ASSUME NEW o \in Objs, WSA_finalizer(o) PROVE Counting'
  <2>1. /\ phase[o] = "dropping" /\ wsa_lib_instances' = wsa_lib_instances - 1
        /\ UNCHANGED <<started, failed>>
    BY <1>10 DEF WSA_finalizer, library
  <2>2. PICK q \in {"none", "cleaning"} :
          /\ phase' = [phase EXCEPT ![o] = q]
          /\ q = "cleaning" <=> wsa_lib_instances = 1
    BY <1>10 DEF WSA_finalizer
  <2>3. /\ InPhase("dropping")' = InPhase("dropping") \ {o} /\ o \in InPhase("dropping")
        /\ \A r : r # "dropping" => o \notin InPhase(r)
        /\ InPhase(q)' = InPhase(q) \cup {o}
        /\ \A r : r # "dropping" /\ r # q => InPhase(r)' = InPhase(r)
    BY <2>1, <2>2, PhaseChange
  <2>4. Counted' = Counted \ {o} /\ o \in Counted /\ Starting' = Starting
    BY <2>2, <2>3 DEF Counted, Starting
  <2>5. wsa_lib_instances > 0 /\ Cardinality(Counted)' = Cardinality(Counted) - 1
    BY <2>4, Sizes, PhasesAreFinite, TheCounterTells
  <2>6. InPhase("refusing")' = InPhase("refusing")
    BY <2>2, <2>3
  <2>7. CASE wsa_lib_instances = 1
    <3>1. Cardinality(InPhase("cleaning"))' = Cardinality(InPhase("cleaning")) + 1
      BY <2>2, <2>3, <2>7, Sizes, PhasesAreFinite
    <3>2. Starting = {} /\ ~failed
      <4>1. Counted = {o} /\ ~failed
        BY <2>4, <2>7, TheCounterTells
      <4> QED BY <2>3, <4>1 DEF Counted, Starting
    <3> QED BY <1>1, <2>1, <2>4, <2>5, <2>6, <2>7, <3>1, <3>2, Sizes
  <2>8. CASE wsa_lib_instances # 1
    <3>1. InPhase("cleaning")' = InPhase("cleaning")
      BY <2>2, <2>3, <2>8
    <3>2. wsa_lib_instances' > 0
      BY <2>1, <2>5, <2>8 DEF TypeOK
    <3> QED BY <1>1, <2>1, <2>4, <2>5, <2>6, <3>1, <3>2, Sizes
  <2> QED BY <2>7, <2>8
<1>11. ASSUME NEW o \in Objs, WSACleanup(o) PROVE Counting'
  <2>1. /\ phase[o] = "cleaning" /\ phase' = [phase EXCEPT ![o] = "none"]
        /\ started' = started - 1 /\ UNCHANGED <<wsa_lib_instances, failed>>
    BY <1>11 DEF WSACleanup, CleanUp
  <2>2. /\ InPhase("cleaning")' = InPhase("cleaning") \ {o} /\ o \in InPhase("cleaning")
        /\ \A r : r # "cleaning" /\ r # "none" => InPhase(r)' = InPhase(r)
    BY <2>1, PhaseChange
  <2>3. Counted' = Counted /\ Starting' = Starting
    BY <2>2 DEF Counted, Starting
  <2>4. Cardinality(InPhase("cleaning"))' = Cardinality(InPhase("cleaning")) - 1
    BY <2>2, Sizes, PhasesAreFinite
  <2> QED BY <1>1, <2>1, <2>2, <2>3, <2>4, Sizes
<1>12. ASSUME NEW o \in Objs, \/ Listen(o) \/ Disconnect(o)
                              \/ \E s \in Objs : MoveAssign(o, s)
                              \/ \E a \in Addrs : Connect(o, a)
       PROVE Counting'
  BY <1>1, <1>12, SameCounting
     DEF Listen, Disconnect, MoveAssign, Connect, OpenHandle, library
<1>13. CASE UNCHANGED vars
  BY <1>1, <1>13, SameCounting DEF vars, library
<1> QED BY <1>2, <1>3, <1>4, <1>5, <1>7, <1>8, <1>9, <1>10, <1>11, <1>12, <1>13 DEF Next

(* While the library is started, refused or stopped there is no other      *)
(* object in a program that makes and ends them one at a time; and a       *)
(* program that keeps an object never starts or stops it.                  *)
Guarded ==
  /\ \A k \in keepers : Alive(k)
  /\ keepers # {} => \A o \in Objs : phase[o] \in {"none", "alive", "dropping"}
  /\ serial => \A o \in Objs : \A p \in Objs \ {o} :
       /\ phase[o] \in {"starting", "refusing", "cleaning"} => phase[p] = "none"
       /\ phase[o] = "dropping" => phase[p] \in {"none", "alive"}

LEMMA NextGuarded == Counting /\ Guarded /\ [Next]_vars => Guarded'
<1> SUFFICES ASSUME Counting, Guarded, [Next]_vars PROVE Guarded'
  OBVIOUS
<1> USE DEF Guarded, Alive, Counting, TypeOK
<1>1. UNCHANGED <<serial, keepers>>
  BY DEF Next, vars, setting
<1>2. ASSUME NEW o \in Objs, phase[o] = "none", WSA_init(o), Undisturbed
      PROVE  Guarded'
  <2>1. CASE wsa_lib_instances = 0
    <3>1. \A p \in Objs : phase[p] \in {"none", "cleaning"}
      BY <2>1, TheCounterTells
    <3>2. keepers = {}
      BY <3>1
    <3> QED BY <1>1, <1>2, <2>1, <3>1, <3>2 DEF WSA_init, Undisturbed
  <2>2. CASE wsa_lib_instances # 0
    BY <1>1, <1>2, <2>2 DEF WSA_init, Undisturbed
  <2> QED BY <2>1, <2>2
<1>3. ASSUME NEW o \in Objs, WSAStartup(o) PROVE Guarded'
  BY <1>1, <1>3 DEF WSAStartup
<1>4. ASSUME NEW o \in Objs, WSAStartupFails(o) \/ WSARefuses(o) \/ WSACleanup(o)
      PROVE  Guarded'
  BY <1>1, <1>4 DEF WSAStartupFails, WSARefuses, WSACleanup
<1>5. ASSUME NEW o \in Objs \ keepers, Destroy(o), Undisturbed PROVE Guarded'
  BY <1>1, <1>5 DEF Destroy, Undisturbed
<1>6. ASSUME NEW o \in Objs, WSA_finalizer(o) PROVE Guarded'
  <2>1. phase[o] = "dropping"
    BY <1>6 DEF WSA_finalizer
  <2>2. CASE wsa_lib_instances = 1
    <3>1. \A p \in Objs \ {o} : phase[p] \in {"none", "cleaning"}
      BY <2>1, <2>2, TheCounterTells
    <3>2. keepers = {}
      BY <2>1, <3>1
    <3> QED BY <1>1, <1>6, <2>1, <2>2, <3>1, <3>2 DEF WSA_finalizer
  <2>3. CASE wsa_lib_instances # 1
    BY <1>1, <1>6, <2>1, <2>3 DEF WSA_finalizer
  <2> QED BY <2>2, <2>3
<1>7. CASE UNCHANGED phase
  BY <1>1, <1>7
<1> QED BY <1>2, <1>3, <1>4, <1>5, <1>6, <1>7
        DEF Next, vars, Construct, MoveConstruct, Accept, Listen, Connect,
            MoveAssign, Disconnect

(* The library is never stopped under an object, in every step: a handle   *)
(* closes for its holder, or with all the others when there are no others. *)
LEMMA NextOwner == Counting /\ Guarded /\ OneOpenOwner /\ [Next]_vars => OneOpenOwner'
<1> SUFFICES ASSUME Counting, Guarded, OneOpenOwner, [Next]_vars,
                    serial' \/ keepers' # {}
             PROVE OneOpenOwner'
  BY DEF OneOpenOwner
<1> USE DEF Counting, TypeOK, OneOpenOwner
<1>1. UNCHANGED <<serial, keepers>> /\ (serial \/ keepers # {})
  BY DEF Next, vars, setting
<1>2. ASSUME NEW o \in Objs, \/ Construct(o) \/ WSAStartup(o)
                             \/ WSAStartupFails(o) \/ WSA_finalizer(o)
      PROVE OneOpenOwner'
  BY <1>1, <1>2 DEF Construct, WSAStartup, WSAStartupFails, WSA_finalizer,
                    object, library
<1>3. ASSUME NEW o \in Objs, Destroy(o) \/ Disconnect(o) PROVE OneOpenOwner'
  BY <1>1, <1>3 DEF Destroy, Disconnect, SetFields, CloseHandle
<1>4. ASSUME NEW o \in Objs, WSACleanup(o) \/ WSARefuses(o) PROVE OneOpenOwner'
  <2>1. phase[o] \in {"cleaning", "refusing"} /\ UNCHANGED winsocket
    BY <1>4 DEF WSACleanup, WSARefuses, object
  <2>2. serial
    BY <1>1, <2>1 DEF Guarded
  <2>3. \A p \in Objs : ~Alive(p)
    BY <2>1, <2>2 DEF Guarded, Alive
  <2> QED BY <2>1, <2>3
<1>5. ASSUME NEW o \in Objs, Listen(o) PROVE OneOpenOwner'
  BY <1>1, <1>5 DEF Listen, OpenHandle, SetFields
<1>6. ASSUME NEW o \in Objs, NEW a \in Addrs, Connect(o, a) PROVE OneOpenOwner'
  BY <1>1, <1>6 DEF Connect, OpenHandle, SetFields
<1>7. ASSUME NEW o \in Objs, NEW t \in Objs, Accept(o, t) PROVE OneOpenOwner'
  BY <1>1, <1>7 DEF Accept, OpenHandle, SetFields
<1>8. ASSUME NEW o \in Objs, NEW s \in Objs, MoveConstruct(o, s) \/ MoveAssign(o, s)
      PROVE OneOpenOwner'
  BY <1>1, <1>8 DEF MoveConstruct, MoveAssign, TakeFields, library
<1>9. CASE UNCHANGED vars
  BY <1>1, <1>9 DEF vars, object, library
<1> QED BY <1>2, <1>3, <1>4, <1>5, <1>6, <1>7, <1>8, <1>9 DEF Next

LEMMA CountingAlways == Spec => [](Counting /\ Guarded /\ OneOpenOwner)
<1>1. Init => Guarded /\ OneOpenOwner
  BY DEF Init, Guarded, OneOpenOwner, Alive
<1> QED BY InitCounting, NextCounting, NextGuarded, NextOwner, <1>1, PTL DEF Spec

(* Every variable of win_socket and of the library it counts for stays in  *)
(* its range; an object holds a handle only while it is alive.             *)
THEOREM TypeCorrect == Spec => []TypeOK
<1>1. Counting => TypeOK
  BY DEF Counting
<1> QED BY <1>1, CountingAlways, PTL

(* "Global instance counter" (win_socket.cpp:31): however the threads      *)
(* interleave, the counter is the number of objects and of starts that     *)
(* did not succeed.                                                        *)
THEOREM InstancesAreCounted == Spec => []CountedOnce
<1>1. Counting => CountedOnce
  BY DEF Counting
<1> QED BY <1>1, CountingAlways, PTL

(* WSAStartup and WSACleanup balance (win_socket.cpp:393, 400 and 410):    *)
(* the library is started once for all the objects there are.              *)
THEOREM LibraryIsStartedOnce == Spec => []StartedOnce
<1>1. Counting => StartedOnce
  BY DEF Counting
<1> QED BY <1>1, CountingAlways, PTL

(* A win_socket's handle is open and its own (win_socket.cpp:66): for any  *)
(* number of objects that one thread makes and ends, with moves, accepts   *)
(* and refused or failed starts; and for any number of threads, as long as *)
(* one object outlives the others.                                         *)
THEOREM HandlesAreOpenAndUnique == Spec => []OneOpenOwner
BY CountingAlways, PTL
=============================================================================
