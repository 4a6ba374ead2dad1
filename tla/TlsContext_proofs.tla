------------------------- MODULE TlsContext_proofs -------------------------
(***************************************************************************)
(* Proofs about TlsContext, for any number of threads and objects.  The    *)
(* counter is what it has to be: each object alive counts one, and so does *)
(* each unit that the operations under way owe (Balance).  Where one       *)
(* thread runs, or an object outlives the threads, the context that is     *)
(* used or freed exists (Watched).                                         *)
(***************************************************************************)
EXTENDS TlsContext, FiniteSetTheorems, TLAPS

Bit(b) == IF b THEN 1 ELSE 0
There(k) == IF k = "none" THEN 0 ELSE 1

(* What an operation has counted for an object that is not there yet, or   *)
(* has still to give back: it has list l to do and is at p, and b and un   *)
(* are its builds and undo.                                                *)
Base(l, b, un) ==
  IF un \/ l = <<"count", "uncount">> THEN 1
  ELSE IF l # <<"uncount">> THEN 0
  ELSE IF b = "socket" THEN 2 ELSE 1

OwedBy(l, b, un, p) ==
  IF p = "free" THEN Base(l, b, un) - 1
  ELSE IF p \in {"make", "unmake", "load"} /\ Head(l) \in {"ini", "count"}
       THEN Base(l, b, un) + 1
       ELSE Base(l, b, un)

Owed(t) == OwedBy(todo[t], builds[t], undo[t], pc[t])

AliveSet == {o \in Objects : object[o] # "none"}
Owing(n) == {t \in Threads : Owed(t) >= n}

Balance ==
  openssl_ctx_counter = Cardinality(AliveSet) + Cardinality(Owing(1)) + Cardinality(Owing(2))
                        + Kept + borrowed

(* The operations, by what they have left to do: there is k at the target  *)
(* now, and own tells whether the thread has any object.                   *)
StageOf(l, b, un, k, own) ==
  \/ l = <<>> /\ ~un
  \/ l \in {<<"count">>, <<"ini", "ssl">>, <<"ini", "cert", "cert", "cert">>}
     /\ ~un /\ k = "none" /\ b # "none"
  \/ l = <<"ini", "uncount">> /\ ~un /\ k = "none" /\ b = "none"
  \/ l = <<"uncount">> /\ b = "none" /\ k = "none"
  \/ l \in {<<"ssl">>, <<"cert", "cert", "cert">>, <<"cert", "cert">>, <<"cert">>}
     /\ b # "none" /\ (un <=> k = "none")
  \/ l \in {<<"ssl", "count", "count", "uncount">>, <<"count", "count", "uncount">>}
     /\ ~un /\ k = "none" /\ b = "socket" /\ own
  \/ l \in {<<"count", "uncount">>, <<"uncount">>} /\ ~un /\ k = "none" /\ b = "socket"

WhereOf(l, p) ==
  /\ p = "use" => l # <<>> /\ Head(l) \in {"ssl", "cert"}
  /\ p = "free" => l = <<"uncount">>
  /\ p = "load" => l # <<>> /\ Head(l) \in {"ini", "count", "ssl", "cert"}
  /\ p \in {"make", "unmake"}
       => l \in {<<"count">>, <<"ini", "ssl">>, <<"ini", "uncount">>,
                 <<"ini", "cert", "cert", "cert">>}

Own(t) == \E s \in Slots : object[<<t, s>>] # "none"
Stage(t) == StageOf(todo[t], builds[t], undo[t], object[target[t]], Own(t))
Where(t) == WhereOf(todo[t], pc[t])
Stages == \A t \in Threads : Stage(t) /\ Where(t)

CountInv == TypeOK /\ Stages /\ Balance
-----------------------------------------------------------------------------
(* Lists: what is left after the first is done, and what is owed then. *)

Places == {"ready", "make", "unmake", "load", "use", "free"}

LEMMA TailsAreLists ==
  ASSUME NEW l \in Lists, l # <<>>
  PROVE  /\ Tail(l) \in Lists /\ Len(l) \in Nat /\ (Len(l) > 1 <=> Tail(l) # <<>>)
         /\ Head(l) \in {"ini", "count", "ssl", "cert", "uncount"}
<1> USE DEF Lists, Certificates
<1>1. CASE l = <<"count">> BY <1>1
<1>2. CASE l = <<"ini", "ssl">> BY <1>2
<1>3. CASE l = <<"ini", "uncount">> BY <1>3
<1>4. CASE l = <<"ssl">> BY <1>4
<1>5. CASE l = <<"ini", "cert", "cert", "cert">> BY <1>5
<1>6. CASE l = <<"cert", "cert", "cert">> BY <1>6
<1>7. CASE l = <<"cert", "cert">> BY <1>7
<1>8. CASE l = <<"cert">> BY <1>8
<1>9. CASE l = <<"ssl", "count", "count", "uncount">> BY <1>9
<1>10. CASE l = <<"count", "count", "uncount">> BY <1>10
<1>11. CASE l = <<"count", "uncount">> BY <1>11
<1>12. CASE l = <<"uncount">> BY <1>12
<1> QED
  BY <1>1, <1>2, <1>3, <1>4, <1>5, <1>6, <1>7, <1>8, <1>9, <1>10, <1>11, <1>12

LEMMA OwedRange ==
  ASSUME NEW l \in Lists, NEW b \in Kinds, NEW un \in BOOLEAN, NEW k \in Kinds,
         NEW own \in BOOLEAN, NEW p \in Places,
         StageOf(l, b, un, k, own), WhereOf(l, p)
  PROVE  OwedBy(l, b, un, p) \in 0..2
  BY DEF Lists, Certificates, Kinds, Places, StageOf, WhereOf, OwedBy, Base

LEMMA OwedIsInt ==
  ASSUME NEW l, NEW b, NEW un, NEW p
  PROVE  OwedBy(l, b, un, p) \in Int
<1>1. Base(l, b, un) \in Int
  BY DEF Base
<1> HIDE DEF Base
<1> QED BY <1>1 DEF OwedBy

LEMMA DoneOwes ==
  ASSUME NEW l \in Lists, NEW b \in Kinds, NEW un \in BOOLEAN, NEW k \in Kinds,
         NEW own \in BOOLEAN, NEW own2 \in BOOLEAN, NEW un2 \in BOOLEAN, NEW k2 \in Kinds,
         NEW p \in Places,
         StageOf(l, b, un, k, own), l # <<>>,
         un2 <=> (Len(l) > 1 /\ (un \/ Head(l) = "ini")),
         k2 = IF Len(l) > 1 THEN k ELSE b, Len(l) > 1 => own2 = own,
         p = IF Head(l) = "uncount" THEN "free"
             ELSE IF Head(l) \in {"ssl", "cert"} THEN "use" ELSE "load"
  PROVE  /\ StageOf(Tail(l), b, un2, k2, own2)
         /\ OwedBy(Tail(l), b, un2, "ready") + There(k2)
              = OwedBy(l, b, un, p) + There(k)
<1> USE DEF Kinds, StageOf, OwedBy, Base, There
<1>1. CASE l = <<"count">> BY <1>1
<1>2. CASE l = <<"ini", "ssl">> BY <1>2
<1>3. CASE l = <<"ini", "uncount">> BY <1>3
<1>4. CASE l = <<"ssl">> BY <1>4
<1>5. CASE l = <<"ini", "cert", "cert", "cert">> BY <1>5
<1>6. CASE l = <<"cert", "cert", "cert">> BY <1>6
<1>7. CASE l = <<"cert", "cert">> BY <1>7
<1>8. CASE l = <<"cert">> BY <1>8
<1>9. CASE l = <<"ssl", "count", "count", "uncount">> BY <1>9
<1>10. CASE l = <<"count", "count", "uncount">> BY <1>10
<1>11. CASE l = <<"count", "uncount">> BY <1>11
<1>12. CASE l = <<"uncount">> BY <1>12
<1> QED
  BY <1>1, <1>2, <1>3, <1>4, <1>5, <1>6, <1>7, <1>8, <1>9, <1>10, <1>11, <1>12
     DEF Lists, Certificates

LEMMA ThrowOwes ==
  ASSUME NEW l \in Lists, NEW b \in Kinds, NEW un \in BOOLEAN, NEW k \in Kinds,
         NEW own \in BOOLEAN, NEW own2 \in BOOLEAN, NEW no \in BOOLEAN, ~no,
         NEW p \in {"unmake", "use"},
         StageOf(l, b, un, k, own), WhereOf(l, p), NEW m,
         m = IF un THEN <<"uncount">> ELSE <<>>
  PROVE  /\ m \in Lists /\ StageOf(m, k, no, k, own2)
         /\ OwedBy(m, k, no, "ready")
              = OwedBy(l, b, un, p) - Bit(p = "unmake")
<1>1. m \in Lists
  BY DEF Lists, Certificates
<1>2. un => k = "none"
  BY DEF StageOf, WhereOf
<1>3. StageOf(m, k, no, k, own2)
  BY <1>2 DEF StageOf
<1>4. OwedBy(m, k, no, "ready") = IF un THEN 1 ELSE 0
  BY <1>2 DEF OwedBy, Base
<1>5. Base(l, b, un) = IF un THEN 1 ELSE 0
  BY DEF StageOf, WhereOf, Base
<1>6. OwedBy(l, b, un, p) = (IF un THEN 1 ELSE 0) + Bit(p = "unmake")
  <2>1. CASE p = "use"
    BY <1>5, <2>1 DEF OwedBy, Bit
  <2>2. CASE p = "unmake"
    <3>1. Head(l) \in {"ini", "count"}
      BY <2>2 DEF WhereOf
    <3> QED BY <1>5, <2>2, <3>1 DEF OwedBy, Bit
  <2> QED BY <2>1, <2>2
<1> QED BY <1>1, <1>3, <1>4, <1>6 DEF Bit
-----------------------------------------------------------------------------
(* The sum. *)

LEMMA CardStep ==
  ASSUME NEW S, NEW T, NEW x, IsFiniteSet(S), T \ {x} = S \ {x}
  PROVE  /\ Cardinality(S) \in Nat /\ Cardinality(T) \in Nat
         /\ Cardinality(T) = Cardinality(S) + Bit(x \in T) - Bit(x \in S)
<1> USE DEF Bit
<1>1. Cardinality(S) \in Nat
  BY FS_CardinalityType
<1>2. CASE x \in S /\ x \notin T
  <2>1. T = S \ {x}
    BY <1>2
  <2>2. Cardinality(T) = Cardinality(S) - 1 /\ IsFiniteSet(T)
    BY <1>2, <2>1, FS_RemoveElement
  <2>3. Cardinality(T) \in Nat
    BY <2>2, FS_CardinalityType
  <2> QED BY <1>1, <1>2, <2>2, <2>3
<1>3. CASE x \notin S /\ x \in T
  <2>1. T = S \cup {x}
    BY <1>3
  <2> QED BY <1>1, <1>3, <2>1, FS_AddElement
<1>4. CASE x \in S <=> x \in T
  <2>1. T = S
    BY <1>4
  <2> QED BY <1>1, <1>4, <2>1
<1> QED BY <1>2, <1>3, <1>4

LEMMA Finite ==
  ASSUME TypeOK
  PROVE  /\ IsFiniteSet(AliveSet) /\ \A n : IsFiniteSet(Owing(n))
         /\ Kept \in {0, 1}
<1>1. IsFiniteSet(Objects)
  BY ContextAssumption, FS_Product DEF Objects
<1>2. IsFiniteSet(AliveSet)
  BY <1>1, FS_Subset DEF AliveSet
<1>3. \A n : IsFiniteSet(Owing(n))
  BY ContextAssumption, FS_Subset DEF Owing
<1> QED BY <1>2, <1>3 DEF Kept

(* A step of thread t, on its object o, that keeps the books. *)
RestType == /\ program \in Programs /\ borrowed \in Nat
            /\ openssl_ctxe \in Ctxs \cup {Null} /\ held \subseteq Ctxs
            /\ ObjectType /\ ThreadType

LEMMA StepCounts ==
  ASSUME CountInv, NEW t \in Threads, NEW s \in Slots,
         RestType', program' = program,
         \A u \in Threads \ {t} :
           /\ todo'[u] = todo[u] /\ builds'[u] = builds[u] /\ undo'[u] = undo[u]
           /\ target'[u] = target[u] /\ pc'[u] = pc[u],
         \A o \in Objects \ {<<t, s>>} : object'[o] = object[o],
         Stage(t)', Where(t)',
         openssl_ctx_counter' \in Int,
         openssl_ctx_counter' + borrowed + Owed(t) + There(object[<<t, s>>])
           = openssl_ctx_counter + borrowed' + Owed(t)' + There(object'[<<t, s>>])
  PROVE  CountInv'
<1> DEFINE o == <<t, s>>
<1>0. o \in Objects
  BY DEF Objects
<1>1. /\ todo \in [Threads -> Lists] /\ builds \in [Threads -> Kinds]
      /\ undo \in [Threads -> BOOLEAN] /\ pc \in [Threads -> Places]
      /\ object \in [Objects -> Kinds] /\ target \in [Threads -> Objects]
      /\ \A u \in Threads : target[u] \in {u} \X Slots
  BY DEF CountInv, TypeOK, ThreadType, ObjectType, Places
<1>2. /\ todo' \in [Threads -> Lists] /\ builds' \in [Threads -> Kinds]
      /\ undo' \in [Threads -> BOOLEAN] /\ pc' \in [Threads -> Places]
      /\ object' \in [Objects -> Kinds] /\ target' \in [Threads -> Objects]
  BY DEF RestType, ThreadType, ObjectType, Places
<1>3. \A u \in Threads \ {t} :
        /\ Owed(u)' = Owed(u) /\ object'[target'[u]] = object[target[u]]
        /\ Own(u)' = Own(u)
  <2> SUFFICES ASSUME NEW u \in Threads \ {t}
               PROVE  /\ Owed(u)' = Owed(u) /\ object'[target'[u]] = object[target[u]]
                      /\ Own(u)' = Own(u)
    OBVIOUS
  <2>1. Owed(u)' = Owed(u)
    BY DEF Owed
  <2>2. \A r \in Slots : object'[<<u, r>>] = object[<<u, r>>]
    BY DEF Objects
  <2>3. target[u] \in Objects \ {o}
    BY <1>1
  <2> QED BY <2>1, <2>2, <2>3 DEF Own
<1>4. Stages'
  <2> SUFFICES ASSUME NEW u \in Threads \ {t} PROVE Stage(u)' /\ Where(u)'
    BY DEF Stages
  <2>1. Stage(u) /\ Where(u)
    BY DEF CountInv, Stages
  <2> QED BY <1>3, <2>1 DEF Stage, Where
<1>5. \A u \in Threads : Owed(u) \in 0..2
  <2> SUFFICES ASSUME NEW u \in Threads PROVE Owed(u) \in 0..2
    OBVIOUS
  <2>1. Stage(u) /\ Where(u) /\ Own(u) \in BOOLEAN /\ object[target[u]] \in Kinds
    BY <1>1 DEF CountInv, Stages, Own
  <2> QED BY <1>1, <2>1, OwedRange DEF Stage, Where, Owed
<1>6. Owed(t)' \in 0..2
  <2>1. Own(t)' \in BOOLEAN /\ object'[target'[t]] \in Kinds
    BY <1>2 DEF Own
  <2> QED BY <1>2, <2>1, OwedRange DEF Stage, Where, Owed
<1>7. /\ Cardinality(AliveSet) \in Nat /\ Cardinality(AliveSet') \in Nat
      /\ Cardinality(AliveSet') = Cardinality(AliveSet) + There(object'[o])
                                                       - There(object[o])
  <2>1. AliveSet' \ {o} = AliveSet \ {o}
    BY DEF AliveSet
  <2>2. IsFiniteSet(AliveSet)
    BY Finite DEF CountInv
  <2>3. (o \in AliveSet <=> object[o] # "none") /\ (o \in AliveSet' <=> object'[o] # "none")
    BY <1>0 DEF AliveSet
  <2> QED BY <2>1, <2>2, <2>3, CardStep DEF Bit, There
<1>8. ASSUME NEW n \in {1, 2}
      PROVE  /\ Cardinality(Owing(n)) \in Nat /\ Cardinality(Owing(n)') \in Nat
             /\ Cardinality(Owing(n)') = Cardinality(Owing(n)) + Bit(Owed(t)' >= n)
                                                              - Bit(Owed(t) >= n)
  <2>1. Owing(n)' \ {t} = Owing(n) \ {t}
    BY <1>3 DEF Owing
  <2>2. IsFiniteSet(Owing(n))
    BY Finite DEF CountInv
  <2>3. (t \in Owing(n) <=> Owed(t) >= n) /\ (t \in Owing(n)' <=> Owed(t)' >= n)
    BY DEF Owing
  <2> QED BY <2>1, <2>2, <2>3, CardStep DEF Bit
<1>9. Bit(Owed(t) >= 1) + Bit(Owed(t) >= 2) = Owed(t)
      /\ Bit(Owed(t)' >= 1) + Bit(Owed(t)' >= 2) = Owed(t)'
  BY <1>5, <1>6 DEF Bit
<1>10. openssl_ctx_counter \in Nat /\ borrowed \in Nat /\ borrowed' \in Nat
       /\ Kept \in {0, 1} /\ Kept' = Kept
  BY Finite DEF CountInv, TypeOK, GlobalType, RestType, Kept
<1>11. Balance' /\ openssl_ctx_counter' \in Nat
  <2>1. Balance
    BY DEF CountInv
  <2> DEFINE A == Cardinality(AliveSet)
             A2 == Cardinality(AliveSet')
             B == Cardinality(Owing(1))
             B2 == Cardinality(Owing(1)')
             C == Cardinality(Owing(2))
             C2 == Cardinality(Owing(2)')
  <2>2. A \in Nat /\ A2 \in Nat /\ A2 = A + There(object'[o]) - There(object[o])
    BY <1>7
  <2>3. B \in Nat /\ B2 \in Nat /\ B2 = B + Bit(Owed(t)' >= 1) - Bit(Owed(t) >= 1)
    BY <1>8
  <2>4. C \in Nat /\ C2 \in Nat /\ C2 = C + Bit(Owed(t)' >= 2) - Bit(Owed(t) >= 2)
    BY <1>8
  <2>5. openssl_ctx_counter = A + B + C + Kept + borrowed
    BY <2>1 DEF Balance
  <2>6. /\ There(object'[o]) \in Int /\ There(object[o]) \in Int
        /\ Bit(Owed(t)' >= 1) \in Int /\ Bit(Owed(t)' >= 2) \in Int
        /\ Bit(Owed(t) >= 1) \in Int /\ Bit(Owed(t) >= 2) \in Int
    BY DEF Bit, There
  <2> HIDE DEF A, A2, B, B2, C, C2
  <2>7. openssl_ctx_counter' = A2 + B2 + C2 + Kept + borrowed'
    BY <1>5, <1>6, <1>9, <1>10, <2>2, <2>3, <2>4, <2>5, <2>6
  <2>8. openssl_ctx_counter' \in Nat
    BY <1>10, <2>2, <2>3, <2>4, <2>7
  <2> QED BY <1>10, <2>7, <2>8 DEF A2, B2, C2, Balance
<1> QED BY <1>4, <1>11 DEF CountInv, TypeOK, GlobalType, RestType
-----------------------------------------------------------------------------
(* The actions. *)

LEMMA AtRest ==
  ASSUME CountInv, NEW t \in Threads, todo[t] = <<>>
  PROVE  pc[t] = "ready" /\ ~undo[t] /\ Owed(t) = 0
<1>1. Stage(t) /\ Where(t) /\ undo[t] \in BOOLEAN /\ pc[t] \in Places
  BY DEF CountInv, Stages, TypeOK, ThreadType, Places
<1>2. ~undo[t]
  BY <1>1 DEF Stage, StageOf
<1>3. pc[t] = "ready"
  BY <1>1 DEF Where, WhereOf, Places
<1> QED BY <1>2, <1>3 DEF Owed, OwedBy, Base

LEMMA BeginCounts ==
  ASSUME CountInv, NEW t \in Threads, NEW s \in Slots, NEW l \in Lists, NEW k \in Kinds,
         NEW no \in BOOLEAN, ~no,
         Begin(t, l, <<t, s>>, k), ObjectType',
         \A o \in Objects \ {<<t, s>>} : object'[o] = object[o],
         StageOf(l, k, no, object'[<<t, s>>], Own(t)'),
         Base(l, k, no) + There(object'[<<t, s>>]) = There(object[<<t, s>>])
  PROVE  CountInv'
<1>1. /\ TypeOK /\ pc[t] = "ready" /\ ~undo[t] /\ Owed(t) = 0
  BY AtRest DEF CountInv, Begin, Idle
<1>2. /\ todo' = [todo EXCEPT ![t] = l] /\ target' = [target EXCEPT ![t] = <<t, s>>]
      /\ builds' = [builds EXCEPT ![t] = k] /\ UNCHANGED <<undo, pc, seen>>
      /\ UNCHANGED <<program, openssl_ctx_counter, openssl_ctxe, held, borrowed>>
  BY DEF Begin, global
<1>3. ThreadType'
  BY <1>1, <1>2 DEF TypeOK, ThreadType, Objects
<1>4. RestType'
  BY <1>1, <1>2, <1>3 DEF TypeOK, GlobalType, RestType
<1>5. todo'[t] = l /\ target'[t] = <<t, s>> /\ builds'[t] = k /\ ~undo'[t] /\ undo'[t] \in BOOLEAN
      /\ pc'[t] = "ready"
  BY <1>1, <1>2 DEF TypeOK, ThreadType
<1>6. Stage(t)' /\ Where(t)'
  <2>1. undo'[t] = no
    BY <1>5
  <2> QED BY <1>5, <2>1 DEF Stage, Where, WhereOf
<1>7. Owed(t)' = Base(l, k, no)
  BY <1>5 DEF Owed, OwedBy, Base
<1>8. \A u \in Threads \ {t} :
        /\ todo'[u] = todo[u] /\ builds'[u] = builds[u] /\ undo'[u] = undo[u]
        /\ target'[u] = target[u] /\ pc'[u] = pc[u]
  BY <1>1, <1>2 DEF TypeOK, ThreadType
<1>9. openssl_ctx_counter' \in Int
      /\ openssl_ctx_counter' + borrowed + Owed(t) + There(object[<<t, s>>])
           = openssl_ctx_counter + borrowed' + Owed(t)' + There(object'[<<t, s>>])
  <2>1. openssl_ctx_counter \in Int /\ borrowed \in Int
    BY <1>1 DEF TypeOK, GlobalType
  <2>2. Base(l, k, no) \in Int /\ There(object'[<<t, s>>]) \in Int
    BY DEF Base, There
  <2>3. There(object[<<t, s>>]) \in Int /\ Owed(t)' \in Int /\ Owed(t) \in Int
    BY <1>1, <1>7, <2>2 DEF There
  <2>4. openssl_ctx_counter' = openssl_ctx_counter /\ borrowed' = borrowed
    BY <1>2
  <2>5. openssl_ctx_counter + Owed(t) = openssl_ctx_counter + 0
    BY <1>1
  <2>6. Owed(t)' + There(object'[<<t, s>>]) = 0 + There(object[<<t, s>>])
    BY <1>7, <2>3
  <2> DEFINE c == openssl_ctx_counter
             w == Owed(t)'
             k1 == There(object[<<t, s>>])
             k2 == There(object'[<<t, s>>])
  <2> HIDE DEF c, w, k1, k2
  <2>7. c + borrowed + 0 + k1 = c + borrowed + w + k2
    BY <2>1, <2>2, <2>3, <2>6 DEF c, w, k1, k2
  <2> QED BY <1>1, <2>1, <2>4, <2>7 DEF c, w, k1, k2
<1> QED BY <1>2, <1>4, <1>6, <1>8, <1>9, StepCounts

LEMMA DoneCounts ==
  ASSUME CountInv, NEW t \in Threads, todo[t] # <<>>, Done(t), NEW p \in Places,
         UNCHANGED <<program, borrowed>>, openssl_ctxe' \in Ctxs \cup {Null},
         held' \subseteq Ctxs, ssl' \in [Objects -> Ctxs \cup {Null}],
         seen' \in [Threads -> Ctxs \cup {Null}], openssl_ctx_counter' \in Int,
         p = IF Head(todo[t]) = "uncount" THEN "free"
             ELSE IF Head(todo[t]) \in {"ssl", "cert"} THEN "use" ELSE "load",
         openssl_ctx_counter' + Owed(t)
           = openssl_ctx_counter + OwedBy(todo[t], builds[t], undo[t], p)
  PROVE  CountInv'
<1>1. /\ TypeOK /\ Stage(t) /\ target[t] \in Objects /\ undo[t] \in BOOLEAN
      /\ todo[t] \in Lists /\ builds[t] \in Kinds /\ object[target[t]] \in Kinds
      /\ Tail(todo[t]) \in Lists
  <2>1. TypeOK /\ Stage(t)
    BY DEF CountInv, Stages
  <2> QED BY <2>1, TailsAreLists DEF TypeOK, ThreadType, ObjectType
<1>2. PICK s \in Slots : target[t] = <<t, s>>
  BY <1>1 DEF TypeOK, ThreadType
<1>3. /\ pc' = [pc EXCEPT ![t] = "ready"] /\ todo' = [todo EXCEPT ![t] = Tail(todo[t])]
      /\ undo' = [undo EXCEPT ![t] = Len(todo[t]) > 1 /\ (undo[t] \/ Head(todo[t]) = "ini")]
      /\ object' = IF Len(todo[t]) > 1 THEN object
                   ELSE [object EXCEPT ![target[t]] = builds[t]]
      /\ UNCHANGED <<target, builds>>
  BY DEF Done, Goto
<1>4. ThreadType' /\ ObjectType'
  BY <1>1, <1>3 DEF TypeOK, ThreadType, ObjectType
<1>5. RestType'
  BY <1>1, <1>4 DEF TypeOK, GlobalType, RestType
<1>6. /\ todo'[t] = Tail(todo[t]) /\ builds'[t] = builds[t] /\ pc'[t] = "ready"
      /\ target'[t] = target[t] /\ undo'[t] \in BOOLEAN
      /\ undo'[t] <=> (Len(todo[t]) > 1 /\ (undo[t] \/ Head(todo[t]) = "ini"))
      /\ object'[target[t]] = (IF Len(todo[t]) > 1 THEN object[target[t]] ELSE builds[t])
      /\ object'[target[t]] \in Kinds
  BY <1>1, <1>3 DEF TypeOK, ThreadType, ObjectType
<1>7. Own(t) \in BOOLEAN /\ Own(t)' \in BOOLEAN /\ (Len(todo[t]) > 1 => Own(t)' = Own(t))
  BY <1>3 DEF Own
<1>8. /\ StageOf(Tail(todo[t]), builds[t], undo'[t], object'[target[t]], Own(t)')
      /\ OwedBy(Tail(todo[t]), builds[t], undo'[t], "ready") + There(object'[target[t]])
           = OwedBy(todo[t], builds[t], undo[t], p) + There(object[target[t]])
  <2> DEFINE l == todo[t]
             b == builds[t]
             un == undo[t]
             k == object[target[t]]
             un2 == undo'[t]
             k2 == object'[target[t]]
             own == Own(t)
             own2 == Own(t)'
  <2>1. /\ l \in Lists /\ l # <<>> /\ b \in Kinds /\ un \in BOOLEAN /\ k \in Kinds
        /\ StageOf(l, b, un, k, own)
        /\ un2 \in BOOLEAN /\ (un2 <=> (Len(l) > 1 /\ (un \/ Head(l) = "ini")))
        /\ k2 \in Kinds /\ k2 = (IF Len(l) > 1 THEN k ELSE b)
        /\ own \in BOOLEAN /\ own2 \in BOOLEAN /\ (Len(l) > 1 => own2 = own)
        /\ p = IF Head(l) = "uncount" THEN "free"
               ELSE IF Head(l) \in {"ssl", "cert"} THEN "use" ELSE "load"
    BY <1>1, <1>6, <1>7 DEF Stage
  <2> HIDE DEF l, b, un, k, un2, k2, own, own2
  <2>2. /\ StageOf(Tail(l), b, un2, k2, own2)
        /\ OwedBy(Tail(l), b, un2, "ready") + There(k2) = OwedBy(l, b, un, p) + There(k)
    BY <2>1, DoneOwes
  <2> QED BY <2>2 DEF l, b, un, k, un2, k2, own2
<1>9. Stage(t)' /\ Where(t)'
  BY <1>6, <1>8 DEF Stage, Where, WhereOf
<1>10. Owed(t)' = OwedBy(Tail(todo[t]), builds[t], undo'[t], "ready")
  BY <1>6 DEF Owed
<1>11. /\ \A u \in Threads \ {t} :
           /\ todo'[u] = todo[u] /\ builds'[u] = builds[u] /\ undo'[u] = undo[u]
           /\ target'[u] = target[u] /\ pc'[u] = pc[u]
       /\ \A o \in Objects \ {<<t, s>>} : object'[o] = object[o]
  BY <1>1, <1>2, <1>3 DEF TypeOK, ThreadType, ObjectType
<1>12. openssl_ctx_counter' + borrowed + Owed(t) + There(object[<<t, s>>])
         = openssl_ctx_counter + borrowed' + Owed(t)' + There(object'[<<t, s>>])
  <2>1. openssl_ctx_counter \in Int /\ borrowed \in Int /\ borrowed' = borrowed
    BY <1>1 DEF TypeOK, GlobalType
  <2>2. /\ Owed(t) \in Int /\ OwedBy(todo[t], builds[t], undo[t], p) \in Int
        /\ OwedBy(Tail(todo[t]), builds[t], undo'[t], "ready") \in Int
    BY OwedIsInt DEF Owed
  <2>3. There(object[<<t, s>>]) \in Int /\ There(object'[<<t, s>>]) \in Int
    BY DEF Bit, There
  <2> DEFINE c == openssl_ctx_counter
             c2 == openssl_ctx_counter'
             w == Owed(t)
             w2 == Owed(t)'
             x == OwedBy(todo[t], builds[t], undo[t], p)
             k1 == There(object[<<t, s>>])
             k2 == There(object'[<<t, s>>])
  <2>4. /\ c \in Int /\ c2 \in Int /\ w \in Int /\ w2 \in Int /\ x \in Int
        /\ k1 \in Int /\ k2 \in Int /\ c2 + w = c + x
    BY <1>10, <2>1, <2>2, <2>3
  <2>5. w2 + k2 = x + k1
    BY <1>2, <1>8, <1>10
  <2> HIDE DEF c, c2, w, w2, x, k1, k2
  <2>6. c2 = (c + x) - w /\ w2 = (x + k1) - k2
    BY <2>4, <2>5
  <2>7. (((c + x) - w) + borrowed + w) + k1 = c + borrowed + ((x + k1) - k2) + k2
    BY <2>1, <2>4
  <2>8. c2 + borrowed + w + k1 = c + borrowed + w2 + k2
    BY <2>6, <2>7, Zenon
  <2> QED BY <2>1, <2>8 DEF c, c2, w, w2, k1, k2
<1> QED BY <1>2, <1>5, <1>9, <1>11, <1>12, StepCounts

LEMMA ListsAreThere ==
  /\ {<<"count">>, <<"ini", "ssl">>, <<"ini", "uncount">>, <<"ssl">>, Certificates,
      <<"ini", "cert", "cert", "cert">>, <<"ssl", "count", "count", "uncount">>,
      <<"uncount">>} \subseteq Lists
  /\ Certificates = <<"cert", "cert", "cert">>
BY DEF Lists, Certificates

LEMMA OperateCounts ==
  ASSUME CountInv, NEW t \in Threads, NEW s \in Slots, NEW o \in {t} \X Slots, o = <<t, s>>
  PROVE  /\ \A k \in {"socket", "server"} : Construct(t, o, k) => CountInv'
         /\ ConstructConnected(t, o) => CountInv'
         /\ Connect(t, o) => CountInv'
         /\ ConstructListening(t, o) => CountInv'
         /\ Listen(t, o) => CountInv'
         /\ Destroy(t, o) => CountInv'
         /\ \A r \in {t} \X Slots : Accept(t, r, o) \/ MoveConstruct(t, o, r) => CountInv'
<1>1. /\ TypeOK /\ o \in Objects /\ object \in [Objects -> Kinds]
      /\ ssl \in [Objects -> Ctxs \cup {Null}]
  BY DEF CountInv, TypeOK, ObjectType, Objects
<1>2. PICK no \in BOOLEAN : ~no
  OBVIOUS
<1>3. ASSUME UNCHANGED object PROVE /\ object'[o] = object[o] /\ Own(t)' = Own(t)
                                   /\ \A q \in Objects \ {o} : object'[q] = object[q]
  BY <1>3 DEF Own
<1>4. UNCHANGED <<object, ssl>> => ObjectType'
  BY <1>1 DEF ObjectType
<1>5. ASSUME NEW k \in {"socket", "server"}, Construct(t, o, k) PROVE CountInv'
  <2>1. /\ Begin(t, <<"count">>, o, k) /\ object[o] = "none" /\ UNCHANGED <<object, ssl>>
        /\ k \in Kinds
    BY <1>5 DEF Construct, Vacant, Kinds
  <2>2. StageOf(<<"count">>, k, no, object'[o], Own(t)')
    BY <1>2, <1>3, <2>1 DEF StageOf
  <2>3. Base(<<"count">>, k, no) = 0 /\ There(object'[o]) = 0 /\ There(object[o]) = 0
    BY <1>2, <1>3, <2>1 DEF Base, There
  <2> QED BY <1>2, <1>3, <1>4, <2>1, <2>2, <2>3, ListsAreThere, BeginCounts
<1>6. ASSUME ConstructConnected(t, o) PROVE CountInv'
  <2>1. object[o] = "none" /\ UNCHANGED <<object, ssl>> /\ object'[o] = "none"
    BY <1>3, <1>6 DEF ConstructConnected, Vacant
  <2>2. CASE Begin(t, <<"ini", "ssl">>, o, "socket")
    <3>1. /\ StageOf(<<"ini", "ssl">>, "socket", no, object'[o], Own(t)')
          /\ Base(<<"ini", "ssl">>, "socket", no) = 0
          /\ There(object'[o]) = 0 /\ There(object[o]) = 0 /\ "socket" \in Kinds
      BY <1>2, <2>1 DEF StageOf, Base, There, Kinds
    <3> QED BY <1>2, <1>3, <1>4, <2>1, <2>2, <3>1, ListsAreThere, BeginCounts
  <2>3. CASE Begin(t, <<"ini", "uncount">>, o, "none")
    <3>1. /\ StageOf(<<"ini", "uncount">>, "none", no, object'[o], Own(t)')
          /\ Base(<<"ini", "uncount">>, "none", no) = 0
          /\ There(object'[o]) = 0 /\ There(object[o]) = 0 /\ "none" \in Kinds
      BY <1>2, <2>1 DEF StageOf, Base, There, Kinds
    <3> QED BY <1>2, <1>3, <1>4, <2>1, <2>3, <3>1, ListsAreThere, BeginCounts
  <2> QED BY <1>6, <2>2, <2>3 DEF ConstructConnected
<1>7. ASSUME Connect(t, o) PROVE CountInv'
  <2>1. /\ Begin(t, <<"ssl">>, o, "socket") /\ object[o] = "socket" /\ UNCHANGED <<object, ssl>>
        /\ "socket" \in Kinds
    BY <1>7 DEF Connect, Kinds
  <2>2. StageOf(<<"ssl">>, "socket", no, object'[o], Own(t)')
    BY <1>2, <1>3, <2>1 DEF StageOf
  <2>3. Base(<<"ssl">>, "socket", no) = 0 /\ There(object'[o]) = 1 /\ There(object[o]) = 1
    BY <1>2, <1>3, <2>1 DEF Base, There
  <2> QED BY <1>2, <1>3, <1>4, <2>1, <2>2, <2>3, ListsAreThere, BeginCounts
<1>8. ASSUME ConstructListening(t, o) PROVE CountInv'
  <2>1. /\ Begin(t, <<"ini", "cert", "cert", "cert">>, o, "server")
        /\ object[o] = "none" /\ UNCHANGED <<object, ssl>> /\ "server" \in Kinds
    BY <1>8 DEF ConstructListening, Vacant, Kinds
  <2>2. StageOf(<<"ini", "cert", "cert", "cert">>, "server", no, object'[o], Own(t)')
    BY <1>2, <1>3, <2>1 DEF StageOf
  <2>3. /\ Base(<<"ini", "cert", "cert", "cert">>, "server", no) = 0
        /\ There(object'[o]) = 0 /\ There(object[o]) = 0
    BY <1>2, <1>3, <2>1 DEF Base, There
  <2> QED BY <1>2, <1>3, <1>4, <2>1, <2>2, <2>3, ListsAreThere, BeginCounts
<1>9. ASSUME Listen(t, o) PROVE CountInv'
  <2>1. /\ Begin(t, Certificates, o, "server") /\ object[o] = "server"
        /\ UNCHANGED <<object, ssl>> /\ "server" \in Kinds
    BY <1>9 DEF Listen, Kinds
  <2>2. StageOf(Certificates, "server", no, object'[o], Own(t)')
    BY <1>2, <1>3, <2>1, ListsAreThere DEF StageOf
  <2>3. Base(Certificates, "server", no) = 0 /\ There(object'[o]) = 1 /\ There(object[o]) = 1
    BY <1>2, <1>3, <2>1, ListsAreThere DEF Base, There
  <2> QED BY <1>2, <1>3, <1>4, <2>1, <2>2, <2>3, ListsAreThere, BeginCounts
<1>10. ASSUME Destroy(t, o) PROVE CountInv'
  <2>1. /\ Begin(t, <<"uncount">>, o, "none") /\ object[o] # "none" /\ "none" \in Kinds
        /\ ssl' = [ssl EXCEPT ![o] = Null] /\ object' = [object EXCEPT ![o] = "none"]
    BY <1>10 DEF Destroy, Kinds
  <2>2. object'[o] = "none" /\ \A q \in Objects \ {o} : object'[q] = object[q]
    BY <1>1, <2>1
  <2>3. StageOf(<<"uncount">>, "none", no, object'[o], Own(t)')
    BY <1>2, <2>2 DEF StageOf
  <2>4. Base(<<"uncount">>, "none", no) = 1 /\ There(object'[o]) = 0 /\ There(object[o]) = 1
    BY <1>2, <2>1, <2>2 DEF Base, There
  <2>5. ObjectType'
    BY <1>1, <2>1 DEF ObjectType
  <2> QED BY <1>2, <2>1, <2>2, <2>3, <2>4, <2>5, ListsAreThere, BeginCounts
<1>11. ASSUME NEW r \in {t} \X Slots, Accept(t, r, o) PROVE CountInv'
  <2>1. /\ Begin(t, <<"ssl", "count", "count", "uncount">>, o, "socket")
        /\ object[r] = "server" /\ object[o] = "none" /\ UNCHANGED <<object, ssl>>
        /\ "socket" \in Kinds
    BY <1>11 DEF Accept, Vacant, Kinds
  <2>2. Own(t)'
    BY <1>3, <2>1 DEF Own
  <2>3. StageOf(<<"ssl", "count", "count", "uncount">>, "socket", no, object'[o], Own(t)')
    BY <1>2, <1>3, <2>1, <2>2 DEF StageOf
  <2>4. /\ Base(<<"ssl", "count", "count", "uncount">>, "socket", no) = 0
        /\ There(object'[o]) = 0 /\ There(object[o]) = 0
    BY <1>2, <1>3, <2>1 DEF Base, There
  <2> QED BY <1>2, <1>3, <1>4, <2>1, <2>3, <2>4, ListsAreThere, BeginCounts
<1>12. ASSUME NEW r \in {t} \X Slots, MoveConstruct(t, o, r) PROVE CountInv'
  <2>1. /\ Begin(t, <<"count">>, o, object[r]) /\ object[o] = "none" /\ object[r] # "none"
        /\ ssl' = [ssl EXCEPT ![o] = ssl[r], ![r] = Null] /\ UNCHANGED object
        /\ object[r] \in Kinds /\ r \in Objects
    BY <1>1, <1>12 DEF MoveConstruct, Vacant, Objects
  <2>2. StageOf(<<"count">>, object[r], no, object'[o], Own(t)')
    BY <1>2, <1>3, <2>1 DEF StageOf
  <2>3. Base(<<"count">>, object[r], no) = 0 /\ There(object'[o]) = 0 /\ There(object[o]) = 0
    BY <1>2, <1>3, <2>1 DEF Base, There
  <2>4. ObjectType'
    BY <1>1, <2>1 DEF ObjectType
  <2> QED BY <1>2, <1>3, <2>1, <2>2, <2>3, <2>4, ListsAreThere, BeginCounts
<1> QED BY <1>5, <1>6, <1>7, <1>8, <1>9, <1>10, <1>11, <1>12

(* Steps inside the first of todo. *)
LEMMA PlaceCounts ==
  ASSUME CountInv, NEW t \in Threads, NEW p \in Places, pc' = [pc EXCEPT ![t] = p],
         UNCHANGED <<program, todo, target, builds, undo, object>>,
         openssl_ctxe' \in Ctxs \cup {Null}, held' \subseteq Ctxs,
         ssl' \in [Objects -> Ctxs \cup {Null}], seen' \in [Threads -> Ctxs \cup {Null}],
         openssl_ctx_counter' \in Int, borrowed' \in Nat, WhereOf(todo[t], p),
         openssl_ctx_counter' + borrowed + Owed(t)
           = openssl_ctx_counter + borrowed' + OwedBy(todo[t], builds[t], undo[t], p)
  PROVE  CountInv'
<1>1. TypeOK /\ Stage(t)
  BY DEF CountInv, Stages
<1>2. PICK s \in Slots : target[t] = <<t, s>>
  BY <1>1 DEF TypeOK, ThreadType
<1>3. RestType'
  BY <1>1 DEF TypeOK, GlobalType, ObjectType, ThreadType, RestType, Places
<1>4. pc'[t] = p
  BY <1>1 DEF TypeOK, ThreadType
<1>5. Stage(t)' /\ Where(t)' /\ Owed(t)' = OwedBy(todo[t], builds[t], undo[t], p)
  BY <1>1, <1>4 DEF Stage, Own, Where, Owed
<1>6. \A u \in Threads \ {t} :
        /\ todo'[u] = todo[u] /\ builds'[u] = builds[u] /\ undo'[u] = undo[u]
        /\ target'[u] = target[u] /\ pc'[u] = pc[u]
  BY <1>1 DEF TypeOK, ThreadType
<1>7. openssl_ctx_counter' + borrowed + Owed(t) + There(object[<<t, s>>])
        = openssl_ctx_counter + borrowed' + Owed(t)' + There(object'[<<t, s>>])
  <2> DEFINE c == openssl_ctx_counter
             c2 == openssl_ctx_counter'
             b2 == borrowed'
             w == Owed(t)
             w2 == Owed(t)'
             k == There(object[<<t, s>>])
  <2>1. /\ c \in Int /\ c2 \in Int /\ borrowed \in Int /\ b2 \in Int /\ w \in Int /\ w2 \in Int
        /\ k \in Int
    BY <1>1, <1>5 DEF TypeOK, GlobalType, Owed, OwedBy, Base, There
  <2>2. c2 + borrowed + w = c + b2 + w2
    BY <1>5
  <2> HIDE DEF c, c2, b2, w, w2, k
  <2>3. c2 + borrowed + w + k = c + b2 + w2 + k
    BY <2>1, <2>2
  <2> QED BY <2>3 DEF c, c2, b2, w, w2, k
<1> QED BY <1>3, <1>5, <1>6, <1>7, StepCounts

LEMMA MovesCount ==
  ASSUME CountInv, NEW t \in Threads, NEW o \in {t} \X Slots
  PROVE  /\ \A r \in {t} \X Slots : MoveAssign(t, o, r) => CountInv'
         /\ Disconnect(t, o) => CountInv'
<1>1. /\ TypeOK /\ Where(t) /\ o \in Objects /\ {t} \X Slots \subseteq Objects
      /\ openssl_ctx_counter \in Int /\ borrowed \in Nat
  BY DEF CountInv, Stages, TypeOK, GlobalType, Objects
<1>2. ASSUME ssl' \in [Objects -> Ctxs \cup {Null}],
             UNCHANGED <<global, object, operation, pc, seen>>
      PROVE  CountInv'
  <2>1. pc[t] \in Places /\ pc' = [pc EXCEPT ![t] = pc[t]]
    BY <1>1, <1>2 DEF TypeOK, ThreadType, Places
  <2>2. Owed(t) = OwedBy(todo[t], builds[t], undo[t], pc[t]) /\ Owed(t) \in Int
        /\ WhereOf(todo[t], pc[t])
    BY <1>1 DEF Where, Owed, OwedBy, Base
  <2>3. /\ UNCHANGED <<program, todo, target, builds, undo, object>>
        /\ openssl_ctxe' \in Ctxs \cup {Null} /\ held' \subseteq Ctxs
        /\ seen' \in [Threads -> Ctxs \cup {Null}]
        /\ openssl_ctx_counter' = openssl_ctx_counter /\ borrowed' = borrowed
    BY <1>1, <1>2 DEF global, operation, TypeOK, GlobalType, ThreadType
  <2> QED BY <1>1, <1>2, <2>1, <2>2, <2>3, PlaceCounts
<1>3. ASSUME NEW r \in {t} \X Slots, MoveAssign(t, o, r) PROVE CountInv'
  BY <1>1, <1>2, <1>3 DEF MoveAssign, TypeOK, ObjectType
<1>4. ASSUME Disconnect(t, o) PROVE CountInv'
  BY <1>1, <1>2, <1>4 DEF Disconnect, TypeOK, ObjectType
<1> QED BY <1>3, <1>4

(* The counter covers what it is for. *)
LEMMA CounterCovers ==
  ASSUME CountInv, NEW t \in Threads
  PROVE  /\ Owed(t) \in 0..2 /\ openssl_ctx_counter >= Owed(t) + Kept
         /\ Own(t) => openssl_ctx_counter >= Owed(t) + 1 + Kept
<1>1. TypeOK /\ Balance
  BY DEF CountInv
<1>2. /\ todo[t] \in Lists /\ builds[t] \in Kinds /\ undo[t] \in BOOLEAN /\ pc[t] \in Places
      /\ object[target[t]] \in Kinds /\ Own(t) \in BOOLEAN /\ Stage(t) /\ Where(t)
  BY DEF CountInv, Stages, TypeOK, ThreadType, ObjectType, Places, Own
<1>3. Owed(t) \in 0..2
  BY <1>2, OwedRange DEF Stage, Where, Owed
<1>4. ASSUME NEW n \in {1, 2} PROVE Cardinality(Owing(n)) \in Nat
                                   /\ Cardinality(Owing(n)) >= Bit(Owed(t) >= n)
  <2>1. IsFiniteSet(Owing(n))
    BY <1>1, Finite
  <2>2. Cardinality(Owing(n)) \in Nat /\ (Cardinality(Owing(n)) = 0 <=> Owing(n) = {})
    BY <2>1, FS_CardinalityType, FS_EmptySet
  <2>3. Owed(t) >= n => Owing(n) # {}
    BY DEF Owing
  <2> QED BY <2>2, <2>3 DEF Bit
<1>5. Cardinality(AliveSet) \in Nat /\ (Own(t) => Cardinality(AliveSet) >= 1)
  <2>1. IsFiniteSet(AliveSet)
    BY <1>1, Finite
  <2>2. Cardinality(AliveSet) \in Nat /\ (Cardinality(AliveSet) = 0 <=> AliveSet = {})
    BY <2>1, FS_CardinalityType, FS_EmptySet
  <2>3. Own(t) => AliveSet # {}
    BY DEF Own, AliveSet, Objects
  <2> QED BY <2>2, <2>3
<1>6. Owed(t) = Bit(Owed(t) >= 1) + Bit(Owed(t) >= 2)
  BY <1>3 DEF Bit
<1>7. Kept \in {0, 1} /\ borrowed \in Nat
  BY <1>1, Finite DEF TypeOK, GlobalType
<1> DEFINE A == Cardinality(AliveSet)
           B == Cardinality(Owing(1))
           C == Cardinality(Owing(2))
           x == Bit(Owed(t) >= 1)
           y == Bit(Owed(t) >= 2)
<1>8. /\ A \in Nat /\ B \in Nat /\ C \in Nat /\ x \in Int /\ y \in Int /\ B >= x /\ C >= y
      /\ openssl_ctx_counter = A + B + C + Kept + borrowed /\ Owed(t) = x + y
      /\ (Own(t) => A >= 1)
  BY <1>1, <1>4, <1>5, <1>6 DEF Balance, Bit
<1> HIDE DEF A, B, C, x, y
<1> QED BY <1>3, <1>7, <1>8

LEMMA ThrowCounts ==
  ASSUME CountInv, NEW t \in Threads, Throw(t), pc[t] \in {"unmake", "use"},
         UNCHANGED <<program, borrowed>>, openssl_ctxe' \in Ctxs \cup {Null},
         held' \subseteq Ctxs, ssl' \in [Objects -> Ctxs \cup {Null}],
         seen' \in [Threads -> Ctxs \cup {Null}],
         openssl_ctx_counter' = openssl_ctx_counter - Bit(pc[t] = "unmake")
  PROVE  CountInv'
<1>1. /\ TypeOK /\ Stage(t) /\ Where(t) /\ target[t] \in Objects
      /\ todo[t] \in Lists /\ builds[t] \in Kinds /\ undo[t] \in BOOLEAN
      /\ object[target[t]] \in Kinds /\ Own(t) \in BOOLEAN
  BY DEF CountInv, Stages, TypeOK, ThreadType, ObjectType, Own
<1>2. PICK s \in Slots : target[t] = <<t, s>>
  BY <1>1 DEF TypeOK, ThreadType
<1>3. PICK no \in BOOLEAN : ~no
  OBVIOUS
<1> DEFINE m == IF undo[t] THEN <<"uncount">> ELSE <<>>
           k == object[target[t]]
<1>4. /\ pc' = [pc EXCEPT ![t] = "ready"] /\ todo' = [todo EXCEPT ![t] = m]
      /\ builds' = [builds EXCEPT ![t] = k] /\ undo' = [undo EXCEPT ![t] = FALSE]
      /\ UNCHANGED <<object, target>>
  BY DEF Throw, Goto
<1>5. /\ m \in Lists /\ StageOf(m, k, no, k, Own(t))
      /\ OwedBy(m, k, no, "ready")
           = OwedBy(todo[t], builds[t], undo[t], pc[t]) - Bit(pc[t] = "unmake")
  <2> DEFINE l == todo[t]
             b == builds[t]
             un == undo[t]
             own == Own(t)
             p == pc[t]
  <2>1. /\ l \in Lists /\ b \in Kinds /\ un \in BOOLEAN /\ k \in Kinds /\ own \in BOOLEAN
        /\ p \in {"unmake", "use"} /\ StageOf(l, b, un, k, own) /\ WhereOf(l, p)
        /\ m = IF un THEN <<"uncount">> ELSE <<>>
    BY <1>1 DEF Stage, Where
  <2> HIDE DEF l, b, un, own, p, m, k
  <2>2. /\ m \in Lists /\ StageOf(m, k, no, k, own)
        /\ OwedBy(m, k, no, "ready") = OwedBy(l, b, un, p) - Bit(p = "unmake")
    BY <1>3, <2>1, ThrowOwes
  <2> QED BY <2>2 DEF l, b, un, own, p
<1>6. RestType'
  BY <1>1, <1>4, <1>5 DEF TypeOK, GlobalType, ObjectType, ThreadType, RestType
<1>7. todo'[t] = m /\ builds'[t] = k /\ pc'[t] = "ready" /\ target'[t] = target[t]
      /\ undo'[t] = no
  BY <1>1, <1>3, <1>4 DEF TypeOK, ThreadType
<1>8. Stage(t)' /\ Where(t)' /\ Owed(t)' = OwedBy(m, k, no, "ready")
  <2>1. Own(t)' = Own(t) /\ object'[target[t]] = k
    BY <1>4 DEF Own
  <2> HIDE DEF m, k
  <2> QED BY <1>5, <1>7, <2>1 DEF Stage, Where, WhereOf, Owed
<1>9. \A u \in Threads \ {t} :
        /\ todo'[u] = todo[u] /\ builds'[u] = builds[u] /\ undo'[u] = undo[u]
        /\ target'[u] = target[u] /\ pc'[u] = pc[u]
  BY <1>1, <1>4 DEF TypeOK, ThreadType
<1>10. openssl_ctx_counter' \in Int
       /\ openssl_ctx_counter' + borrowed + Owed(t) + There(object[<<t, s>>])
            = openssl_ctx_counter + borrowed' + Owed(t)' + There(object'[<<t, s>>])
  <2> DEFINE c == openssl_ctx_counter
             c2 == openssl_ctx_counter'
             w == Owed(t)
             w2 == Owed(t)'
             x == Bit(pc[t] = "unmake")
             h == There(object[<<t, s>>])
  <2>1. /\ c \in Int /\ borrowed \in Int /\ w \in Int /\ x \in Int /\ h \in Int
        /\ c2 = c - x /\ w2 = w - x
    <3>1. c \in Int /\ borrowed \in Int
      BY <1>1 DEF TypeOK, GlobalType
    <3>2. w \in Int /\ x \in Int /\ h \in Int
      BY DEF Owed, OwedBy, Base, There, Bit
    <3>3. w2 = w - x
      BY <1>5, <1>8 DEF Owed
    <3> QED BY <3>1, <3>2, <3>3
  <2> HIDE DEF c, c2, w, w2, x, h
  <2>2. c2 \in Int /\ c2 + borrowed + w + h = c + borrowed + w2 + h
    BY <2>1
  <2>3. object'[<<t, s>>] = object[<<t, s>>] /\ borrowed' = borrowed
    BY <1>4
  <2> QED BY <2>2, <2>3 DEF c, c2, w, w2, h
<1> QED BY <1>2, <1>4, <1>6, <1>8, <1>9, <1>10, StepCounts

LEMMA CountCounts ==
  ASSUME CountInv, NEW t \in Threads, Count(t) PROVE CountInv'
<1>1. /\ TypeOK /\ Stage(t) /\ todo[t] # <<>> /\ todo[t] \in Lists /\ pc[t] = "ready"
      /\ undo[t] \in BOOLEAN /\ Head(todo[t]) \in {"ini", "count", "ssl", "cert"}
  BY DEF Count, At, Counting, CountInv, Stages, TypeOK, ThreadType
<1> DEFINE p == IF openssl_ctx_counter = 0 THEN "make" ELSE "load"
<1>2. /\ pc' = [pc EXCEPT ![t] = p] /\ p \in Places
      /\ UNCHANGED <<program, todo, target, builds, undo, object, openssl_ctxe, held, ssl, seen>>
      /\ openssl_ctx_counter' = openssl_ctx_counter + 1
      /\ borrowed' = IF Head(todo[t]) \in {"ssl", "cert"} THEN borrowed + 1 ELSE borrowed
  BY DEF Count, Goto, Places, operation, Borrowing
<1>3. /\ openssl_ctx_counter \in Nat /\ borrowed \in Nat /\ openssl_ctx_counter' \in Int
      /\ borrowed' \in Nat
  BY <1>1, <1>2 DEF TypeOK, GlobalType
<1>4. openssl_ctx_counter = 0 => Owed(t) = 0 /\ ~Own(t)
  <2>1. Owed(t) \in 0..2 /\ Kept \in {0, 1}
    BY <1>1, CounterCovers, Finite
  <2> QED BY <1>3, <2>1, CounterCovers
<1>5. Owed(t) = Base(todo[t], builds[t], undo[t])
  BY <1>1 DEF Owed, OwedBy
<1>6. WhereOf(todo[t], p)
  <2>1. CASE openssl_ctx_counter = 0
    <3>1. ~undo[t] /\ todo[t] # <<"count", "uncount">> /\ todo[t] # <<"uncount">>
      BY <1>4, <1>5, <2>1 DEF Base
    <3>2. object[target[t]] = "none"
      <4>1. PICK s \in Slots : target[t] = <<t, s>>
        BY <1>1 DEF TypeOK, ThreadType
      <4> QED BY <1>4, <2>1, <4>1 DEF Own
    <3> QED BY <1>1, <1>4, <2>1, <3>1, <3>2 DEF Stage, StageOf, WhereOf
  <2>2. CASE openssl_ctx_counter # 0
    BY <1>1, <2>2 DEF WhereOf
  <2> QED BY <2>1, <2>2
<1>7. openssl_ctx_counter' + borrowed + Owed(t)
        = openssl_ctx_counter + borrowed' + OwedBy(todo[t], builds[t], undo[t], p)
  <2>1. Base(todo[t], builds[t], undo[t]) \in Int
    BY DEF Base
  <2>2. CASE Head(todo[t]) \in {"ssl", "cert"}
    <3>1. OwedBy(todo[t], builds[t], undo[t], p) = Base(todo[t], builds[t], undo[t])
      BY <2>2 DEF OwedBy
    <3> QED BY <1>2, <1>3, <1>5, <2>1, <2>2, <3>1
  <2>3. CASE Head(todo[t]) \in {"ini", "count"}
    <3>1. OwedBy(todo[t], builds[t], undo[t], p) = Base(todo[t], builds[t], undo[t]) + 1
      BY <2>3 DEF OwedBy
    <3> QED BY <1>2, <1>3, <1>5, <2>1, <2>3, <3>1
  <2> QED BY <1>1, <2>2, <2>3
<1>8. /\ openssl_ctxe' \in Ctxs \cup {Null} /\ held' \subseteq Ctxs
      /\ ssl' \in [Objects -> Ctxs \cup {Null}] /\ seen' \in [Threads -> Ctxs \cup {Null}]
  BY <1>1, <1>2 DEF TypeOK, GlobalType, ObjectType, ThreadType
<1> HIDE DEF p
<1> QED BY <1>2, <1>3, <1>6, <1>7, <1>8, PlaceCounts

LEMMA StepsCount ==
  ASSUME CountInv, NEW t \in Threads, Step(t) PROVE CountInv'
<1>1. /\ TypeOK /\ Stage(t) /\ Where(t)
      /\ todo[t] \in Lists /\ undo[t] \in BOOLEAN /\ pc[t] \in Places
      /\ openssl_ctx_counter \in Nat /\ borrowed \in Nat
      /\ openssl_ctxe \in Ctxs \cup {Null} /\ held \subseteq Ctxs
      /\ ssl \in [Objects -> Ctxs \cup {Null}] /\ seen \in [Threads -> Ctxs \cup {Null}]
      /\ target[t] \in Objects
  BY DEF CountInv, Stages, TypeOK, GlobalType, ObjectType, ThreadType, Places
<1>2. /\ Owed(t) \in Int /\ OwedBy(todo[t], builds[t], undo[t], "free") \in Int
      /\ Base(todo[t], builds[t], undo[t]) \in Int
      /\ Owed(t) = OwedBy(todo[t], builds[t], undo[t], pc[t])
  BY DEF Owed, OwedBy, Base
<1>3. CASE Count(t)
  BY <1>3, CountCounts
<1>4. CASE Make(t)
  <2> DEFINE p == IF pc'[t] = "load" THEN "load" ELSE "unmake"
  <2>1. /\ pc[t] = "make" /\ pc' = [pc EXCEPT ![t] = p] /\ p \in {"load", "unmake"}
        /\ openssl_ctxe' \in Ctxs \cup {Null} /\ held' \subseteq Ctxs
        /\ UNCHANGED <<program, openssl_ctx_counter, borrowed, object, ssl, seen,
                       todo, target, builds, undo>>
    BY <1>1, <1>4 DEF Make, Goto, operation, TypeOK, ThreadType
  <2> HIDE DEF p
  <2>2. todo[t] \in {<<"count">>, <<"ini", "ssl">>, <<"ini", "uncount">>,
                     <<"ini", "cert", "cert", "cert">>}
    BY <1>1, <2>1 DEF Where, WhereOf
  <2>3. todo[t] # <<>> /\ Head(todo[t]) \in {"ini", "count"}
    BY <2>2
  <2>4. WhereOf(todo[t], p)
    BY <2>1, <2>2, <2>3 DEF WhereOf
  <2>5. OwedBy(todo[t], builds[t], undo[t], p) = Owed(t)
    BY <1>2, <2>1 DEF OwedBy
  <2>6. /\ p \in Places /\ seen' \in [Threads -> Ctxs \cup {Null}]
        /\ openssl_ctx_counter' \in Int /\ borrowed' \in Nat
        /\ openssl_ctx_counter' + borrowed + Owed(t)
             = openssl_ctx_counter + borrowed' + OwedBy(todo[t], builds[t], undo[t], p)
    BY <1>1, <1>2, <2>1, <2>5 DEF Places
  <2> QED BY <1>1, <2>1, <2>4, <2>6, PlaceCounts
<1>5. CASE Unmake(t)
  <2>1. /\ pc[t] = "unmake" /\ openssl_ctx_counter' = openssl_ctx_counter - 1 /\ Throw(t)
        /\ UNCHANGED <<program, openssl_ctxe, held, ssl, seen>>
        /\ Head(todo[t]) \notin Borrowing => borrowed' = borrowed
    BY <1>5 DEF Unmake
  <2>2. Head(todo[t]) \notin Borrowing
    BY <1>1, <2>1 DEF Where, WhereOf, Borrowing
  <2> QED BY <1>1, <2>1, <2>2, ThrowCounts DEF Bit
<1>6. CASE Load(t)
  <2>1. /\ pc[t] = "load" /\ seen' = [seen EXCEPT ![t] = openssl_ctxe]
        /\ UNCHANGED <<program, openssl_ctx_counter, openssl_ctxe, held, borrowed, ssl>>
        /\ todo[t] # <<>> /\ Head(todo[t]) \in {"ini", "count", "ssl", "cert"}
    BY <1>1, <1>6 DEF Load, global, Where, WhereOf
  <2>2. seen' \in [Threads -> Ctxs \cup {Null}]
    BY <1>1, <2>1
  <2>3. CASE Head(todo[t]) \in {"ssl", "cert"}
    <3>1. pc' = [pc EXCEPT ![t] = "use"] /\ UNCHANGED <<todo, target, builds, undo, object>>
      BY <1>6, <2>3 DEF Load, Goto, operation, Borrowing
    <3>2. OwedBy(todo[t], builds[t], undo[t], "use") = Owed(t)
      BY <1>2, <2>1, <2>3 DEF OwedBy
    <3>3. WhereOf(todo[t], "use") /\ "use" \in Places
      BY <2>1, <2>3 DEF WhereOf, Places
    <3>4. /\ openssl_ctx_counter' \in Int /\ borrowed' \in Nat
          /\ openssl_ctx_counter' + borrowed + Owed(t)
               = openssl_ctx_counter + borrowed' + OwedBy(todo[t], builds[t], undo[t], "use")
      BY <1>1, <1>2, <2>1, <3>2
    <3> QED BY <1>1, <2>1, <2>2, <3>1, <3>3, <3>4, PlaceCounts
  <2>4. CASE Head(todo[t]) \in {"ini", "count"}
    <3>1. Done(t) /\ "load" \in Places
      BY <1>6, <2>4 DEF Load, Borrowing, Places
    <3> QED BY <1>1, <1>2, <2>1, <2>2, <2>4, <3>1, DoneCounts
  <2> QED BY <2>1, <2>3, <2>4
<1>7. CASE NewSsl(t)
  <2>1. /\ pc[t] = "use" /\ todo[t] # <<>> /\ Head(todo[t]) = "ssl"
        /\ UNCHANGED <<program, openssl_ctx_counter, openssl_ctxe, held, borrowed, seen>>
    BY <1>7 DEF NewSsl, At, global
  <2>2. CASE Done(t) /\ ssl' = [ssl EXCEPT ![target[t]] = seen[t]]
    <3>1. ssl' \in [Objects -> Ctxs \cup {Null}] /\ "use" \in Places
      BY <1>1, <2>2 DEF Places
    <3> QED BY <1>1, <1>2, <2>1, <2>2, <3>1, DoneCounts
  <2>3. CASE Throw(t) /\ UNCHANGED ssl
    BY <1>1, <2>1, <2>3, ThrowCounts DEF Bit
  <2> QED BY <1>7, <2>2, <2>3 DEF NewSsl
<1>8. CASE UseCert(t)
  <2>1. /\ pc[t] = "use" /\ todo[t] # <<>> /\ Head(todo[t]) = "cert" /\ "use" \in Places
        /\ UNCHANGED <<program, openssl_ctx_counter, openssl_ctxe, held, borrowed, seen, ssl>>
    BY <1>8 DEF UseCert, At, global, Places
  <2>2. CASE Done(t)
    BY <1>1, <1>2, <2>1, <2>2, DoneCounts
  <2>3. CASE Throw(t)
    BY <1>1, <2>1, <2>3, ThrowCounts DEF Bit
  <2> QED BY <1>8, <2>2, <2>3 DEF UseCert
<1>9. CASE Uncount(t)
  <2>1. /\ pc[t] = "ready" /\ todo[t] # <<>> /\ Head(todo[t]) = "uncount"
        /\ openssl_ctx_counter' = openssl_ctx_counter - 1
        /\ UNCHANGED <<program, openssl_ctxe, held, borrowed, ssl, seen>>
    BY <1>9 DEF Uncount, At
  <2>2. /\ Owed(t) = Base(todo[t], builds[t], undo[t])
        /\ OwedBy(todo[t], builds[t], undo[t], "free") = Base(todo[t], builds[t], undo[t]) - 1
    BY <2>1 DEF Owed, OwedBy
  <2>3. openssl_ctx_counter' + Owed(t)
          = openssl_ctx_counter + OwedBy(todo[t], builds[t], undo[t], "free")
    BY <1>1, <1>2, <2>1, <2>2
  <2>4. CASE pc' = [pc EXCEPT ![t] = "free"] /\ UNCHANGED <<todo, target, builds, undo, object>>
    <3>1. WhereOf(todo[t], "free") /\ "free" \in Places
      BY <1>1, <2>1 DEF Lists, Certificates, WhereOf, Places
    <3>2. /\ openssl_ctx_counter' \in Int /\ borrowed' \in Nat
          /\ openssl_ctx_counter' + borrowed + Owed(t)
               = openssl_ctx_counter + borrowed' + OwedBy(todo[t], builds[t], undo[t], "free")
      BY <1>1, <1>2, <2>1, <2>2
    <3> QED BY <1>1, <2>1, <2>4, <3>1, <3>2, PlaceCounts
  <2>5. CASE Done(t)
    <3>1. "free" \in Places /\ openssl_ctx_counter' \in Int
      BY <1>1, <2>1 DEF Places
    <3> QED BY <1>1, <2>1, <2>3, <2>5, <3>1, DoneCounts
  <2> QED BY <1>9, <2>4, <2>5 DEF Uncount, Goto, operation
<1>10. CASE Free(t)
  <2>1. /\ pc[t] = "free" /\ held' \subseteq Ctxs /\ Done(t) /\ "free" \in Places
        /\ UNCHANGED <<program, openssl_ctx_counter, openssl_ctxe, borrowed, ssl, seen>>
    BY <1>1, <1>10 DEF Free, Places
  <2>2. todo[t] = <<"uncount">>
    BY <1>1, <2>1 DEF Where, WhereOf
  <2>3. todo[t] # <<>> /\ Head(todo[t]) = "uncount"
    BY <2>2
  <2> QED BY <1>1, <1>2, <2>1, <2>3, DoneCounts
<1> QED BY <1>3, <1>4, <1>5, <1>6, <1>7, <1>8, <1>9, <1>10 DEF Step

LEMMA NextCounts == CountInv /\ [Next]_vars => CountInv'
<1> SUFFICES ASSUME CountInv, [Next]_vars PROVE CountInv'
  OBVIOUS
<1>1. ASSUME NEW t \in Threads, NEW o \in {t} \X Slots,
             \/ \E k \in {"socket", "server"} : Construct(t, o, k)
             \/ ConstructConnected(t, o) \/ Connect(t, o)
             \/ ConstructListening(t, o) \/ Listen(t, o) \/ Destroy(t, o)
             \/ \E r \in {t} \X Slots : Accept(t, r, o) \/ MoveConstruct(t, o, r)
      PROVE  CountInv'
  <2>1. PICK s \in Slots : o = <<t, s>>
    OBVIOUS
  <2> QED BY <1>1, <2>1, OperateCounts
<1>2. ASSUME NEW t \in Threads, NEW o \in {t} \X Slots,
             Disconnect(t, o) \/ \E r \in {t} \X Slots : MoveAssign(t, o, r)
      PROVE  CountInv'
  BY <1>2, MovesCount
<1>3. ASSUME UNCHANGED vars PROVE CountInv'
  <2>1. /\ Owing(1)' = Owing(1) /\ Owing(2)' = Owing(2) /\ AliveSet' = AliveSet
        /\ Kept' = Kept
    BY <1>3 DEF vars, global, operation, Owing, Owed, AliveSet, Kept
  <2>2. Balance'
    BY <1>3, <2>1 DEF CountInv, Balance, vars, global
  <2>3. TypeOK'
    BY <1>3 DEF CountInv, TypeOK, GlobalType, ObjectType, ThreadType, vars, global, operation
  <2>4. Stages'
    BY <1>3 DEF CountInv, Stages, Stage, Own, Where, vars, global, operation
  <2> QED BY <2>2, <2>3, <2>4 DEF CountInv
<1> QED BY <1>1, <1>2, <1>3, StepsCount DEF Next, Operate

LEMMA InitCounts == Init => CountInv
<1> SUFFICES ASSUME Init PROVE CountInv
  OBVIOUS
<1>1. TypeOK
  <2>1. GlobalType
    BY ContextAssumption DEF Init, GlobalType, Kept
  <2>2. ObjectType
    BY DEF Init, ObjectType, Kinds
  <2>3. ThreadType
    <3>1. <<>> \in Lists /\ (CHOOSE s \in Slots : TRUE) \in Slots
      BY ContextAssumption DEF Lists
    <3> QED BY <3>1 DEF Init, ThreadType, Kinds, Objects
  <2> QED BY <2>1, <2>2, <2>3 DEF TypeOK
<1>2. Stages
  BY DEF Init, Stages, Stage, StageOf, Where, WhereOf
<1>3. Balance
  <2>1. AliveSet = {} /\ \A t \in Threads : Owed(t) = 0
    BY DEF Init, AliveSet, Owed, OwedBy, Base
  <2>2. /\ Cardinality(Owing(1)) = 0 /\ Cardinality(Owing(2)) = 0
        /\ Cardinality(AliveSet) = 0
    <3>1. Owing(1) = {} /\ Owing(2) = {}
      BY <2>1 DEF Owing
    <3> QED BY <2>1, <3>1, FS_EmptySet
  <2>3. openssl_ctx_counter = Kept /\ borrowed = 0 /\ Kept \in {0, 1}
    BY DEF Init, Kept
  <2> QED BY <2>1, <2>2, <2>3 DEF Balance
<1> QED BY <1>1, <1>2, <1>3 DEF CountInv

LEMMA CountAlways == Spec => []CountInv
BY InitCounts, NextCounts, PTL DEF Spec

LEMMA CountMeans == CountInv => Accounting
<1> SUFFICES ASSUME CountInv PROVE Accounting
  OBVIOUS
<1>1. TypeOK /\ Balance /\ AliveObjects = Cardinality(AliveSet)
  BY DEF CountInv, AliveObjects, AliveSet
<1>2. /\ Cardinality(AliveSet) \in Nat /\ Cardinality(Owing(1)) \in Nat
      /\ Cardinality(Owing(2)) \in Nat /\ Kept \in {0, 1} /\ borrowed \in Nat
  BY <1>1, Finite, FS_CardinalityType DEF TypeOK, GlobalType
<1>3. openssl_ctx_counter >= AliveObjects + Kept
  BY <1>1, <1>2 DEF Balance
<1>4. ASSUME \A t \in Threads : Idle(t) PROVE openssl_ctx_counter = AliveObjects + Kept + borrowed
  <2>1. \A t \in Threads : Owed(t) = 0
    BY <1>4, AtRest DEF Idle
  <2>2. Owing(1) = {} /\ Owing(2) = {}
    BY <2>1 DEF Owing
  <2>3. Cardinality(Owing(1)) = 0 /\ Cardinality(Owing(2)) = 0
    BY <2>2, FS_EmptySet
  <2> QED BY <1>1, <1>2, <2>3 DEF Balance
<1> QED BY <1>3, <1>4 DEF Accounting
-----------------------------------------------------------------------------
(* The context. *)

(* Programs for which the counter is enough: one thread at a time, or an   *)
(* object that outlives the threads.                                       *)
Guarded == \A p \in Programs : p.keeper \/ \E t \in Threads : p.threads = {t}

Keeping ==
  /\ program.keeper /\ openssl_ctxe \in held
  /\ \A t \in Threads : /\ pc[t] \notin {"make", "unmake", "free"}
                        /\ pc[t] = "use" => seen[t] = openssl_ctxe

Absent(t) == todo[t] = <<>> /\ pc[t] = "ready" /\ ~Own(t)

Alone(u) ==
  /\ ~program.keeper /\ program.threads = {u} /\ \A t \in Threads \ {u} : Absent(t)
  /\ pc[u] \in {"ready", "load", "use"} /\ openssl_ctx_counter > 0 => openssl_ctxe \in held
  /\ pc[u] = "free" => openssl_ctxe \in held /\ openssl_ctx_counter = 0
  /\ pc[u] \in {"make", "unmake"} => openssl_ctx_counter = 1
  /\ pc[u] \in {"load", "use"} => openssl_ctx_counter > 0
  /\ pc[u] = "use" => seen[u] = openssl_ctxe

Watched == Keeping \/ \E u \in Threads : Alone(u)

LEMMA InitWatched == Guarded /\ Init => Watched
<1> SUFFICES ASSUME Guarded, Init PROVE Watched
  OBVIOUS
<1>1. CASE program.keeper
  <2>1. openssl_ctxe \in Ctxs /\ held = {openssl_ctxe} \ {Null}
    BY <1>1, ContextAssumption DEF Init
  <2>2. openssl_ctxe \in held
    BY <2>1, ContextAssumption
  <2> QED BY <1>1, <2>2 DEF Init, Watched, Keeping
<1>2. CASE ~program.keeper
  <2>1. PICK u \in Threads : program.threads = {u}
    BY <1>2 DEF Guarded, Init
  <2>2. \A t \in Threads : Absent(t)
    <3>1. \A t \in Threads, s \in Slots : object[<<t, s>>] = "none"
      BY DEF Init, Objects
    <3> QED BY <3>1 DEF Init, Absent, Own
  <2>3. pc[u] = "ready" /\ openssl_ctx_counter = 0
    BY <1>2 DEF Init, Kept
  <2>4. Alone(u)
    BY <1>2, <2>1, <2>2, <2>3 DEF Alone
  <2> QED BY <2>4 DEF Watched
<1> QED BY <1>1, <1>2

(* What the actions that begin an operation leave alone. *)
LEMMA OperateLeaves ==
  ASSUME CountInv, NEW t \in Threads, Operate(t)
  PROVE  /\ UNCHANGED <<global, pc, seen>>
         /\ todo[t] = <<>>
         /\ \A u \in Threads \ {t} : todo'[u] = todo[u] /\ Own(u)' = Own(u)
         /\ t \notin program.threads /\ ~Own(t) => UNCHANGED <<todo, object>>
<1>1. /\ todo \in [Threads -> Lists] /\ object \in [Objects -> Kinds]
  BY DEF CountInv, TypeOK, ThreadType, ObjectType
<1>2. PICK o \in {t} \X Slots :
        \/ \E k \in {"socket", "server"} : Construct(t, o, k)
        \/ ConstructConnected(t, o) \/ Connect(t, o)
        \/ ConstructListening(t, o) \/ Listen(t, o)
        \/ Disconnect(t, o) \/ Destroy(t, o)
        \/ \E r \in {t} \X Slots :
             Accept(t, r, o) \/ MoveConstruct(t, o, r) \/ MoveAssign(t, o, r)
  BY DEF Operate
<1>3. ASSUME NEW l, NEW q, NEW k, Begin(t, l, q, k)
      PROVE  /\ UNCHANGED <<global, pc, seen>> /\ todo[t] = <<>>
             /\ \A u \in Threads \ {t} : todo'[u] = todo[u]
  BY <1>1, <1>3 DEF Begin, Idle
<1>4. ASSUME NEW q \in {t} \X Slots, object[q] # "none" PROVE Own(t)
  BY <1>4 DEF Own
<1>5. ASSUME Vacant(o) PROVE t \in program.threads
  BY <1>5 DEF Vacant
<1>6. UNCHANGED object => \A u \in Threads : Own(u)' = Own(u)
  BY DEF Own
<1>7. CASE \/ \E k \in {"socket", "server"} : Construct(t, o, k)
           \/ ConstructConnected(t, o) \/ ConstructListening(t, o)
           \/ \E r \in {t} \X Slots : Accept(t, r, o) \/ MoveConstruct(t, o, r)
  BY <1>3, <1>5, <1>6, <1>7
     DEF Construct, ConstructConnected, ConstructListening, Accept, MoveConstruct
<1>8. CASE Connect(t, o) \/ Listen(t, o)
  BY <1>3, <1>4, <1>6, <1>8 DEF Connect, Listen
<1>9. CASE Disconnect(t, o)
  BY <1>6, <1>9 DEF Disconnect, Idle, operation
<1>10. CASE \E r \in {t} \X Slots : MoveAssign(t, o, r)
  BY <1>6, <1>10 DEF MoveAssign, Idle, operation
<1>11. CASE Destroy(t, o)
  <2>1. /\ object[o] # "none" /\ Begin(t, <<"uncount">>, o, "none")
        /\ object' = [object EXCEPT ![o] = "none"]
    BY <1>11 DEF Destroy
  <2>2. \A u \in Threads \ {t} : Own(u)' = Own(u)
    <3>1. ASSUME NEW u \in Threads \ {t}, NEW s \in Slots
          PROVE  object'[<<u, s>>] = object[<<u, s>>]
      <4>1. <<u, s>> \in Objects /\ <<u, s>> # o
        BY DEF Objects
      <4> QED BY <1>1, <2>1, <4>1
    <3> QED BY <3>1 DEF Own
  <2> QED BY <1>3, <1>4, <2>1, <2>2
<1> QED BY <1>2, <1>7, <1>8, <1>9, <1>10, <1>11

LEMMA StepLeaves ==
  ASSUME CountInv, NEW t \in Threads, Step(t)
  PROVE  /\ program' = program /\ ~Absent(t)
         /\ \A u \in Threads \ {t} :
              todo'[u] = todo[u] /\ pc'[u] = pc[u] /\ seen'[u] = seen[u] /\ Own(u)' = Own(u)
<1>1. /\ todo \in [Threads -> Lists] /\ object \in [Objects -> Kinds]
      /\ pc \in [Threads -> Places] /\ target[t] \in {t} \X Slots
      /\ seen \in [Threads -> Ctxs \cup {Null}]
  BY DEF CountInv, TypeOK, ThreadType, ObjectType, Places
<1>2. UNCHANGED object => \A u \in Threads : Own(u)' = Own(u)
  BY DEF Own
<1>3. ASSUME Done(t) \/ Throw(t)
      PROVE  /\ \A u \in Threads \ {t} : todo'[u] = todo[u] /\ pc'[u] = pc[u] /\ Own(u)' = Own(u)
             /\ pc'[t] = "ready"
  <2>1. /\ \A u \in Threads \ {t} : todo'[u] = todo[u] /\ pc'[u] = pc[u]
        /\ pc'[t] = "ready"
    BY <1>1, <1>3 DEF Done, Throw, Goto
  <2>2. \A q \in Objects : q # target[t] => object'[q] = object[q]
    BY <1>1, <1>3 DEF Done, Throw
  <2>3. \A u \in Threads \ {t} : Own(u)' = Own(u)
    <3>1. ASSUME NEW u \in Threads \ {t}, NEW s \in Slots
          PROVE  object'[<<u, s>>] = object[<<u, s>>]
      <4>1. <<u, s>> \in Objects /\ <<u, s>> # target[t]
        BY <1>1 DEF Objects
      <4> QED BY <2>2, <4>1
    <3> QED BY <3>1 DEF Own
  <2> QED BY <2>1, <2>3
<1>4. ASSUME NEW p, Goto(t, p), UNCHANGED object, UNCHANGED todo
      PROVE  \A u \in Threads \ {t} : todo'[u] = todo[u] /\ pc'[u] = pc[u] /\ Own(u)' = Own(u)
  BY <1>1, <1>2, <1>4 DEF Goto
<1>5. CASE Count(t)
  BY <1>4, <1>5 DEF Count, At, Absent, operation
<1>6. CASE Make(t)
  BY <1>4, <1>6 DEF Make, Absent, operation
<1>7. CASE Unmake(t)
  BY <1>3, <1>7 DEF Unmake, Absent
<1>8. CASE Load(t)
  BY <1>1, <1>3, <1>4, <1>8 DEF Load, Absent, operation, global
<1>9. CASE NewSsl(t)
  BY <1>3, <1>9 DEF NewSsl, At, Absent, global
<1>10. CASE UseCert(t)
  BY <1>3, <1>10 DEF UseCert, At, Absent, global
<1>11. CASE Uncount(t)
  BY <1>3, <1>4, <1>11 DEF Uncount, At, Absent, operation
<1>12. CASE Free(t)
  BY <1>3, <1>12 DEF Free, Absent
<1> QED BY <1>5, <1>6, <1>7, <1>8, <1>9, <1>10, <1>11, <1>12 DEF Step

LEMMA NextKeeping == CountInv /\ Keeping /\ [Next]_vars => Keeping'
<1> SUFFICES ASSUME CountInv, Keeping, [Next]_vars PROVE Keeping'
  OBVIOUS
<1>1. ASSUME UNCHANGED <<global, pc, seen>> PROVE Keeping'
  BY <1>1 DEF Keeping, global
<1>2. ASSUME NEW t \in Threads, Step(t) PROVE Keeping'
  <2>1. /\ program' = program
        /\ \A u \in Threads \ {t} : pc'[u] = pc[u] /\ seen'[u] = seen[u]
    BY <1>2, StepLeaves
  <2>2. /\ pc \in [Threads -> Places] /\ todo[t] \in Lists /\ Where(t)
        /\ seen \in [Threads -> Ctxs \cup {Null}] /\ Kept = 1 /\ openssl_ctx_counter \in Nat
    BY DEF CountInv, Stages, TypeOK, GlobalType, ThreadType, Places, Keeping, Kept
  <2>3. ASSUME openssl_ctxe' = openssl_ctxe, held' = held,
               pc'[t] \notin {"make", "unmake", "free"}, pc'[t] = "use" => seen'[t] = openssl_ctxe
        PROVE  Keeping'
    BY <2>1, <2>3 DEF Keeping
  <2>4. Done(t) \/ Throw(t) => pc'[t] = "ready"
    BY <2>2 DEF Done, Throw, Goto
  <2>5. openssl_ctx_counter >= Owed(t) + 1 /\ Owed(t) \in 0..2
    BY <2>2, CounterCovers
  <2>6. CASE Count(t)
    <3>1. openssl_ctx_counter # 0
      BY <2>2, <2>5
    <3> QED BY <2>2, <2>3, <2>6, <3>1 DEF Count, Goto
  <2>7. CASE Load(t)
    BY <2>2, <2>3, <2>4, <2>7 DEF Load, Goto, global
  <2>8. CASE NewSsl(t) \/ UseCert(t)
    BY <2>3, <2>4, <2>8 DEF NewSsl, UseCert, global
  <2>9. CASE Uncount(t)
    <3>1. pc[t] = "ready" /\ todo[t] # <<>> /\ Head(todo[t]) = "uncount"
      BY <2>9 DEF Uncount, At
    <3>2. todo[t] = <<"uncount">>
      BY <2>2, <3>1 DEF Lists, Certificates
    <3>3. Owed(t) >= 1
      BY <3>1, <3>2 DEF Owed, OwedBy, Base
    <3>4. openssl_ctx_counter # 1
      BY <2>2, <2>5, <3>3
    <3> QED BY <2>3, <2>4, <2>9, <3>4 DEF Uncount
  <2>10. CASE Make(t) \/ Unmake(t) \/ Free(t)
    BY <2>10 DEF Keeping, Make, Unmake, Free
  <2> QED BY <1>2, <2>6, <2>7, <2>8, <2>9, <2>10 DEF Step
<1>3. ASSUME NEW t \in Threads, Operate(t) PROVE Keeping'
  BY <1>1, <1>3, OperateLeaves
<1>4. CASE UNCHANGED vars
  BY <1>1, <1>4 DEF vars
<1> QED BY <1>2, <1>3, <1>4 DEF Next

LEMMA NextAlone ==
  ASSUME CountInv, NEW u \in Threads, Alone(u), [Next]_vars PROVE Alone(u)'
<1>1. ASSUME NEW t \in Threads, Operate(t) PROVE Alone(u)'
  <2>1. UNCHANGED <<global, pc, seen>>
    BY <1>1, OperateLeaves
  <2>2. \A v \in Threads \ {u} : Absent(v)'
    <3>1. CASE t = u
      BY <1>1, <2>1, <3>1, OperateLeaves DEF Alone, Absent
    <3>2. CASE t # u
      <4>1. UNCHANGED <<todo, object>>
        BY <1>1, <3>2, OperateLeaves DEF Alone, Absent
      <4> QED BY <2>1, <4>1 DEF Alone, Absent, Own
    <3> QED BY <3>1, <3>2
  <2> QED BY <2>1, <2>2 DEF Alone, global
<1>2. ASSUME NEW t \in Threads, Step(t) PROVE Alone(u)'
  <2>1. t = u
    BY <1>2, StepLeaves DEF Alone
  <2>2. program' = program /\ \A v \in Threads \ {u} : Absent(v)'
    BY <1>2, <2>1, StepLeaves DEF Alone, Absent
  <2>3. /\ pc \in [Threads -> Places] /\ seen \in [Threads -> Ctxs \cup {Null}]
        /\ openssl_ctx_counter \in Nat
    BY DEF CountInv, TypeOK, GlobalType, ThreadType, Places
  <2>4. Done(u) \/ Throw(u) => pc'[u] = "ready"
    BY <2>3 DEF Done, Throw, Goto
  <2>5. \A p : Goto(u, p) => pc'[u] = p
    BY <2>3 DEF Goto
  <2> DEFINE Rest ==
        /\ pc'[u] \in {"ready", "load", "use"} /\ openssl_ctx_counter' > 0 => openssl_ctxe' \in held'
        /\ pc'[u] = "free" => openssl_ctxe' \in held' /\ openssl_ctx_counter' = 0
        /\ pc'[u] \in {"make", "unmake"} => openssl_ctx_counter' = 1
        /\ pc'[u] \in {"load", "use"} => openssl_ctx_counter' > 0
        /\ pc'[u] = "use" => seen'[u] = openssl_ctxe'
  <2> SUFFICES Rest
    BY <2>2 DEF Alone
  <2>6. CASE Count(u)
    <3>1. /\ pc[u] = "ready" /\ openssl_ctx_counter' = openssl_ctx_counter + 1
          /\ pc'[u] = IF openssl_ctx_counter = 0 THEN "make" ELSE "load"
          /\ UNCHANGED <<openssl_ctxe, held>>
      BY <2>5, <2>6 DEF Count, At
    <3> QED BY <2>3, <3>1 DEF Alone
  <2>7. CASE Make(u)
    <3>1. /\ pc[u] = "make" /\ openssl_ctx_counter' = openssl_ctx_counter
          /\ \/ pc'[u] = "load" /\ openssl_ctxe' \in held'
             \/ pc'[u] = "unmake"
      BY <2>5, <2>7 DEF Make
    <3> QED BY <2>3, <3>1 DEF Alone
  <2>8. CASE Unmake(u)
    <3>1. /\ pc[u] = "unmake" /\ openssl_ctx_counter' = openssl_ctx_counter - 1
          /\ pc'[u] = "ready"
      BY <2>4, <2>8 DEF Unmake
    <3> QED BY <2>3, <3>1 DEF Alone
  <2>9. CASE Load(u)
    <3>1. /\ pc[u] = "load" /\ pc'[u] \in {"use", "ready"} /\ seen'[u] = openssl_ctxe
          /\ UNCHANGED <<openssl_ctxe, held, openssl_ctx_counter>>
      BY <2>3, <2>4, <2>5, <2>9 DEF Load, global
    <3> QED BY <2>3, <3>1 DEF Alone
  <2>10. CASE NewSsl(u) \/ UseCert(u)
    <3>1. /\ pc[u] = "use" /\ pc'[u] = "ready"
          /\ UNCHANGED <<openssl_ctxe, held, openssl_ctx_counter>>
      BY <2>4, <2>10 DEF NewSsl, UseCert, At, global
    <3> QED BY <2>3, <3>1 DEF Alone
  <2>11. CASE Uncount(u)
    <3>1. /\ pc[u] = "ready" /\ openssl_ctx_counter' = openssl_ctx_counter - 1
          /\ UNCHANGED <<openssl_ctxe, held>>
          /\ \/ openssl_ctx_counter = 1 /\ pc'[u] = "free"
             \/ openssl_ctx_counter # 1 /\ pc'[u] = "ready"
      BY <2>4, <2>5, <2>11 DEF Uncount, At
    <3> QED BY <2>3, <3>1 DEF Alone
  <2>12. CASE Free(u)
    <3>1. /\ pc[u] = "free" /\ pc'[u] = "ready" /\ openssl_ctx_counter' = openssl_ctx_counter
      BY <2>4, <2>12 DEF Free
    <3> QED BY <2>3, <3>1 DEF Alone
  <2> HIDE DEF Rest
  <2> QED BY <1>2, <2>1, <2>6, <2>7, <2>8, <2>9, <2>10, <2>11, <2>12 DEF Step
<1>3. CASE UNCHANGED vars
  BY <1>3 DEF vars, global, operation, Alone, Absent, Own
<1> QED BY <1>1, <1>2, <1>3 DEF Next
-----------------------------------------------------------------------------
(* The theorems. *)

(* The counter never goes below zero, and every operation stays within its *)
(* own thread's objects, whatever fails or throws.                         *)
THEOREM TypeCorrect == Spec => []TypeOK
<1>1. CountInv => TypeOK
  BY DEF CountInv
<1> QED BY CountAlways, <1>1, PTL

(* openssl_ctx_counter is the number of objects alive and of the counts    *)
(* that uses of the context took, for any number of threads: no path of a  *)
(* constructor, an exception in it or a destructor loses a count.          *)
THEOREM CountsAreRight == Spec => []Accounting
BY CountAlways, CountMeans, PTL

LEMMA WatchedAlways ==
  ASSUME Guarded PROVE Spec => [](CountInv /\ Watched)
<1>1. CountInv /\ Watched /\ [Next]_vars => Watched'
  BY NextKeeping, NextAlone DEF Watched
<1>2. Init => Watched
  BY Guarded, InitWatched
<1> QED BY InitCounts, NextCounts, <1>1, <1>2, PTL DEF Spec

(* Where one thread uses TLS, or an object outlives the threads that do,   *)
(* what openssl_ctx() returns to be used is a context that exists.         *)
THEOREM UsedContextsAreLive ==
  ASSUME Guarded PROVE Spec => []SeenIsLive
<1>1. CountInv /\ Watched => SeenIsLive
  <2> SUFFICES ASSUME CountInv, Watched, NEW t \in Threads, pc[t] = "use"
               PROVE  seen[t] # Null /\ Live(seen[t])
    BY DEF SeenIsLive
  <2>1. held \subseteq Ctxs
    BY DEF CountInv, TypeOK, GlobalType
  <2>2. seen[t] \in held
    BY DEF Watched, Keeping, Alone, Absent
  <2> QED BY <2>1, <2>2, ContextAssumption DEF Live
<1>2. Spec => [](CountInv /\ Watched)
  BY Guarded, WatchedAlways
<1> QED BY <1>1, <1>2, PTL

(* There, SSL_CTX_free() is called for a context that has not been freed.  *)
THEOREM ContextsAreFreedOnce ==
  ASSUME Guarded PROVE Spec => []FreedOnce
<1>1. CountInv /\ Watched => FreedOnce
  BY DEF Watched, Keeping, Alone, Absent, FreedOnce
<1>2. Spec => [](CountInv /\ Watched)
  BY Guarded, WatchedAlways
<1> QED BY <1>1, <1>2, PTL

(* There, the context exists as long as there is an object.                *)
THEOREM ContextsOutlive ==
  ASSUME Guarded PROVE Spec => []ContextOutlivesObjects
<1>1. CountInv /\ Watched => ContextOutlivesObjects
  <2> SUFFICES ASSUME CountInv, Watched, \A t \in Threads : Idle(t), AliveObjects + Kept > 0
               PROVE  openssl_ctxe \in held
    BY DEF ContextOutlivesObjects
  <2>1. openssl_ctx_counter >= AliveObjects + Kept
    BY CountMeans DEF Accounting
  <2>2. /\ openssl_ctx_counter \in Nat /\ Kept \in {0, 1} /\ IsFiniteSet(AliveSet)
        /\ AliveObjects = Cardinality(AliveSet)
    BY Finite DEF CountInv, TypeOK, GlobalType, AliveObjects, AliveSet
  <2>3. AliveObjects \in Nat
    BY <2>2, FS_CardinalityType
  <2>4. openssl_ctx_counter > 0
    BY <2>1, <2>2, <2>3
  <2>5. \A t \in Threads : pc[t] = "ready"
    BY AtRest DEF Idle
  <2> QED BY <2>4, <2>5 DEF Watched, Keeping, Alone
<1>2. Spec => [](CountInv /\ Watched)
  BY Guarded, WatchedAlways
<1> QED BY <1>1, <1>2, PTL
=============================================================================
