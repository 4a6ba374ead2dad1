----------------------------- MODULE TlsContext -----------------------------
(***************************************************************************)
(* The OpenSSL context all TLS objects of a process share, and the atomic  *)
(* counter that decides when it is made and when it is freed               *)
(* (openssl_ctx() and openssl_ctx_free() in src/src/tls_socket.cpp), under *)
(* the operations of tls_socket and tls_socket_serv objects in several     *)
(* threads; an object belongs to one thread.                               *)
(*                                                                         *)
(* Every access to the counter or to the pointer is a step of its own.  An *)
(* operation is the list of what it does to the context, in order:         *)
(*   "ini"     openssl_ctx() in ctxssl_ini, undone if the rest throws      *)
(*   "count"   openssl_ctx(), its result ignored                           *)
(*   "ssl"     SSL_new(openssl_ctx())                                      *)
(*   "cert"    a certificate or key call on openssl_ctx()                  *)
(*   "uncount" openssl_ctx_free()                                          *)
(***************************************************************************)
EXTENDS Integers, Sequences, FiniteSets

CONSTANTS
  Threads,
  Slots,     \* storage for TLS objects in each thread
  Ctxs,      \* contexts (addresses SSL_CTX_new() returns)
  Null,
  Programs,  \* the programs: threads and slots in use, and a keeper
  MaxBorrowed \* bound: counts taken by calls that only use the context

ASSUME ContextAssumption ==
  /\ Null \notin Ctxs /\ Ctxs # {} /\ IsFiniteSet(Threads) /\ IsFiniteSet(Slots)
  /\ Slots # {} /\ MaxBorrowed \in Nat
  /\ Programs \subseteq [threads : SUBSET Threads, slots : SUBSET Slots,
                         keeper : BOOLEAN]

Objects == Threads \X Slots

VARIABLES
  program,        \* what runs, chosen once: keeper is whether one more object
                  \* lives as long as the threads run
  openssl_ctx_counter,
  openssl_ctxe,   \* the global pointer
  held,           \* contexts made and not yet given to SSL_CTX_free()
  object,         \* what each storage holds: "none", "socket" or "server"
  ssl,            \* the context each object's SSL handle refers to
  todo,           \* what each thread's operation has still to do
  target,         \* the object it builds or works on
  builds,         \* what target is when the operation ends
  undo,           \* an unfinished constructor has counted with "ini"
  pc,             \* where the thread is inside the first of todo
  seen,           \* what openssl_ctx() returned to it
  borrowed        \* history: counts taken by calls that only use the context

global == <<program, openssl_ctx_counter, openssl_ctxe, held, borrowed>>
operation == <<todo, target, builds, undo>>
vars == <<global, object, ssl, operation, pc, seen>>

Kept == IF program.keeper THEN 1 ELSE 0

Init ==
  /\ program \in Programs
  /\ openssl_ctx_counter = Kept /\ borrowed = 0
  /\ openssl_ctxe = IF program.keeper THEN CHOOSE c \in Ctxs : TRUE ELSE Null
  /\ held = {openssl_ctxe} \ {Null}
  /\ object = [o \in Objects |-> "none"]
  /\ ssl = [o \in Objects |-> Null]
  /\ todo = [t \in Threads |-> <<>>]
  /\ target = [t \in Threads |-> <<t, CHOOSE s \in Slots : TRUE>>]
  /\ builds = [t \in Threads |-> "none"]
  /\ undo = [t \in Threads |-> FALSE]
  /\ pc = [t \in Threads |-> "ready"]
  /\ seen = [t \in Threads |-> Null]

(* The memory of a context: SSL handles hold references of their own. *)
Live(c) == c \in held \/ \E o \in Objects : ssl[o] = c

Idle(t) == todo[t] = <<>>
-----------------------------------------------------------------------------
(* Operations begin. *)

Begin(t, steps, o, what) ==
  /\ Idle(t)
  /\ todo' = [todo EXCEPT ![t] = steps]
  /\ target' = [target EXCEPT ![t] = o]
  /\ builds' = [builds EXCEPT ![t] = what]
  /\ UNCHANGED <<global, undo, pc, seen>>

(* The bound on the operations that use the context. *)
MayBorrow == borrowed < MaxBorrowed

(* Storage of the program in which no object is. *)
Vacant(o) == object[o] = "none" /\ o \in program.threads \X program.slots

Construct(t, o, what) ==
  /\ Vacant(o)
  /\ Begin(t, <<"count">>, o, what)
  /\ UNCHANGED <<object, ssl>>

(* tls_socket(ip, port): connect() may fail before it needs the context. *)
ConstructConnected(t, o) ==
  /\ Vacant(o)
  /\ \/ MayBorrow /\ Begin(t, <<"ini", "ssl">>, o, "socket")
     \/ Begin(t, <<"ini", "uncount">>, o, "none")
  /\ UNCHANGED <<object, ssl>>

Connect(t, o) ==
  /\ object[o] = "socket" /\ ssl[o] = Null
  /\ MayBorrow /\ Begin(t, <<"ssl">>, o, "socket")
  /\ UNCHANGED <<object, ssl>>

Certificates == <<"cert", "cert", "cert">>

ConstructListening(t, o) ==
  /\ Vacant(o)
  /\ MayBorrow /\ Begin(t, <<"ini", "cert", "cert", "cert">>, o, "server")
  /\ UNCHANGED <<object, ssl>>

Listen(t, o) ==
  /\ object[o] = "server"
  /\ MayBorrow /\ Begin(t, Certificates, o, "server")
  /\ UNCHANGED <<object, ssl>>

(* accept() of a client: SSL_new, the tls_socket, the move of it into the  *)
(* optional, and the end of the moved-from temporary.                      *)
Accept(t, s, o) ==
  /\ object[s] = "server" /\ Vacant(o)
  /\ MayBorrow /\ Begin(t, <<"ssl", "count", "count", "uncount">>, o, "socket")
  /\ UNCHANGED <<object, ssl>>

(* The SSL handle moves with the object; the moved-from object remains. *)
MoveConstruct(t, o, s) ==
  /\ Vacant(o) /\ object[s] # "none"
  /\ Begin(t, <<"count">>, o, object[s])
  /\ ssl' = [ssl EXCEPT ![o] = ssl[s], ![s] = Null]
  /\ UNCHANGED object

(* Move assignment swaps; the counter is not concerned. *)
MoveAssign(t, o, s) ==
  /\ Idle(t) /\ object[o] # "none" /\ object[o] = object[s]
  /\ ssl' = [ssl EXCEPT ![o] = ssl[s], ![s] = ssl[o]]
  /\ UNCHANGED <<global, object, operation, pc, seen>>

Disconnect(t, o) ==
  /\ Idle(t) /\ ssl[o] # Null
  /\ ssl' = [ssl EXCEPT ![o] = Null]
  /\ UNCHANGED <<global, object, operation, pc, seen>>

Destroy(t, o) ==
  /\ object[o] # "none"
  /\ Begin(t, <<"uncount">>, o, "none")
  /\ ssl' = [ssl EXCEPT ![o] = Null]
  /\ object' = [object EXCEPT ![o] = "none"]
-----------------------------------------------------------------------------
(* Steps of the operation under way. *)

At(t, where, what) ==
  pc[t] = where /\ todo[t] # <<>> /\ Head(todo[t]) \in what

Counting == {"ini", "count", "ssl", "cert"}
Borrowing == {"ssl", "cert"}

Goto(t, where) == pc' = [pc EXCEPT ![t] = where]

(* The first of todo is done; the last one completes the operation. *)
Done(t) ==
  /\ Goto(t, "ready")
  /\ todo' = [todo EXCEPT ![t] = Tail(@)]
  /\ undo' = [undo EXCEPT ![t] = Len(todo[t]) > 1 /\ (@ \/ Head(todo[t]) = "ini")]
  /\ object' = IF Len(todo[t]) > 1 THEN object
               ELSE [object EXCEPT ![target[t]] = builds[t]]
  /\ UNCHANGED <<target, builds>>

(* A mutant: an exception leaves the count of the constructor in place. *)
Mut_ThrowKeepsCount(t) ==
  /\ Goto(t, "ready")
  /\ todo' = [todo EXCEPT ![t] = <<>>]
  /\ undo' = [undo EXCEPT ![t] = FALSE]
  /\ UNCHANGED <<object, target, builds>>

(* An exception: ctxssl_ini gives its count back. *)
Throw(t) ==
  /\ Goto(t, "ready")
  /\ todo' = [todo EXCEPT ![t] = IF undo[t] THEN <<"uncount">> ELSE <<>>]
  /\ builds' = [builds EXCEPT ![t] = object[target[t]]]
  /\ undo' = [undo EXCEPT ![t] = FALSE]
  /\ UNCHANGED <<object, target>>

(* openssl_ctx_counter++ *)
Count(t) ==
  /\ At(t, "ready", Counting)
  /\ openssl_ctx_counter' = openssl_ctx_counter + 1
  /\ borrowed' = IF Head(todo[t]) \in Borrowing THEN borrowed + 1 ELSE borrowed
  /\ Goto(t, IF openssl_ctx_counter = 0 THEN "make" ELSE "load")
  /\ UNCHANGED <<program, openssl_ctxe, held, object, ssl, operation, seen>>

(* openssl_ctxe = SSL_CTX_new(), which finds memory that is not in use *)
Make(t) ==
  /\ pc[t] = "make"
  /\ \/ \E c \in Ctxs : /\ ~Live(c)
                        /\ openssl_ctxe' = c
                        /\ held' = held \cup {c}
        /\ Goto(t, "load")
     \/ openssl_ctxe' = Null /\ Goto(t, "unmake") /\ UNCHANGED held
  /\ UNCHANGED <<program, openssl_ctx_counter, borrowed, object, ssl, operation, seen>>

(* A mutant: a failed allocation leaves the counter as it is. *)
Mut_FailureStaysCounted(t) ==
  /\ pc[t] = "unmake"
  /\ Throw(t)
  /\ UNCHANGED <<global, ssl, seen>>

(* --openssl_ctx_counter, and the exception *)
Unmake(t) ==
  /\ pc[t] = "unmake"
  /\ openssl_ctx_counter' = openssl_ctx_counter - 1
  /\ borrowed' = IF Head(todo[t]) \in Borrowing THEN borrowed - 1 ELSE borrowed
  /\ Throw(t)
  /\ UNCHANGED <<program, openssl_ctxe, held, ssl, seen>>

(* return openssl_ctxe; *)
Load(t) ==
  /\ pc[t] = "load"
  /\ seen' = [seen EXCEPT ![t] = openssl_ctxe]
  /\ \/ Head(todo[t]) \in Borrowing /\ Goto(t, "use") /\ UNCHANGED <<operation, object>>
     \/ Head(todo[t]) \notin Borrowing /\ Done(t)
  /\ UNCHANGED <<global, ssl>>

(* SSL_new() takes a reference; it may fail, and does without a context. *)
NewSsl(t) ==
  /\ At(t, "use", {"ssl"})
  /\ \/ /\ seen[t] # Null /\ Live(seen[t])
        /\ ssl' = [ssl EXCEPT ![target[t]] = seen[t]]
        /\ Done(t)
     \/ Throw(t) /\ UNCHANGED ssl
  /\ UNCHANGED <<global, seen>>

(* A certificate call on a live context works, or fails and throws; so     *)
(* does the listen() of the underlying socket after the last of them.      *)
UseCert(t) ==
  /\ At(t, "use", {"cert"})
  /\ seen[t] # Null /\ Live(seen[t])
  /\ Done(t) \/ Throw(t)
  /\ UNCHANGED <<global, ssl, seen>>

(* A mutant: the context is freed when one count is left. *)
Mut_UncountEarly(t) ==
  /\ At(t, "ready", {"uncount"})
  /\ openssl_ctx_counter' = openssl_ctx_counter - 1
  /\ \/ openssl_ctx_counter = 2 /\ Goto(t, "free") /\ UNCHANGED <<operation, object>>
     \/ openssl_ctx_counter # 2 /\ Done(t)
  /\ UNCHANGED <<program, openssl_ctxe, held, borrowed, ssl, seen>>

(* A mutant: the result of the decrement is not looked at. *)
Mut_FreeAlways(t) ==
  /\ At(t, "ready", {"uncount"})
  /\ openssl_ctx_counter' = openssl_ctx_counter - 1
  /\ Goto(t, "free")
  /\ UNCHANGED <<program, openssl_ctxe, held, borrowed, operation, object, ssl, seen>>

(* !--openssl_ctx_counter *)
Uncount(t) ==
  /\ At(t, "ready", {"uncount"})
  /\ openssl_ctx_counter' = openssl_ctx_counter - 1
  /\ \/ openssl_ctx_counter = 1 /\ Goto(t, "free") /\ UNCHANGED <<operation, object>>
     \/ openssl_ctx_counter # 1 /\ Done(t)
  /\ UNCHANGED <<program, openssl_ctxe, held, borrowed, ssl, seen>>

(* SSL_CTX_free(openssl_ctxe); the pointer keeps its value. *)
Free(t) ==
  /\ pc[t] = "free"
  /\ held' = held \ {openssl_ctxe}
  /\ Done(t)
  /\ UNCHANGED <<program, openssl_ctx_counter, openssl_ctxe, borrowed, ssl, seen>>

Operate(t) ==
  \E o \in {t} \X Slots :
    \/ \E k \in {"socket", "server"} : Construct(t, o, k)
    \/ ConstructConnected(t, o) \/ Connect(t, o)
    \/ ConstructListening(t, o) \/ Listen(t, o)
    \/ Disconnect(t, o) \/ Destroy(t, o)
    \/ \E s \in {t} \X Slots :
         Accept(t, s, o) \/ MoveConstruct(t, o, s) \/ MoveAssign(t, o, s)

Step(t) ==
  \/ Count(t) \/ Make(t) \/ Unmake(t) \/ Load(t)
  \/ NewSsl(t) \/ UseCert(t) \/ Uncount(t) \/ Free(t)

Next == \E t \in Threads : Operate(t) \/ Step(t)

Spec == Init /\ [][Next]_vars
-----------------------------------------------------------------------------
(* What an operation can have left to do. *)
Lists ==
  { <<>>, <<"count">>, <<"ini", "ssl">>, <<"ini", "uncount">>, <<"ssl">>,
    <<"ini", "cert", "cert", "cert">>, Certificates, <<"cert", "cert">>, <<"cert">>,
    <<"ssl", "count", "count", "uncount">>, <<"count", "count", "uncount">>,
    <<"count", "uncount">>, <<"uncount">> }

Kinds == {"none", "socket", "server"}

GlobalType ==
  /\ program \in Programs
  /\ openssl_ctx_counter \in Nat /\ borrowed \in Nat
  /\ openssl_ctxe \in Ctxs \cup {Null} /\ held \subseteq Ctxs

ObjectType ==
  /\ object \in [Objects -> Kinds] /\ ssl \in [Objects -> Ctxs \cup {Null}]

ThreadType ==
  /\ todo \in [Threads -> Lists] /\ builds \in [Threads -> Kinds]
  /\ target \in [Threads -> Objects] /\ \A t \in Threads : target[t] \in {t} \X Slots
  /\ undo \in [Threads -> BOOLEAN] /\ seen \in [Threads -> Ctxs \cup {Null}]
  /\ pc \in [Threads -> {"ready", "make", "unmake", "load", "use", "free"}]

(* Every variable stays in its range; the counter never falls below zero,  *)
(* and a thread works on objects of its own.                               *)
TypeOK == GlobalType /\ ObjectType /\ ThreadType

AliveObjects == Cardinality({o \in Objects : object[o] # "none"})

(* The counter is never below what it has to cover: the objects alive and  *)
(* the counts that calls took and nobody gives back.  When nothing is      *)
(* under way it is exactly that, so every path of every constructor,       *)
(* failing or not, gives back what it took.                                *)
Accounting ==
  /\ openssl_ctx_counter >= AliveObjects + Kept
  /\ (\A t \in Threads : Idle(t))
       => openssl_ctx_counter = AliveObjects + Kept + borrowed

(* What openssl_ctx() returns to be used is a context that exists. *)
SeenIsLive ==
  \A t \in Threads : pc[t] = "use" => seen[t] # Null /\ Live(seen[t])

(* SSL_CTX_free() is called for a context that has not been freed.         *)
FreedOnce == \A t \in Threads : pc[t] = "free" => openssl_ctxe \in held

(* While some object exists and nothing is under way, so does the context. *)
ContextOutlivesObjects ==
  (\A t \in Threads : Idle(t)) /\ AliveObjects + Kept > 0 => openssl_ctxe \in held

=============================================================================
