----------------------------- MODULE TlsServer -----------------------------
(***************************************************************************)
(* tls_socket_serv objects (src/src/tls_socket_serv.cpp) and the           *)
(* certificates they set.  listen() sets them on the context all TLS       *)
(* objects share, which keeps one certificate and one key for each kind of *)
(* key; an accepted connection takes a copy of what is set at that moment. *)
(*                                                                         *)
(* Sequential, as programs use the class; TlsContext has the threads and   *)
(* the life of the context, which stays once a listen() has counted it.    *)
(* Where the parts of OpenSSL matter they are those of OpenSSL 3.          *)
(***************************************************************************)
EXTENDS Integers

CONSTANTS
  Servers,    \* storage for tls_socket_serv objects
  Certs, Keys,\* what the files named by the paths hold
  KeyOf,      \* the key a certificate was made for
  KindOf,     \* the kind of a key: RSA, EC, ...
  None,       \* no file, no path, nothing set
  MaxListens  \* bound: calls of listen()

Kinds == {KindOf[k] : k \in Keys}

ASSUME ServerAssumption ==
  /\ KeyOf \in [Certs -> Keys]
  /\ None \notin Certs \cup Keys \cup Kinds
  /\ MaxListens \in Nat

VARIABLES
  alive,         \* the storages that hold an object
  listening,     \* m_sock.is_listening()
  m_pubkey_path, m_privkey_path,
  \* the context
  certificate,   \* of each kind
  key,           \* of each kind
  current,       \* the kind set last, which SSL_CTX_check_private_key looks at
  accepted,      \* the connection accepted last: its server, what it can show
  \* history
  calls,         \* calls of listen() made
  since,         \* the call that made each server listen
  changed,       \* the last call that changed the entry of each kind
  misgiven        \* kinds a call left with a certificate and no key

paths == <<m_pubkey_path, m_privkey_path>>
socket == <<listening, since>>
context == <<certificate, key, current>>
history == <<calls, changed, misgiven>>
server_vars == <<alive, socket, paths, context, accepted, history>>

ServerInit ==
  /\ alive = {} /\ listening = [s \in Servers |-> FALSE]
  /\ m_pubkey_path = [s \in Servers |-> None]
  /\ m_privkey_path = [s \in Servers |-> None]
  /\ certificate = [k \in Kinds |-> None] /\ key = [k \in Kinds |-> None]
  /\ current = None
  /\ accepted = [server |-> None, shows |-> {}]
  /\ calls = 0 /\ since = [s \in Servers |-> 0]
  /\ changed = [k \in Kinds |-> 0] /\ misgiven = {}
-----------------------------------------------------------------------------
(* The context.  Configurations are records of its three variables.        *)

Context == [certificate |-> certificate, key |-> key, current |-> current]

(* SSL_CTX_use_certificate_file: a key that does not fit is dropped.       *)
WithCertificate(c, cert) ==
  LET k == KindOf[KeyOf[cert]]
  IN [certificate |-> [c.certificate EXCEPT ![k] = cert],
      key |-> [c.key EXCEPT ![k] = IF @ = KeyOf[cert] THEN @ ELSE None],
      current |-> k]

(* SSL_CTX_use_PrivateKey_file refuses a key that does not fit the         *)
(* certificate of its kind; a certificate of another kind is not looked at.*)
Takes(c, k) == c.certificate[KindOf[k]] = None \/ KeyOf[c.certificate[KindOf[k]]] = k

WithKey(c, k) ==
  [certificate |-> c.certificate,
   key |-> [c.key EXCEPT ![KindOf[k]] = k],
   current |-> KindOf[k]]

(* SSL_CTX_check_private_key *)
Matches(c) ==
  /\ c.certificate[c.current] # None
  /\ c.key[c.current] = KeyOf[c.certificate[c.current]]

(* A mutant: a context that has a key is not given another. *)
Mut_KeyOnce(c, pub, priv) ==
  IF pub = None THEN [context |-> c, ok |-> FALSE]
  ELSE LET with == WithCertificate(c, pub)
       IN IF \E k \in Kinds : with.key[k] # None THEN [context |-> with, ok |-> TRUE]
          ELSE IF priv = None \/ ~Takes(with, priv) THEN [context |-> with, ok |-> FALSE]
          ELSE [context |-> WithKey(with, priv), ok |-> Matches(WithKey(with, priv))]

(* A mutant: SSL_CTX_check_private_key is not called. *)
Mut_Unchecked(c, pub, priv) ==
  IF pub = None THEN [context |-> c, ok |-> FALSE]
  ELSE LET with == WithCertificate(c, pub)
       IN IF priv = None \/ ~Takes(with, priv) THEN [context |-> with, ok |-> FALSE]
          ELSE [context |-> WithKey(with, priv), ok |-> TRUE]

(* The part of listen() before m_sock.listen(): what it makes of the       *)
(* context, which a failure does not undo, and whether it goes on.         *)
Configure(c, pub, priv) ==
  IF pub = None THEN [context |-> c, ok |-> FALSE]
  ELSE LET with == WithCertificate(c, pub)
       IN IF priv = None \/ ~Takes(with, priv) THEN [context |-> with, ok |-> FALSE]
          ELSE [context |-> WithKey(with, priv), ok |-> Matches(WithKey(with, priv))]

Configured(pub, priv) == Configure(Context, pub, priv)

Entry(c, k) == <<c.certificate[k], c.key[k]>>

SetContext(pub, priv) ==
  LET c == Configured(pub, priv).context
  IN /\ certificate' = c.certificate /\ key' = c.key /\ current' = c.current
     /\ calls < MaxListens /\ calls' = calls + 1
     /\ changed' = [k \in Kinds |->
                      IF Entry(c, k) # Entry(Context, k) THEN calls' ELSE changed[k]]
     /\ misgiven' = misgiven \cup
          (IF pub # None /\ priv # KeyOf[pub] THEN {KindOf[KeyOf[pub]]} ELSE {})
-----------------------------------------------------------------------------
(* Operations *)

(* All ok, can set the class: m_sock listens and the paths are kept. *)
Adopt(s, pub, priv) ==
  /\ listening' = [listening EXCEPT ![s] = TRUE]
  /\ since' = [since EXCEPT ![s] = calls']
  /\ m_pubkey_path' = [m_pubkey_path EXCEPT ![s] = pub]
  /\ m_privkey_path' = [m_privkey_path EXCEPT ![s] = priv]

Construct(s) ==
  /\ s \notin alive
  /\ alive' = alive \cup {s}
  /\ UNCHANGED <<socket, paths, context, accepted, history>>

(* listen() throws: the files do not do, or the socket cannot listen (it   *)
(* does already, or the port is taken).  The constructor then leaves no    *)
(* object.                                                                 *)
ListenThrows(pub, priv) ==
  /\ SetContext(pub, priv)
  /\ UNCHANGED <<alive, socket, paths, accepted>>

Listen(s, pub, priv) ==
  /\ s \in alive /\ ~listening[s]
  /\ Configured(pub, priv).ok
  /\ SetContext(pub, priv)
  /\ Adopt(s, pub, priv)
  /\ UNCHANGED <<alive, accepted>>

ConstructListening(s, pub, priv) ==
  /\ s \notin alive
  /\ Configured(pub, priv).ok
  /\ SetContext(pub, priv)
  /\ Adopt(s, pub, priv)
  /\ alive' = alive \cup {s}
  /\ UNCHANGED accepted

(* tls_socket_serv s { move(r) } *)
MoveConstruct(s, r) ==
  /\ s \notin alive /\ r \in alive
  /\ alive' = alive \cup {s}
  /\ listening' = [listening EXCEPT ![s] = listening[r], ![r] = FALSE]
  /\ since' = [since EXCEPT ![s] = since[r], ![r] = 0]
  /\ m_pubkey_path' = [m_pubkey_path EXCEPT ![s] = m_pubkey_path[r], ![r] = None]
  /\ m_privkey_path' = [m_privkey_path EXCEPT ![s] = m_privkey_path[r], ![r] = None]
  /\ UNCHANGED <<context, accepted, history>>

Swapped(f, s, r) == [f EXCEPT ![s] = f[r], ![r] = f[s]]

(* A mutant: the paths stay where they are. *)
Mut_SwapSocketsOnly(s, r) ==
  /\ {s, r} \subseteq alive /\ s # r
  /\ listening' = Swapped(listening, s, r) /\ since' = Swapped(since, s, r)
  /\ UNCHANGED <<alive, paths, context, accepted, history>>

(* s = move(r) swaps the two. *)
MoveAssign(s, r) ==
  /\ {s, r} \subseteq alive /\ s # r
  /\ listening' = Swapped(listening, s, r) /\ since' = Swapped(since, s, r)
  /\ m_pubkey_path' = Swapped(m_pubkey_path, s, r)
  /\ m_privkey_path' = Swapped(m_privkey_path, s, r)
  /\ UNCHANGED <<alive, context, accepted, history>>

Destroy(s) ==
  /\ s \in alive
  /\ alive' = alive \ {s}
  /\ listening' = [listening EXCEPT ![s] = FALSE]
  /\ since' = [since EXCEPT ![s] = 0]
  /\ m_pubkey_path' = [m_pubkey_path EXCEPT ![s] = None]
  /\ m_privkey_path' = [m_privkey_path EXCEPT ![s] = None]
  /\ UNCHANGED <<context, accepted, history>>

(* A client waits and accept() returns a connection for it: SSL_new copies *)
(* what the context has; only a certificate with its key can be shown.     *)
Accept(s) ==
  /\ listening[s]
  /\ accepted' = [server |-> s,
                  shows |-> {certificate[k] : k \in {k \in Kinds : key[k] # None}} \ {None}]
  /\ UNCHANGED <<alive, socket, paths, context, history>>

ServerNext ==
  \/ \E s \in Servers :
       \/ Construct(s) \/ Destroy(s) \/ Accept(s)
       \/ \E r \in Servers : MoveConstruct(s, r) \/ MoveAssign(s, r)
       \/ \E pub \in Certs \cup {None}, priv \in Keys \cup {None} :
            Listen(s, pub, priv) \/ ConstructListening(s, pub, priv)
  \/ \E pub \in Certs \cup {None}, priv \in Keys \cup {None} : ListenThrows(pub, priv)

ServerSpec == ServerInit /\ [][ServerNext]_server_vars
-----------------------------------------------------------------------------
Kind(s) == KindOf[KeyOf[m_pubkey_path[s]]]

Fits(s) ==
  m_pubkey_path[s] \in Certs /\ m_privkey_path[s] = KeyOf[m_pubkey_path[s]]

(* A client is shown the certificate its server names in public_key_path() *)
(* as long as no later listen(), of any server and even one that failed,   *)
(* changed what the context has of that kind of key; it may be shown       *)
(* another server's certificate only of another kind.                      *)
ClientsSeeTheirServer ==
  [][accepted' # accepted =>
       LET s == accepted'.server
       IN Fits(s) /\ changed[Kind(s)] <= since[s]
            => /\ m_pubkey_path[s] \in accepted'.shows
               /\ \A c \in accepted'.shows \ {m_pubkey_path[s]} :
                    KindOf[KeyOf[c]] # Kind(s)]_server_vars

(* A server that listens can serve, with a certificate of its kind though  *)
(* perhaps another's, unless some call gave a certificate of that kind     *)
(* without its key: a listen() that fails for its port, or replaces the    *)
(* certificate, does not end the service of the others.                    *)
GoodFilesSuffice ==
  \A s \in Servers :
    listening[s] /\ Kind(s) \notin misgiven
      => certificate[Kind(s)] # None /\ key[Kind(s)] # None

(* "Public/Private configuration mismatch.": a key that does not fit the  *)
(* certificate is refused, unless it is of another kind and an earlier     *)
(* call left its own certificate in the context: the check then looks at   *)
(* that pair.                                                              *)
MismatchNeedsLeftover ==
  [][\A s \in Servers :
       since'[s] > calls /\ ~Fits(s)'
         => \E c \in Certs : LET k == KindOf[KeyOf[c]]
                            IN /\ m_privkey_path'[s] = KeyOf[c]
                               /\ k # Kind(s)' /\ certificate[k] = c]_server_vars
=============================================================================
