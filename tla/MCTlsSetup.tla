----------------------------- MODULE MCTlsSetup -----------------------------
(* Model checking of what comes before data flows over TLS: TlsHandshake,  *)
(* and TlsServer with two certificates for one RSA key, one for another,   *)
(* and an EC certificate.  The two have no variable in common, and one run *)
(* takes the behaviours of both: those of either begin where the other has *)
(* done nothing.                                                           *)
EXTENDS TlsHandshake, TlsServer

MCKeyOf == [c \in Certs |->
              CASE c \in {"a", "renewed"} -> "key_a"
                [] c = "b" -> "key_b"
                [] OTHER -> "key_c"]
MCKindOf == [k \in Keys |-> IF k = "key_c" THEN "ec" ELSE "rsa"]

SetupInit == Init /\ ServerInit

SetupNext ==
  \/ ServerInit /\ Next /\ UNCHANGED server_vars
  \/ Init /\ ServerNext /\ UNCHANGED vars

(* The fairness of TlsHandshake's Spec; the servers have none. *)
SetupSpec ==
  /\ SetupInit /\ [][SetupNext]_<<vars, server_vars>>
  /\ \A s \in Sides : WF_vars(Try(s)) /\ WF_vars(Transfer(s))
  /\ WF_vars(Turn)
=============================================================================
