------------------------------ MODULE Ownership ------------------------------
(***************************************************************************)
(* What unix_socket promises about operating-system descriptors: each one  *)
(* is with the kernel, with exactly one socket object, or lost.  An object *)
(* holds at most one descriptor, hands it over as a whole, and only the    *)
(* object that holds a descriptor gives it back.  A lost descriptor is     *)
(* never given back.                                                       *)
(***************************************************************************)

CONSTANTS
  Objs,      \* socket objects
  Fds,       \* descriptors of the process
  Nobody,    \* the kernel has the descriptor
  Lost       \* open, and no object can reach it any more

VARIABLE owner

Holds(o) == {f \in Fds : owner[f] = o}

Init == owner = [f \in Fds |-> Nobody]

(* An object that holds nothing receives a descriptor from the kernel. *)
Acquire(o, f) ==
  /\ owner[f] = Nobody
  /\ Holds(o) = {}
  /\ owner' = [owner EXCEPT ![f] = o]

(* The object that holds a descriptor closes it. *)
Release(o, f) ==
  /\ owner[f] = o
  /\ owner' = [owner EXCEPT ![f] = Nobody]

(* Object o takes over what object s holds; what o held before is lost. *)
Take(o, s) ==
  owner' = [f \in Fds |-> IF owner[f] = o THEN Lost
                          ELSE IF owner[f] = s THEN o ELSE owner[f]]

Next ==
  \/ \E o \in Objs, f \in Fds : Acquire(o, f) \/ Release(o, f)
  \/ \E o, s \in Objs : Take(o, s)

Spec == Init /\ [][Next]_owner
==============================================================================
