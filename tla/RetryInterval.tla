--------------------------- MODULE RetryInterval ---------------------------
(***************************************************************************)
(* How long the library waits before it asks the kernel again:             *)
(* calculate_interval_retry() (src/src/socket_util.cpp), used by the send, *)
(* receive and handshake loops.  The code computes in doubles and cuts to  *)
(* milliseconds; for the constants of cfg.h that is the integer quotient.  *)
(***************************************************************************)
EXTENDS Integers

CONSTANTS
  StepMin,   \* cfg::net::wait_io_step_min
  StepMax,   \* cfg::net::wait_io_step_max
  MaxRetry   \* cfg::net::io_max_retry

ASSUME RetryAssumption ==
  /\ StepMin \in Nat \ {0} /\ StepMax \in Nat /\ StepMin <= StepMax
  /\ MaxRetry \in Nat \ {0}

Clamped(k) == IF k < MaxRetry THEN k ELSE MaxRetry

(* A mutant: the number of retries is not clamped. *)
Mut_Unclamped(k) == StepMin + ((StepMax - StepMin) * k) \div MaxRetry

calculate_interval_retry(k) ==
  StepMin + ((StepMax - StepMin) * Clamped(k)) \div MaxRetry
=============================================================================
