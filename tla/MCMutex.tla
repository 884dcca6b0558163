------------------------------- MODULE MCMutex -------------------------------
(* Mutex on small instances: the sets are given by the configurations. *)
EXTENDS Mutex
=============================================================================
