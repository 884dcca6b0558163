----------------------------- MODULE MCServices -----------------------------
(* Services on small instances: the sets are given by the configurations. *)
EXTENDS Services
=============================================================================
