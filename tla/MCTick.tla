------------------------------- MODULE MCTick -------------------------------
(* Tick on small instances: the sets are given by the configurations. *)
EXTENDS TickRefinement, TLC

\* For safety only: workers, rooms and players are interchangeable.
Symmetry == Permutations(Workers) \cup Permutations(Rooms) \cup Permutations(Users)
=============================================================================
