------------------------- MODULE MCLifecycleOperation -------------------------
(* Small instances of the lifecycle operation; operations, requests and       *)
(* recovery commands are interchangeable.                                     *)
EXTENDS LifecycleOperation, TLC

Symmetry ==
  Permutations(Operations) \cup Permutations(Requests) \cup Permutations(Recoverers)
===============================================================================
