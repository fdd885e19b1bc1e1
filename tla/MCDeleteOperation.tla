--------------------------- MODULE MCDeleteOperation ---------------------------
(* DeleteOperation with the containers interchangeable. *)
EXTENDS DeleteOperation, TLC

Symmetry == Permutations(Containers) \cup Permutations(Networks)
===============================================================================
