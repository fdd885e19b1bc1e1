-------------------------- MODULE MCOperationJournal --------------------------
(* Small instances of the journal.  Operations, requests and plans are       *)
(* interchangeable, and so are instances.                                    *)
EXTENDS OperationJournal, TLC

Symmetry ==
  Permutations(Operations) \cup Permutations(Requests)
    \cup Permutations(Plans) \cup Permutations(Instances)
===============================================================================
