-------------------------- MODULE MCExternalRecovery ---------------------------
(***************************************************************************)
(* A small instance of ExternalRecovery: two recoveries, so that what one  *)
(* restored is edited and restored again, and two edits.                   *)
(***************************************************************************)
EXTENDS ExternalRecovery, TLC
Symmetric == Permutations(Operations) \cup Permutations(Edits)
================================================================================
