----------------------------- MODULE MCProvisioning -----------------------------
EXTENDS Provisioning, TLC

\* The code tells neither slots nor host ports apart but by their values.
Symmetry == Permutations(Ports) \cup Permutations(Slots)
===============================================================================
