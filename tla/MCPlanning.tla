------------------------------ MODULE MCPlanning ------------------------------
(***************************************************************************)
(* A small instance of Planning: one id for a create plan and one for a    *)
(* clone plan, two requests and three ports, of which another program may  *)
(* take one.  The source holds port 1 at first.                            *)
(***************************************************************************)
EXTENDS Planning, TLC
MCPorts == 1..3
Symmetric == Permutations(Requests) \cup Permutations(Ready)
================================================================================
