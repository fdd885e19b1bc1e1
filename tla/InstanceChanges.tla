---------------------------- MODULE InstanceChanges ----------------------------
(***************************************************************************)
(* What the durable journal of ComposeNest promises about an instance: it  *)
(* is owned by at most one operation at a time, ownership is given up only *)
(* by finishing the operation, an operation owns at most once, and an      *)
(* instance taken for removal can only end removed.                        *)
(***************************************************************************)
CONSTANTS
  Instances,
  Operations,
  Nobody       \* the owner of an instance that no operation is changing

VARIABLES
  owner,       \* the unresolved operation of each instance
  standing,    \* unregistered, managed, retiring or retired
  finished     \* the operations that have given up their instance

changesVars == <<owner, standing, finished>>

Fresh(o) == o \notin finished /\ \A i \in Instances : owner[i] # o

Init ==
  /\ owner = [i \in Instances |-> Nobody]
  /\ standing = [i \in Instances |-> "unregistered"]
  /\ finished = {}

\* A new instance comes into being owned by the operation that creates it.
Register(i, o) ==
  /\ standing[i] = "unregistered"
  /\ Fresh(o)
  /\ standing' = [standing EXCEPT ![i] = "managed"]
  /\ owner' = [owner EXCEPT ![i] = o]
  /\ UNCHANGED finished

\* next is "managed" for a change and "retiring" for a removal.
Take(i, o, next) ==
  /\ standing[i] = "managed"
  /\ owner[i] = Nobody
  /\ Fresh(o)
  /\ owner' = [owner EXCEPT ![i] = o]
  /\ standing' = [standing EXCEPT ![i] = next]
  /\ UNCHANGED finished

\* next is the standing the finished operation leaves behind.
GiveUp(i, next) ==
  /\ owner[i] # Nobody
  /\ \/ standing[i] = "managed" /\ next = "managed"
     \/ standing[i] = "retiring" /\ next = "retired"
  /\ owner' = [owner EXCEPT ![i] = Nobody]
  /\ standing' = [standing EXCEPT ![i] = next]
  /\ finished' = finished \cup {owner[i]}

Next ==
  \E i \in Instances :
    \/ \E o \in Operations :
         \/ Register(i, o)
         \/ \E next \in {"managed", "retiring"} : Take(i, o, next)
    \/ \E next \in {"managed", "retired"} : GiveUp(i, next)

Spec == Init /\ [][Next]_changesVars
===============================================================================
