------------------------------ MODULE ChangeGate ------------------------------
(***************************************************************************)
(* What the change gate of ComposeNest promises its callers: at most       *)
(* MAX_CONCURRENT_CHANGES claims at any time, at most one claim per        *)
(* instance, a claim taken ahead of acceptance is never lost to a later    *)
(* caller, and none is granted once the application is closing.  It says   *)
(* nothing of the mutex, the counters or the condition variable that       *)
(* OperationRunner uses to keep the promise.                               *)
(***************************************************************************)
EXTENDS Naturals, FiniteSets

CONSTANTS
  Callers,                 \* the tasks that ask for capacity
  Instances,               \* the instances they want to change
  MAX_CONCURRENT_CHANGES,  \* the number of simultaneous claims
  NoClaim,                 \* the caller holds nothing
  Unbound                  \* capacity held before an instance is known

VARIABLES
  claim,    \* what each caller is entitled to
  closed    \* no claim is granted any more

gateVars == <<claim, closed>>

Claimants == {c \in Callers : claim[c] # NoClaim}
Free(i) == \A c \in Callers : claim[c] # i

Init ==
  /\ claim = [c \in Callers |-> NoClaim]
  /\ closed = FALSE

\* A new claim: for a given instance, or for capacity only.
Claim(c, what) ==
  /\ ~closed
  /\ claim[c] = NoClaim
  /\ Cardinality(Claimants) < MAX_CONCURRENT_CHANGES
  /\ what \in Instances => Free(what)
  /\ claim' = [claim EXCEPT ![c] = what]
  /\ UNCHANGED closed

\* Capacity already held is spent on an instance, closing or not.
Bind(c, i) ==
  /\ claim[c] = Unbound
  /\ Free(i)
  /\ claim' = [claim EXCEPT ![c] = i]
  /\ UNCHANGED closed

Release(c) ==
  /\ claim[c] # NoClaim
  /\ claim' = [claim EXCEPT ![c] = NoClaim]
  /\ UNCHANGED closed

Close ==
  /\ closed' = TRUE
  /\ UNCHANGED claim

Next ==
  \/ \E c \in Callers :
       \/ \E what \in Instances \cup {Unbound} : Claim(c, what)
       \/ \E i \in Instances : Bind(c, i)
       \/ Release(c)
  \/ Close

Spec == Init /\ [][Next]_gateVars
===============================================================================
