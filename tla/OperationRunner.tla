---------------------------- MODULE OperationRunner ----------------------------
(***************************************************************************)
(* The change gate of crates/application/src/operation_runner.rs: a mutex  *)
(* around {closing, reservations, instances}, guards whose Drop gives the  *)
(* capacity back, and shutdown(), which closes the gate and waits on a     *)
(* condition variable until the admitted work has ended or a deadline      *)
(* passes.  Every critical section of the mutex is one action.  A call     *)
(* that is refused (ShuttingDown, InstanceBusy, CapacityReached) leaves    *)
(* the state as it was, so a refusal is a step that is not enabled; after  *)
(* a refused run_reserved the reservation is dropped, which is DropGuard.  *)
(***************************************************************************)
EXTENDS Integers, FiniteSets

CONSTANTS
  Callers,                 \* commands and detached workers using the gate
  Instances,               \* instance ids
  MAX_CONCURRENT_CHANGES,  \* operation_runner.rs:17 sets it to 2
  NoClaim,                 \* the caller holds no guard
  Unbound                  \* an OperationReservation with instance_id None

ASSUME RunnerAssumption ==
  /\ IsFiniteSet(Callers)
  /\ IsFiniteSet(Instances)
  /\ MAX_CONCURRENT_CHANGES \in Nat
  /\ NoClaim \notin Instances
  /\ Unbound \notin Instances
  /\ NoClaim # Unbound

VARIABLES
  closing,       \* Active.closing
  reservations,  \* Active.reservations
  instances,     \* Active.instances
  guard,         \* per caller: NoClaim, Unbound, or the instance its
                 \*   ActiveGuard or bound OperationReservation will remove
  shutdown,      \* the caller of shutdown(): notCalled, waiting, drained
                 \*   (returned true) or timedOut (returned false)
  notified,      \* a notify_all has not been consumed by the waiting shutdown
  expired        \* the deadline of shutdown() has passed

activeVars == <<closing, reservations, instances>>
waitVars == <<shutdown, notified, expired>>
runnerVars == <<activeVars, guard, waitVars>>

ShutdownStates == {"notCalled", "waiting", "drained", "timedOut"}

Init ==
  /\ closing = FALSE
  /\ reservations = 0
  /\ instances = {}
  /\ guard = [c \in Callers |-> NoClaim]
  /\ shutdown = "notCalled"
  /\ notified = FALSE
  /\ expired = FALSE

Full == Cardinality(instances) + reservations = MAX_CONCURRENT_CHANGES

Idle == instances = {} /\ reservations = 0

EnterWhileClosing(c, i) ==
  /\ guard[c] = NoClaim
  /\ i \notin instances
  /\ ~Full
  /\ instances' = instances \cup {i}
  /\ guard' = [guard EXCEPT ![c] = i]
  /\ UNCHANGED <<closing, reservations, waitVars>>

\* enter(): the admission of run_exclusive and run_step.
Enter(c, i) ==
  /\ guard[c] = NoClaim
  /\ ~closing
  /\ i \notin instances
  /\ ~Full
  /\ instances' = instances \cup {i}
  /\ guard' = [guard EXCEPT ![c] = i]
  /\ UNCHANGED <<closing, reservations, waitVars>>

\* reserve(): capacity taken before the operation is accepted.
Reserve(c) ==
  /\ guard[c] = NoClaim
  /\ ~closing
  /\ ~Full
  /\ reservations' = reservations + 1
  /\ guard' = [guard EXCEPT ![c] = Unbound]
  /\ UNCHANGED <<closing, instances, waitVars>>

\* run_reserved(): the reservation is spent on the accepted instance.  It
\* does not look at closing: admitted work may finish during shutdown.
RunReserved(c, i) ==
  /\ guard[c] = Unbound
  /\ i \notin instances
  /\ reservations' = reservations - 1
  /\ instances' = instances \cup {i}
  /\ guard' = [guard EXCEPT ![c] = i]
  /\ UNCHANGED <<closing, waitVars>>

GiveBack(c) ==
  IF guard[c] = Unbound
  THEN reservations' = reservations - 1 /\ UNCHANGED instances
  ELSE instances' = instances \ {guard[c]} /\ UNCHANGED reservations

DropGuardSilently(c) ==
  /\ guard[c] # NoClaim
  /\ GiveBack(c)
  /\ guard' = [guard EXCEPT ![c] = NoClaim]
  /\ UNCHANGED <<closing, waitVars>>

\* Drop of ActiveGuard and of OperationReservation: the work ended, was
\* cancelled or panicked, acceptance failed, or run_reserved was refused.
\* notify_all runs while the lock is still held.
DropGuard(c) ==
  /\ guard[c] # NoClaim
  /\ GiveBack(c)
  /\ guard' = [guard EXCEPT ![c] = NoClaim]
  /\ notified' = (notified \/ shutdown = "waiting")
  /\ UNCHANGED <<closing, shutdown, expired>>

\* shutdown(): close the gate; wait only if something was admitted.
Shutdown ==
  /\ shutdown = "notCalled"
  /\ closing' = TRUE
  /\ shutdown' = IF Idle THEN "drained" ELSE "waiting"
  /\ UNCHANGED <<reservations, instances, guard, notified, expired>>

WakeUpDeadlineFirst ==
  /\ shutdown = "waiting"
  /\ notified \/ expired
  /\ shutdown' = IF expired THEN "timedOut" ELSE IF Idle THEN "drained" ELSE "waiting"
  /\ notified' = FALSE
  /\ UNCHANGED <<activeVars, guard, expired>>

\* wait_timeout returns; the loop condition comes before the deadline test.
WakeUp ==
  /\ shutdown = "waiting"
  /\ notified \/ expired
  /\ shutdown' = IF Idle THEN "drained" ELSE IF expired THEN "timedOut" ELSE "waiting"
  /\ notified' = FALSE
  /\ UNCHANGED <<activeVars, guard, expired>>

\* The clock reaches the deadline main.rs gives (30 seconds).
Deadline ==
  /\ shutdown = "waiting"
  /\ ~expired
  /\ expired' = TRUE
  /\ UNCHANGED <<activeVars, guard, shutdown, notified>>

CallerStep(c) ==
  \/ \E i \in Instances : Enter(c, i) \/ RunReserved(c, i)
  \/ Reserve(c)
  \/ DropGuard(c)

Next ==
  \/ \E c \in Callers : CallerStep(c)
  \/ Shutdown
  \/ WakeUp
  \/ Deadline

Spec == Init /\ [][Next]_runnerVars

\* The clock advances and a woken thread is scheduled.  Nothing is assumed
\* of the work under a guard: it may take as long as Docker does.
FairSpec == Spec /\ WF_runnerVars(WakeUp) /\ WF_runnerVars(Deadline)

-------------------------------------------------------------------------------
(* Properties *)

Reserved == {c \in Callers : guard[c] = Unbound}
Holders == {c \in Callers : guard[c] # NoClaim}

TypeOK ==
  /\ closing \in BOOLEAN
  /\ reservations \in Nat
  /\ instances \in SUBSET Instances
  /\ guard \in [Callers -> Instances \cup {NoClaim, Unbound}]
  /\ shutdown \in ShutdownStates
  /\ notified \in BOOLEAN
  /\ expired \in BOOLEAN

\* The counter and the set say exactly what the live guards own: every drop
\* finds what it removes, so the counter never underflows and no instance
\* stays locked after its last guard is gone.
GuardsAccountForCapacity ==
  /\ reservations = Cardinality(Reserved)
  /\ instances = {guard[c] : c \in Holders \ Reserved}

\* Never more than the configured number of changes, counted by their
\* holders and not by the counter that is meant to bound them, although
\* run_reserved moves a claim from one counter to the other.
AtMostMaxHolders == Cardinality(Holders) <= MAX_CONCURRENT_CHANGES

\* An instance is changed by one task at a time, whichever of run_exclusive
\* and run_reserved let it in.
OneHolderPerInstance ==
  \A c, d \in Callers :
    guard[c] \in Instances /\ guard[c] = guard[d] => c = d

\* No lost wakeup: whenever the last guard is gone while shutdown() waits, a
\* notification is pending.
NoLostWakeup == shutdown = "waiting" /\ Idle => notified

\* shutdown() answers true only when nothing is running or reserved, and
\* nothing can start afterwards.
DrainedMeansQuiet == shutdown = "drained" => Holders = {}

\* All of them together, through every order of claims, drops and shutdown():
\* the counters are what the live guards own, an instance has one holder, and
\* shutdown() misses no wakeup and answers the truth.
GateIsSound ==
  /\ TypeOK
  /\ GuardsAccountForCapacity
  /\ OneHolderPerInstance
  /\ NoLostWakeup
  /\ DrainedMeansQuiet

\* Once the application is closing no task that holds nothing gets in: only
\* the guards granted before may still be bound or dropped.
ClosingAdmitsNobody ==
  [][closing => \A c \in Callers : guard[c] = NoClaim => guard'[c] = NoClaim]_runnerVars

\* The counters, the set and the guards implement the abstract gate.
Gate == INSTANCE ChangeGate WITH claim <- guard, closed <- closing
RefinesChangeGate == Gate!Spec

\* If the admitted work ends before shutdown() has given up, the answer is
\* true, even when the deadline passes before the woken thread runs.
FinishedWorkDrains == shutdown = "waiting" /\ Idle ~> shutdown = "drained"
===============================================================================
