------------------------------ MODULE PartsProofs ------------------------------
(***************************************************************************)
(* The theorems of the parts that stand alone: the change gate, the        *)
(* database of a root, a named volume, bind storage, the fields of a clone *)
(* plan and the search for host ports.  Each has a section with its        *)
(* inductive invariant, a lemma for every action and its theorems; no      *)
(* section uses another.                                                   *)
(***************************************************************************)
EXTENDS OperationRunner, DatabaseWorker, NamedVolume, BindStorage, CloneFields,
        HostPorts, FiniteSetTheorems, FunctionTheorems, WellFoundedInduction, TLAPS

(***************************************************************************)
(* The change gate, for every number of callers, instances and             *)
(* simultaneous changes.  The inductive invariant adds to the properties   *)
(* of OperationRunner the capacity bound on the two counters and the link  *)
(* between shutdown() and closing; that the counters count the guards is   *)
(* the lemma HoldersAreCounted.                                            *)
(***************************************************************************)

Bound == Holders \ Reserved

CapacityCounted == Cardinality(instances) + reservations <= MAX_CONCURRENT_CHANGES

ClosingOnlyByShutdown == closing <=> shutdown # "notCalled"

IInv ==
  /\ TypeOK
  /\ GuardsAccountForCapacity
  /\ OneHolderPerInstance
  /\ CapacityCounted
  /\ ClosingOnlyByShutdown
  /\ NoLostWakeup
  /\ DrainedMeansQuiet

-------------------------------------------------------------------------------
(* The sets the counters stand for are finite. *)
LEMMA FiniteSets ==
  ASSUME TypeOK
  PROVE  /\ IsFiniteSet(instances)
         /\ IsFiniteSet(Holders)
         /\ IsFiniteSet(Reserved)
         /\ IsFiniteSet(Bound)
         /\ Cardinality(instances) \in Nat
         /\ Cardinality(Reserved) \in Nat
         /\ Cardinality(Holders) \in Nat
         /\ Cardinality(Bound) \in Nat
<1>1. IsFiniteSet(instances)
  BY FS_Subset, RunnerAssumption DEF TypeOK
<1>2. Holders \in SUBSET Callers /\ Reserved \in SUBSET Callers /\ Bound \in SUBSET Callers
  BY DEF Holders, Reserved, Bound
<1>3. IsFiniteSet(Holders) /\ IsFiniteSet(Reserved) /\ IsFiniteSet(Bound)
  BY <1>2, FS_Subset, RunnerAssumption
<1>4. QED
  BY <1>1, <1>3, FS_CardinalityType

(* An empty gate is exactly one without guards. *)
LEMMA IdleMeansNoHolder ==
  ASSUME TypeOK, GuardsAccountForCapacity
  PROVE  Idle <=> Holders = {}
<1>1. IsFiniteSet(Reserved)
  BY FiniteSets
<1>2. reservations = 0 <=> Reserved = {}
  BY <1>1, FS_EmptySet DEF GuardsAccountForCapacity
<1>3. instances = {} <=> Holders \ Reserved = {}
  BY DEF GuardsAccountForCapacity
<1>4. Reserved \subseteq Holders
  BY RunnerAssumption DEF Reserved, Holders
<1>5. QED
  BY <1>2, <1>3, <1>4 DEF Idle

(* The two counters together count the holders. *)
LEMMA HoldersAreCounted ==
  ASSUME TypeOK, GuardsAccountForCapacity, OneHolderPerInstance
  PROVE  Cardinality(Holders) = Cardinality(instances) + reservations
<1> DEFINE f == [c \in Bound |-> guard[c]]
<1>1. /\ IsFiniteSet(Bound) /\ IsFiniteSet(Reserved)
      /\ Cardinality(Bound) \in Nat /\ Cardinality(Reserved) \in Nat
  BY FiniteSets
<1>2. instances = {guard[c] : c \in Bound}
  BY DEF GuardsAccountForCapacity, Bound
<1>3. f \in Surjection(Bound, instances)
  BY <1>2 DEF Surjection
<1>4. \A c \in Bound : guard[c] \in Instances
  BY DEF Bound, Holders, Reserved, TypeOK
<1>5. f \in Injection(Bound, instances)
  <2>1. \A a, b \in Bound : f[a] = f[b] => a = b
    BY <1>4 DEF OneHolderPerInstance, Bound, Holders
  <2>2. QED
    BY <1>3, <2>1 DEF Injection, Surjection, IsInjective
<1>6. Cardinality(instances) = Cardinality(Bound)
  BY <1>1, <1>3, <1>5, FS_Surjection
<1>7. Holders = Bound \cup Reserved /\ Bound \cap Reserved = {}
  BY RunnerAssumption DEF Bound, Holders, Reserved
<1>8. Cardinality(Holders) = Cardinality(Bound) + Cardinality(Reserved) - Cardinality({})
  BY <1>1, <1>7, FS_Union
<1>9. QED
  BY <1>1, <1>6, <1>8, FS_EmptySet DEF GuardsAccountForCapacity

-------------------------------------------------------------------------------
(* The inductive invariant holds initially. *)
LEMMA InitIInv == Init => IInv
<1> SUFFICES ASSUME Init PROVE IInv
  OBVIOUS
<1>1. Holders = {} /\ Reserved = {}
  BY RunnerAssumption DEF Init, Holders, Reserved
<1>2. TypeOK
  BY DEF Init, TypeOK, ShutdownStates
<1>3. GuardsAccountForCapacity
  BY <1>1, FS_EmptySet DEF Init, GuardsAccountForCapacity
<1>4. OneHolderPerInstance
  BY RunnerAssumption DEF Init, OneHolderPerInstance
<1>5. CapacityCounted
  BY FS_EmptySet, RunnerAssumption DEF Init, CapacityCounted
<1>6. QED
  BY <1>1, <1>2, <1>3, <1>4, <1>5
  DEF Init, IInv, ClosingOnlyByShutdown, NoLostWakeup, DrainedMeansQuiet

(* enter() keeps the inductive invariant. *)
LEMMA EnterIInv ==
  ASSUME IInv, NEW c \in Callers, NEW i \in Instances, Enter(c, i)
  PROVE  IInv'
<1> USE DEF IInv
<1>1. /\ instances' = instances \cup {i} /\ reservations' = reservations
      /\ guard' = [guard EXCEPT ![c] = i] /\ i \notin instances
      /\ closing' = closing /\ ~closing /\ shutdown' = shutdown /\ guard[c] = NoClaim
  BY DEF Enter, waitVars
<1>2. TypeOK'
  BY <1>1 DEF TypeOK, Enter, waitVars
<1>3. Reserved' = Reserved /\ Holders' = Holders \cup {c} /\ c \notin Holders
  BY <1>1, RunnerAssumption DEF Reserved, Holders, TypeOK
<1>4. GuardsAccountForCapacity'
  <2>1. Holders' \ Reserved' = (Holders \ Reserved) \cup {c}
    BY <1>1, <1>3, RunnerAssumption DEF Reserved
  <2>2. \A d \in Holders \ Reserved : guard'[d] = guard[d]
    BY <1>1, <1>3 DEF TypeOK, Holders
  <2>3. guard'[c] = i
    BY <1>1 DEF TypeOK
  <2>4. {guard'[d] : d \in Holders' \ Reserved'} = {guard[d] : d \in Holders \ Reserved} \cup {i}
    BY <2>1, <2>2, <2>3
  <2>5. QED
    BY <1>1, <1>3, <2>4 DEF GuardsAccountForCapacity
<1>5. OneHolderPerInstance'
  <2>1. \A d \in Callers : guard[d] # i
    BY <1>1, RunnerAssumption DEF GuardsAccountForCapacity, Holders, Reserved
  <2>2. QED
    BY <1>1, <2>1 DEF OneHolderPerInstance, TypeOK
<1>6. CapacityCounted'
  <2>1. Cardinality(instances) \in Nat /\ IsFiniteSet(instances)
    BY FiniteSets
  <2>2. Cardinality(instances') = Cardinality(instances) + 1
    BY <1>1, <2>1, FS_AddElement
  <2>3. Cardinality(instances) + reservations # MAX_CONCURRENT_CHANGES
    BY DEF Enter, Full
  <2>4. QED
    BY <1>1, <2>1, <2>2, <2>3, RunnerAssumption DEF CapacityCounted, TypeOK
<1>7. QED
  BY <1>1, <1>2, <1>4, <1>5, <1>6
  DEF ClosingOnlyByShutdown, NoLostWakeup, DrainedMeansQuiet

(* reserve() keeps the inductive invariant. *)
LEMMA ReserveIInv ==
  ASSUME IInv, NEW c \in Callers, Reserve(c)
  PROVE  IInv'
<1> USE DEF IInv
<1>1. /\ instances' = instances /\ reservations' = reservations + 1
      /\ guard' = [guard EXCEPT ![c] = Unbound]
      /\ closing' = closing /\ ~closing /\ shutdown' = shutdown /\ guard[c] = NoClaim
  BY DEF Reserve, waitVars
<1>2. TypeOK'
  BY <1>1 DEF TypeOK, Reserve, waitVars
<1>3. Reserved' = Reserved \cup {c} /\ c \notin Reserved /\ Holders' = Holders \cup {c} /\ c \notin Holders
  BY <1>1, RunnerAssumption DEF Reserved, Holders, TypeOK
<1>4. GuardsAccountForCapacity'
  <2>1. IsFiniteSet(Reserved)
    BY FiniteSets
  <2>2. Cardinality(Reserved') = Cardinality(Reserved) + 1
    BY <1>3, <2>1, FS_AddElement
  <2>3. Holders' \ Reserved' = Holders \ Reserved
    BY <1>3
  <2>4. \A d \in Holders \ Reserved : guard'[d] = guard[d]
    BY <1>1, <1>3 DEF TypeOK, Holders
  <2>5. QED
    BY <1>1, <2>2, <2>3, <2>4 DEF GuardsAccountForCapacity
<1>5. OneHolderPerInstance'
  BY <1>1, RunnerAssumption DEF OneHolderPerInstance, TypeOK
<1>6. CapacityCounted'
  <2>1. Cardinality(instances) \in Nat
    BY FiniteSets
  <2>2. Cardinality(instances) + reservations # MAX_CONCURRENT_CHANGES
    BY DEF Reserve, Full
  <2>3. QED
    BY <1>1, <2>1, <2>2, RunnerAssumption DEF CapacityCounted, TypeOK
<1>7. QED
  BY <1>1, <1>2, <1>4, <1>5, <1>6
  DEF ClosingOnlyByShutdown, NoLostWakeup, DrainedMeansQuiet

(* run_reserved() keeps the inductive invariant: a claim moves from the
   counter to the set. *)
LEMMA RunReservedIInv ==
  ASSUME IInv, NEW c \in Callers, NEW i \in Instances, RunReserved(c, i)
  PROVE  IInv'
<1> USE DEF IInv
<1>1. /\ instances' = instances \cup {i} /\ reservations' = reservations - 1
      /\ guard' = [guard EXCEPT ![c] = i] /\ i \notin instances
      /\ closing' = closing /\ guard[c] = Unbound
      /\ shutdown' = shutdown /\ notified' = notified /\ expired' = expired
  BY DEF RunReserved, waitVars
<1>2. c \in Reserved /\ c \in Holders
  BY <1>1, RunnerAssumption DEF Reserved, Holders
<1>3. IsFiniteSet(Reserved) /\ Cardinality(Reserved) \in Nat
  BY FiniteSets
<1>4. Reserved' = Reserved \ {c} /\ Holders' = Holders
  BY <1>1, RunnerAssumption DEF Reserved, Holders, TypeOK
<1>5. Cardinality(Reserved') = Cardinality(Reserved) - 1 /\ reservations' = Cardinality(Reserved')
  BY <1>1, <1>2, <1>3, <1>4, FS_RemoveElement DEF GuardsAccountForCapacity
<1>6. reservations' \in Nat
  BY <1>3, <1>4, <1>5, FS_RemoveElement, FS_CardinalityType
<1>7. TypeOK'
  BY <1>1, <1>6 DEF TypeOK
<1>8. GuardsAccountForCapacity'
  <2>1. Holders' \ Reserved' = (Holders \ Reserved) \cup {c}
    BY <1>2, <1>4
  <2>2. \A d \in Holders \ Reserved : guard'[d] = guard[d]
    BY <1>1, <1>2 DEF TypeOK, Holders
  <2>3. guard'[c] = i
    BY <1>1 DEF TypeOK
  <2>4. {guard'[d] : d \in Holders' \ Reserved'} = {guard[d] : d \in Holders \ Reserved} \cup {i}
    BY <2>1, <2>2, <2>3
  <2>5. QED
    BY <1>1, <1>5, <2>4 DEF GuardsAccountForCapacity
<1>9. OneHolderPerInstance'
  <2>1. \A d \in Callers : guard[d] # i
    BY <1>1, RunnerAssumption DEF GuardsAccountForCapacity, Holders, Reserved
  <2>2. QED
    BY <1>1, <2>1 DEF OneHolderPerInstance, TypeOK
<1>10. CapacityCounted'
  <2>1. Cardinality(instances) \in Nat /\ IsFiniteSet(instances)
    BY FiniteSets
  <2>2. Cardinality(instances') = Cardinality(instances) + 1
    BY <1>1, <2>1, FS_AddElement
  <2>3. QED
    BY <1>1, <2>1, <2>2, RunnerAssumption DEF CapacityCounted, TypeOK
<1>11. NoLostWakeup' /\ DrainedMeansQuiet'
  BY <1>1, <1>2, <1>4 DEF NoLostWakeup, DrainedMeansQuiet, Idle
<1>12. QED
  BY <1>1, <1>7, <1>8, <1>9, <1>10, <1>11 DEF ClosingOnlyByShutdown

(* Dropping a guard keeps the inductive invariant: exactly what the guard
   owned is given back. *)
LEMMA DropGuardIInv ==
  ASSUME IInv, NEW c \in Callers, DropGuard(c)
  PROVE  IInv'
<1> USE DEF IInv
<1>1. /\ guard[c] # NoClaim /\ guard' = [guard EXCEPT ![c] = NoClaim]
      /\ closing' = closing /\ shutdown' = shutdown /\ expired' = expired
      /\ notified' = (notified \/ shutdown = "waiting")
  BY DEF DropGuard
<1>2. Holders' = Holders \ {c} /\ Reserved' = Reserved \ {c} /\ c \in Holders
  BY <1>1, RunnerAssumption DEF Reserved, Holders, TypeOK
<1>3. IsFiniteSet(Reserved) /\ Cardinality(Reserved) \in Nat
      /\ IsFiniteSet(instances) /\ Cardinality(instances) \in Nat
  BY FiniteSets
<1>4. \A d \in Callers \ {c} : guard'[d] = guard[d]
  BY <1>1 DEF TypeOK
<1>5. /\ reservations' \in Nat /\ instances' \in SUBSET Instances
      /\ GuardsAccountForCapacity' /\ CapacityCounted'
  <2>1. CASE guard[c] = Unbound
    <3>1. reservations' = reservations - 1 /\ instances' = instances
      BY <2>1 DEF DropGuard, GiveBack
    <3>2. c \in Reserved
      BY <2>1 DEF Reserved
    <3>3. Cardinality(Reserved') = Cardinality(Reserved) - 1 /\ Cardinality(Reserved') \in Nat
      BY <1>2, <1>3, <3>2, FS_RemoveElement, FS_CardinalityType
    <3>4. Holders' \ Reserved' = Holders \ Reserved
      BY <1>2, <3>2
    <3>5. {guard'[d] : d \in Holders' \ Reserved'} = {guard[d] : d \in Holders \ Reserved}
      BY <1>4, <3>4, <3>2 DEF Holders
    <3>6. GuardsAccountForCapacity' /\ instances' \in SUBSET Instances
      BY <3>1, <3>3, <3>5 DEF GuardsAccountForCapacity, TypeOK
    <3>7. reservations' \in Nat /\ CapacityCounted'
      BY <1>3, <3>1, <3>3, RunnerAssumption DEF GuardsAccountForCapacity, CapacityCounted, TypeOK
    <3>8. QED
      BY <3>6, <3>7
  <2>2. CASE guard[c] # Unbound
    <3>1. instances' = instances \ {guard[c]} /\ reservations' = reservations
      BY <2>2 DEF DropGuard, GiveBack
    <3>2. c \notin Reserved /\ guard[c] \in Instances
      BY <1>1, <2>2 DEF Reserved, TypeOK
    <3>3. Reserved' = Reserved
      BY <1>2, <3>2
    <3>4. \A d \in Holders \ Reserved : guard[d] = guard[c] => d = c
      BY <3>2 DEF OneHolderPerInstance, Holders
    <3>5. {guard'[d] : d \in Holders' \ Reserved'} = {guard[d] : d \in Holders \ Reserved} \ {guard[c]}
      BY <1>2, <1>4, <3>3, <3>4 DEF Holders
    <3>6. Cardinality(instances') <= Cardinality(instances) /\ Cardinality(instances') \in Nat
      BY <1>3, <3>1, FS_Difference, FS_Subset, FS_CardinalityType
    <3>7. QED
      BY <1>3, <3>1, <3>3, <3>5, <3>6, RunnerAssumption DEF GuardsAccountForCapacity, CapacityCounted, TypeOK
  <2>3. QED
    BY <2>1, <2>2
<1>6. TypeOK'
  BY <1>1, <1>5 DEF TypeOK
<1>7. OneHolderPerInstance'
  BY <1>1, <1>4, RunnerAssumption DEF OneHolderPerInstance, TypeOK
<1>8. NoLostWakeup' /\ DrainedMeansQuiet'
  BY <1>1, <1>2 DEF NoLostWakeup, DrainedMeansQuiet
<1>9. QED
  BY <1>1, <1>5, <1>6, <1>7, <1>8 DEF ClosingOnlyByShutdown

(* The steps of shutdown() and of its clock keep the inductive invariant. *)
LEMMA ShutdownIInv ==
  ASSUME IInv, Shutdown \/ WakeUp \/ Deadline
  PROVE  IInv'
<1> USE DEF IInv
<1>1. instances' = instances /\ reservations' = reservations /\ guard' = guard
  BY DEF Shutdown, WakeUp, Deadline, activeVars
<1>2. /\ GuardsAccountForCapacity' /\ OneHolderPerInstance' /\ CapacityCounted'
      /\ Holders' = Holders /\ Idle' = Idle
  BY <1>1 DEF GuardsAccountForCapacity, OneHolderPerInstance, CapacityCounted, Holders, Reserved, Idle
<1>3. Idle <=> Holders = {}
  BY IdleMeansNoHolder
<1>4. CASE Shutdown
  BY <1>1, <1>2, <1>3, <1>4
  DEF Shutdown, TypeOK, ShutdownStates, ClosingOnlyByShutdown, NoLostWakeup, DrainedMeansQuiet
<1>5. CASE WakeUp
  BY <1>1, <1>2, <1>3, <1>5
  DEF WakeUp, activeVars, TypeOK, ShutdownStates, ClosingOnlyByShutdown, NoLostWakeup, DrainedMeansQuiet
<1>6. CASE Deadline
  BY <1>1, <1>2, <1>6
  DEF Deadline, activeVars, TypeOK, ShutdownStates, ClosingOnlyByShutdown, NoLostWakeup, DrainedMeansQuiet
<1>7. QED
  BY <1>4, <1>5, <1>6

(* Every step of the gate keeps the inductive invariant. *)
LEMMA NextIInv == IInv /\ [Next]_runnerVars => IInv'
<1> SUFFICES ASSUME IInv, [Next]_runnerVars PROVE IInv'
  OBVIOUS
<1>1. CASE Next
  <2>1. ASSUME NEW c \in Callers, CallerStep(c) PROVE IInv'
    BY <2>1, EnterIInv, ReserveIInv, RunReservedIInv, DropGuardIInv DEF CallerStep
  <2>2. QED
    BY <1>1, <2>1, ShutdownIInv DEF Next
<1>2. CASE UNCHANGED runnerVars
  BY <1>2
  DEF runnerVars, activeVars, waitVars, IInv, TypeOK, GuardsAccountForCapacity, OneHolderPerInstance,
      CapacityCounted, ClosingOnlyByShutdown, NoLostWakeup, DrainedMeansQuiet, Holders, Reserved, Idle
<1>3. QED
  BY <1>1, <1>2

(* The inductive invariant holds in every reachable state. *)
THEOREM Invariance == Spec => []IInv
BY InitIInv, NextIInv, PTL DEF Spec

-------------------------------------------------------------------------------
(* Every variable of the gate keeps its type; the reservation counter never
   underflows. *)
THEOREM TypeCorrect == Spec => []TypeOK
<1>1. IInv => TypeOK
  BY DEF IInv
<1>2. QED
  BY <1>1, Invariance, PTL

(* The counters are exactly what the live guards own. *)
THEOREM GuardsAccount == Spec => []GuardsAccountForCapacity
<1>1. IInv => GuardsAccountForCapacity
  BY DEF IInv
<1>2. QED
  BY <1>1, Invariance, PTL

(* Never more holders than the configured capacity. *)
THEOREM Capacity == Spec => []AtMostMaxHolders
<1>1. IInv => AtMostMaxHolders
  BY HoldersAreCounted DEF IInv, CapacityCounted, AtMostMaxHolders
<1>2. QED
  BY <1>1, Invariance, PTL

(* One task changes an instance at a time. *)
THEOREM Exclusion == Spec => []OneHolderPerInstance
<1>1. IInv => OneHolderPerInstance
  BY DEF IInv
<1>2. QED
  BY <1>1, Invariance, PTL

(* shutdown() misses no notification, and answers true only over a gate that
   is empty. *)
THEOREM ShutdownIsSound == Spec => [](NoLostWakeup /\ DrainedMeansQuiet)
<1>1. IInv => NoLostWakeup /\ DrainedMeansQuiet
  BY DEF IInv
<1>2. QED
  BY <1>1, Invariance, PTL

(* Everything at once, as the run of the gate checks it on a small instance. *)
THEOREM Soundness == Spec => []GateIsSound
<1>1. IInv => GateIsSound
  BY DEF IInv, GateIsSound
<1>2. QED
  BY <1>1, Invariance, PTL

(* A closing gate admits no new task. *)
THEOREM ClosedGate == Spec => ClosingAdmitsNobody
<1>1. IInv /\ [Next]_runnerVars
        => [closing => \A c \in Callers : guard[c] = NoClaim => guard'[c] = NoClaim]_runnerVars
  <2> SUFFICES ASSUME IInv, Next, closing, NEW c \in Callers, guard[c] = NoClaim
               PROVE guard'[c] = NoClaim
    OBVIOUS
  <2>1. ASSUME NEW d \in Callers, CallerStep(d) PROVE guard'[c] = NoClaim
    <3>1. CASE DropGuard(d)
      BY <3>1 DEF DropGuard, IInv, TypeOK
    <3>2. CASE \E i \in Instances : RunReserved(d, i)
      BY <3>2, RunnerAssumption DEF RunReserved, IInv, TypeOK
    <3>3. QED
      BY <2>1, <3>1, <3>2 DEF CallerStep, Enter, Reserve
  <2>2. QED
    BY <2>1 DEF Next, Shutdown, WakeUp, Deadline
<1>2. QED
  BY <1>1, Invariance, PTL DEF Spec, ClosingAdmitsNobody

(* The counting gate implements the abstract gate, where a claim is granted
   by counting the claimants. *)
THEOREM Refinement == Spec => RefinesChangeGate
<1>1. Init => Gate!Init
  BY DEF Init, Gate!Init
<1>2. IInv /\ [Next]_runnerVars => [Gate!Next]_(Gate!gateVars)
  <2> SUFFICES ASSUME IInv, Next PROVE Gate!Next \/ UNCHANGED <<guard, closing>>
    BY DEF Gate!gateVars, runnerVars, activeVars
  <2>1. /\ Gate!Claimants = Holders
        /\ Cardinality(Holders) = Cardinality(instances) + reservations
        /\ Cardinality(instances) \in Nat /\ reservations \in Nat
        /\ Cardinality(instances) + reservations <= MAX_CONCURRENT_CHANGES
    BY HoldersAreCounted, FiniteSets DEF IInv, Gate!Claimants, Holders, CapacityCounted, TypeOK
  <2>2. \A i \in Instances \ instances : Gate!Free(i)
    BY RunnerAssumption DEF IInv, GuardsAccountForCapacity, Holders, Reserved, Gate!Free
  <2> DEFINE count == Gate!Cardinality(Gate!Claimants)
  <2>0. count = Cardinality(Holders)
    BY <2>1 DEF Gate!Cardinality, Cardinality
  <2>3. ASSUME NEW c \in Callers, NEW i \in Instances, Enter(c, i) PROVE Gate!Claim(c, i)
    BY <2>0, <2>1, <2>2, <2>3, RunnerAssumption DEF Enter, Full, Gate!Claim
  <2>4. ASSUME NEW c \in Callers, Reserve(c) PROVE Gate!Claim(c, Unbound)
    BY <2>0, <2>1, <2>4, RunnerAssumption DEF Reserve, Full, Gate!Claim
  <2>5. ASSUME NEW c \in Callers, NEW i \in Instances, RunReserved(c, i) PROVE Gate!Bind(c, i)
    BY <2>2, <2>5 DEF RunReserved, Gate!Bind
  <2>6. ASSUME NEW c \in Callers, DropGuard(c) PROVE Gate!Release(c)
    BY <2>6 DEF DropGuard, Gate!Release
  <2>7. ASSUME Shutdown PROVE Gate!Close
    BY <2>7 DEF Shutdown, Gate!Close
  <2>8. ASSUME WakeUp \/ Deadline PROVE UNCHANGED <<guard, closing>>
    BY <2>8 DEF WakeUp, Deadline, activeVars
  <2>9. ASSUME NEW c \in Callers, CallerStep(c) PROVE Gate!Next
    BY <2>3, <2>4, <2>5, <2>6, <2>9 DEF CallerStep, Gate!Next
  <2>10. QED
    BY <2>7, <2>8, <2>9 DEF Next, Gate!Next
<1>3. QED
  BY <1>1, <1>2, Invariance, PTL DEF Spec, Gate!Spec, RefinesChangeGate

-------------------------------------------------------------------------------
(***************************************************************************)
(* The database worker.  The invariant says that a job is in one place,    *)
(* that its caller waits exactly while it is there, and that the backup of *)
(* a file that is about to be migrated is whole.                           *)
(***************************************************************************)

AtJob == {"running", "committed", "rolled back"}
Serving == {"ready"} \cup AtJob
Threads == [at : Working \cup {"none", "ended", "stopped"}, job : Writers \cup {"none"}, existed : BOOLEAN]

DatabaseTypesOK ==
  /\ file \in [exists : BOOLEAN, schema : Nat, rows : SUBSET (Writers \cup {"old"})]
  /\ lock \in Processes \cup {"nobody"}
  /\ thread \in [Processes -> Threads]
  /\ queue \in [Processes -> Seq(Writers)]
  /\ reply \in [Writers -> {"none", "waiting", "stopped", "ok", "failed", "lost"}]

\* Whoever prepares or writes the file holds its lock.
LockOK == \A p \in Processes : thread[p].at \in Working => lock = p

Queued(w, s) == \E n \in DOMAIN s : s[n] = w
InHand(w, p) == thread[p].job = w \/ Queued(w, queue[p])

\* A job is in hand in one place, once, and it is its caller's who waits.
JobsOK ==
  /\ \A p \in Processes :
       /\ thread[p].at \notin Serving => queue[p] = <<>>
       /\ thread[p].job = "none" <=> thread[p].at \notin AtJob
       /\ \A m, n \in DOMAIN queue[p] : queue[p][m] = queue[p][n] => m = n
       /\ ~Queued(thread[p].job, queue[p])
  /\ \A p \in Processes, w \in Writers : InHand(w, p) => Home[w] = p /\ reply[w] = "waiting"

\* What the rows say of a job.
RowsOK ==
  /\ seen \subseteq file.rows
  /\ \A w \in Writers :
       /\ reply[w] = "waiting" => InHand(w, Home[w])
       /\ reply[w] = "ok" => w \in file.rows
       /\ reply[w] \in {"none", "failed"} => w \notin file.rows
       /\ \A p \in Processes : Queued(w, queue[p]) => w \notin file.rows
       /\ \A p \in Processes : thread[p].job = w =>
            (w \in file.rows <=> thread[p].at = "committed")

Backup == [whole |-> TRUE, schema |-> file.schema, rows |-> file.rows]
BackupsOK ==
  /\ UpgradesAreBackedUp
  /\ \A p \in Processes : thread[p].at = "migrating" /\ thread[p].existed => Backup \in backups

DInv == DatabaseTypesOK /\ LockOK /\ JobsOK /\ RowsOK /\ BackupsOK

-------------------------------------------------------------------------------
(* What is queued after an append, and after the head is taken. *)
LEMMA QueuedAppend ==
  ASSUME NEW s \in Seq(Writers), NEW e \in Writers
  PROVE  /\ Append(s, e) \in Seq(Writers)
         /\ \A w : Queued(w, Append(s, e)) <=> w = e \/ Queued(w, s)
         /\ (\A m, n \in DOMAIN s : s[m] = s[n] => m = n) /\ ~Queued(e, s) =>
              \A m, n \in DOMAIN Append(s, e) : Append(s, e)[m] = Append(s, e)[n] => m = n
<1> DEFINE t == Append(s, e)
<1>1. t \in Seq(Writers) /\ Len(t) = Len(s) + 1 /\ Len(s) \in Nat
  OBVIOUS
<1>2. DOMAIN s = 1..Len(s) /\ DOMAIN t = 1..(Len(s) + 1)
  BY <1>1
<1>3. t[Len(s) + 1] = e /\ \A n \in DOMAIN s : t[n] = s[n]
  BY <1>1, <1>2
<1>4. ASSUME NEW w PROVE Queued(w, t) <=> w = e \/ Queued(w, s)
  BY <1>1, <1>2, <1>3 DEF Queued
<1>5. ASSUME \A m, n \in DOMAIN s : s[m] = s[n] => m = n, ~Queued(e, s)
      PROVE  \A m, n \in DOMAIN t : t[m] = t[n] => m = n
  BY <1>1, <1>2, <1>3, <1>5 DEF Queued
<1>6. QED
  BY <1>1, <1>4, <1>5

LEMMA QueuedTail ==
  ASSUME NEW s \in Seq(Writers), s # <<>>
  PROVE  /\ Head(s) \in Writers
         /\ Tail(s) \in Seq(Writers)
         /\ \A w : Queued(w, s) <=> w = Head(s) \/ Queued(w, Tail(s))
         /\ (\A m, n \in DOMAIN s : s[m] = s[n] => m = n) =>
              /\ ~Queued(Head(s), Tail(s))
              /\ \A m, n \in DOMAIN Tail(s) : Tail(s)[m] = Tail(s)[n] => m = n
<1> DEFINE t == Tail(s)
<1>1. t \in Seq(Writers) /\ Len(s) \in Nat \ {0} /\ Len(t) = Len(s) - 1 /\ Head(s) = s[1] /\ Head(s) \in Writers
  OBVIOUS
<1>2. DOMAIN s = 1..Len(s) /\ DOMAIN t = 1..(Len(s) - 1)
  BY <1>1
<1>3. \A n \in DOMAIN t : t[n] = s[n + 1]
  BY <1>1, <1>2
<1>4. ASSUME NEW w PROVE Queued(w, s) <=> w = Head(s) \/ Queued(w, t)
  <2>1. ASSUME Queued(w, s) PROVE w = Head(s) \/ Queued(w, t)
    <3>1. PICK n \in DOMAIN s : s[n] = w
      BY <2>1 DEF Queued
    <3>2. CASE n = 1
      BY <3>1, <3>2, <1>1
    <3>3. CASE n # 1
      <4>1. n - 1 \in DOMAIN t /\ (n - 1) + 1 = n
        BY <3>3, <1>1, <1>2
      <4>2. t[n - 1] = w
        BY <4>1, <1>3, <3>1
      <4>3. QED
        BY <4>1, <4>2 DEF Queued
    <3>4. QED
      BY <3>2, <3>3
  <2>2. ASSUME w = Head(s) \/ Queued(w, t) PROVE Queued(w, s)
    BY <2>2, <1>1, <1>2, <1>3 DEF Queued
  <2>3. QED
    BY <2>1, <2>2
<1>5. ASSUME \A m, n \in DOMAIN s : s[m] = s[n] => m = n
      PROVE  /\ ~Queued(Head(s), t)
             /\ \A m, n \in DOMAIN t : t[m] = t[n] => m = n
  <2>1. \A n \in DOMAIN t : n + 1 \in DOMAIN s /\ n + 1 # 1 /\ n \in Int
    BY <1>1, <1>2
  <2>2. ~Queued(Head(s), t)
    BY <2>1, <1>1, <1>2, <1>3, <1>5 DEF Queued
  <2>3. ASSUME NEW m \in DOMAIN t, NEW n \in DOMAIN t, t[m] = t[n] PROVE m = n
    <3>1. s[m + 1] = s[n + 1]
      BY <2>3, <1>3
    <3>2. m + 1 = n + 1
      BY <3>1, <2>1, <1>5
    <3>3. QED
      BY <3>2, <2>1
  <2>4. QED
    BY <2>2, <2>3
<1>6. QED
  BY <1>1, <1>4, <1>5

-------------------------------------------------------------------------------
(* How a step changes the threads. *)
LEMMA StepThread ==
  ASSUME DatabaseTypesOK, NEW p \in Processes,
         NEW at \in Working \cup {"none", "ended", "stopped"}, Step(p, at)
  PROVE  /\ thread' \in [Processes -> Threads]
         /\ thread'[p].at = at
         /\ \A q \in Processes : q # p => thread'[q] = thread[q]
         /\ \A q \in Processes :
              thread'[q].job = thread[q].job /\ thread'[q].existed = thread[q].existed
<1>1. PICK t : t = [thread[p] EXCEPT !.at = at]
  OBVIOUS
<1>2. thread[p] \in Threads
  BY DEF DatabaseTypesOK
<1>3. t \in Threads /\ t.at = at /\ t.job = thread[p].job /\ t.existed = thread[p].existed
  BY <1>1, <1>2 DEF Threads
<1>4. thread' = [thread EXCEPT ![p] = t]
  BY <1>1 DEF Step
<1>5. QED
  BY <1>3, <1>4 DEF DatabaseTypesOK

LEMMA NewThread ==
  ASSUME DatabaseTypesOK, NEW p \in Processes, NEW t \in Threads,
         thread' = [thread EXCEPT ![p] = t]
  PROVE  /\ thread' \in [Processes -> Threads]
         /\ thread'[p] = t
         /\ \A q \in Processes : q # p => thread'[q] = thread[q]
BY DEF DatabaseTypesOK

LEMMA AtThread ==
  ASSUME NEW at \in Working \cup {"none", "ended", "stopped"}
  PROVE  At(at) \in Threads /\ At(at).at = at /\ At(at).job = "none" /\ ~At(at).existed
BY DEF At, Threads

(* The steps that leave every job where it is. *)
JobsStay ==
  /\ queue' = queue /\ reply' = reply /\ seen' = seen /\ file'.rows = file.rows
  /\ \A q \in Processes :
       /\ thread'[q].job = thread[q].job
       /\ thread'[q].at \in AtJob <=> thread[q].at \in AtJob
       /\ thread'[q].at = "committed" <=> thread[q].at = "committed"
       /\ thread'[q].at \notin Serving => thread[q].at \notin Serving

LEMMA JobsUndisturbed ==
  ASSUME DatabaseConstants, DInv, JobsStay
  PROVE  JobsOK' /\ RowsOK'
<1>1. \A w \in Writers, q \in Processes : InHand(w, q)' <=> InHand(w, q)
  BY DEF JobsStay, InHand, Queued
<1>2. JobsOK'
  BY <1>1 DEF DInv, JobsOK, JobsStay, Queued
<1>3. \A w \in Writers : Home[w] \in Processes
  BY DEF DatabaseConstants
<1>4. RowsOK'
  BY <1>1, <1>3 DEF DInv, RowsOK, JobsStay, Queued
<1>5. QED
  BY <1>2, <1>4

(* The steps that leave the backups and what they must hold as they are. *)
BackupsStay ==
  /\ file'.schema = file.schema /\ file'.rows = file.rows
  /\ backups' = backups /\ replaced' = replaced
  /\ \A q \in Processes :
       thread'[q].at = "migrating" /\ thread'[q].existed =>
         thread[q].at = "migrating" /\ thread[q].existed

LEMMA BackupsUndisturbed ==
  ASSUME DInv, BackupsStay
  PROVE  BackupsOK'
<1>1. UpgradesAreBackedUp'
  BY DEF DInv, BackupsOK, BackupsStay, UpgradesAreBackedUp
<1>2. Backup' = Backup
  BY DEF BackupsStay, Backup
<1>3. QED
  BY <1>1, <1>2 DEF DInv, BackupsOK, BackupsStay

(* A thread that ends gives the lock back and leaves its jobs to nobody, for *)
(* none was taken.                                                          *)
LEMMA EndsThread ==
  ASSUME DInv, NEW p \in Processes, Ends(p)
  PROVE  /\ thread' \in [Processes -> Threads]
         /\ thread'[p].at = "ended" /\ thread'[p].job = "none" /\ ~thread'[p].existed
         /\ \A q \in Processes : q # p => thread'[q] = thread[q]
         /\ lock' \in Processes \cup {"nobody"}
         /\ LockOK'
<1>1. At("ended") \in Threads /\ At("ended").at = "ended" /\ At("ended").job = "none" /\ ~At("ended").existed
  BY AtThread
<1>2. /\ thread' \in [Processes -> Threads] /\ thread'[p] = At("ended")
      /\ \A q \in Processes : q # p => thread'[q] = thread[q]
  BY <1>1, NewThread DEF Ends, DInv
<1>3. lock' = IF lock = p THEN "nobody" ELSE lock
  BY DEF Ends
<1>4. LockOK'
  BY <1>1, <1>2, <1>3 DEF DInv, LockOK, Working
<1>5. QED
  BY <1>1, <1>2, <1>3, <1>4 DEF DInv, DatabaseTypesOK

LEMMA JobFacts ==
  ASSUME DInv, NEW p \in Processes
  PROVE  /\ thread[p].at \notin Serving => queue[p] = <<>>
         /\ thread[p].job = "none" <=> thread[p].at \notin AtJob
         /\ \A m, n \in DOMAIN queue[p] : queue[p][m] = queue[p][n] => m = n
         /\ ~Queued(thread[p].job, queue[p])
         /\ \A w \in Writers : InHand(w, p) => Home[w] = p /\ reply[w] = "waiting"
BY DEF DInv, JobsOK

LEMMA StartKeeps ==
  ASSUME DatabaseConstants, DInv, NEW p \in Processes, Start(p)
  PROVE  DInv'
<1> USE DEF Start, Quiet
<1>1. thread[p].at = "none" /\ thread[p].job = "none" /\ queue[p] = <<>>
  BY DEF DInv, JobsOK, AtJob, Serving
<1>2. CASE lock = "nobody" /\ lock' = p
           /\ thread' = [thread EXCEPT ![p] = [At("opened") EXCEPT !.existed = file.exists]]
           /\ file' = [file EXCEPT !.exists = TRUE]
  <2>1. PICK t : t = [At("opened") EXCEPT !.existed = file.exists]
    OBVIOUS
  <2>2. file.exists \in BOOLEAN
    BY DEF DInv, DatabaseTypesOK
  <2>3. t \in Threads /\ t.at = "opened" /\ t.job = "none"
    BY <2>1, <2>2 DEF At, Threads, Working
  <2>4. thread' = [thread EXCEPT ![p] = t]
    BY <1>2, <2>1
  <2>5. /\ thread' \in [Processes -> Threads] /\ thread'[p] = t
        /\ \A q \in Processes : q # p => thread'[q] = thread[q]
    BY <2>3, <2>4, NewThread DEF DInv
  <2>6. /\ file' \in [exists : BOOLEAN, schema : Nat, rows : SUBSET (Writers \cup {"old"})]
        /\ file'.schema = file.schema /\ file'.rows = file.rows
    BY <1>2 DEF DInv, DatabaseTypesOK
  <2>7. DatabaseTypesOK'
    BY <1>2, <2>5, <2>6 DEF DInv, DatabaseTypesOK
  <2>8. LockOK'
    BY <1>2, <2>3, <2>5 DEF DInv, LockOK, DatabaseConstants
  <2>9. JobsStay
    BY <1>1, <2>3, <2>5, <2>6 DEF JobsStay, AtJob, Serving
  <2>10. BackupsStay
    BY <2>3, <2>5, <2>6 DEF BackupsStay
  <2>11. QED
    BY <2>7, <2>8, <2>9, <2>10, JobsUndisturbed, BackupsUndisturbed DEF DInv
<1>3. CASE thread' = [thread EXCEPT ![p] = At("ended")] /\ UNCHANGED <<file, lock>>
  <2>1. At("ended") \in Threads /\ At("ended").at = "ended" /\ At("ended").job = "none" /\ ~At("ended").existed
    BY AtThread
  <2>2. /\ thread' \in [Processes -> Threads] /\ thread'[p] = At("ended")
        /\ \A q \in Processes : q # p => thread'[q] = thread[q]
    BY <1>3, <2>1, NewThread DEF DInv
  <2>3. DatabaseTypesOK'
    BY <1>3, <2>2 DEF DInv, DatabaseTypesOK
  <2>4. LockOK'
    BY <1>3, <2>1, <2>2 DEF DInv, LockOK, Working
  <2>5. JobsStay
    BY <1>1, <1>3, <2>1, <2>2 DEF JobsStay, AtJob, Serving
  <2>6. BackupsStay
    BY <1>3, <2>1, <2>2 DEF BackupsStay
  <2>7. QED
    BY <2>3, <2>4, <2>5, <2>6, JobsUndisturbed, BackupsUndisturbed DEF DInv
<1>4. QED
  BY <1>2, <1>3 DEF LockIsFree

(* A start that ends, with the file as it was. *)
LEMMA EndsKeeps ==
  ASSUME DatabaseConstants, DInv, NEW p \in Processes, Ends(p), thread[p].at \notin Serving,
         UNCHANGED <<file, queue, reply, seen, replaced>>,
         backups' = backups \/ backups' = backups \ {NewBackup}
  PROVE  DInv'
<1>1. thread[p].job = "none"
  BY DEF DInv, JobsOK, AtJob, Serving
<1>2. /\ thread' \in [Processes -> Threads]
      /\ thread'[p].at = "ended" /\ thread'[p].job = "none" /\ ~thread'[p].existed
      /\ \A q \in Processes : q # p => thread'[q] = thread[q]
      /\ lock' \in Processes \cup {"nobody"}
      /\ LockOK'
  BY EndsThread
<1>3. DatabaseTypesOK'
  BY <1>2 DEF DInv, DatabaseTypesOK
<1>4. JobsStay
  BY <1>1, <1>2 DEF JobsStay, AtJob, Serving
<1>5. \A old \in backups : old.whole = TRUE => old \in backups'
  BY DEF NewBackup
<1>6. UpgradesAreBackedUp'
  BY <1>5 DEF DInv, BackupsOK, UpgradesAreBackedUp
<1>7. Backup' = Backup /\ Backup.whole = TRUE
  BY DEF Backup
<1>8. BackupsOK'
  BY <1>2, <1>5, <1>6, <1>7 DEF DInv, BackupsOK
<1>9. QED
  BY <1>2, <1>3, <1>4, <1>8, JobsUndisturbed DEF DInv

(* A step of a start that moves on, with the file as it was. *)
LEMMA MovesOn ==
  ASSUME DatabaseConstants, DInv, NEW p \in Processes,
         NEW at \in {"copying", "migrating", "ready"}, Step(p, at),
         thread[p].at \in Working \ Serving,
         UNCHANGED <<file, lock, queue, reply, seen>>
  PROVE  DatabaseTypesOK' /\ LockOK' /\ JobsOK' /\ RowsOK'
<1>1. at \in Working /\ at \notin AtJob
  BY DEF Working, AtJob
<1>2. /\ thread' \in [Processes -> Threads]
      /\ thread'[p].at = at
      /\ \A q \in Processes : q # p => thread'[q] = thread[q]
      /\ \A q \in Processes :
           thread'[q].job = thread[q].job /\ thread'[q].existed = thread[q].existed
  BY <1>1, StepThread DEF DInv
<1>3. DatabaseTypesOK'
  BY <1>2 DEF DInv, DatabaseTypesOK
<1>4. LockOK'
  BY <1>2 DEF DInv, LockOK
<1>5. JobsStay
  BY <1>1, <1>2 DEF JobsStay, AtJob, Serving
<1>6. QED
  BY <1>3, <1>4, <1>5, JobsUndisturbed

LEMMA OpenKeeps ==
  ASSUME DatabaseConstants, DInv, NEW p \in Processes, Open(p)
  PROVE  DInv'
<1>1. thread[p].at \in Working \ Serving
  BY DEF Open, Working, Serving, AtJob
<1>2. CASE Step(p, "ready") /\ UNCHANGED lock
  <2>1. UNCHANGED <<file, lock, queue, reply, seen, backups, replaced>>
    BY <1>2 DEF Open, Quiet
  <2>2. DatabaseTypesOK' /\ LockOK' /\ JobsOK' /\ RowsOK'
    BY <1>1, <1>2, <2>1, MovesOn
  <2>3. BackupsStay
    <3>1. "ready" \in Working
      BY DEF Working
    <3>2. /\ thread'[p].at = "ready"
          /\ \A q \in Processes : q # p => thread'[q] = thread[q]
      BY <1>2, <3>1, StepThread DEF DInv
    <3>3. QED
      BY <2>1, <3>2 DEF BackupsStay
  <2>4. QED
    BY <2>2, <2>3, BackupsUndisturbed DEF DInv
<1>3. CASE Ends(p)
  BY <1>1, <1>3, EndsKeeps DEF Open, Quiet
<1>4. QED
  BY <1>2, <1>3 DEF Open

LEMMA StartBackupKeeps ==
  ASSUME DatabaseConstants, DInv, NEW p \in Processes, StartBackup(p)
  PROVE  DInv'
<1> USE DEF StartBackup, Quiet
<1>1. thread[p].at \in Working \ Serving /\ "copying" \in Working
  BY DEF Working, Serving, AtJob
<1>2. DatabaseTypesOK' /\ LockOK' /\ JobsOK' /\ RowsOK'
  BY <1>1, MovesOn
<1>3. /\ thread'[p].at = "copying"
      /\ \A q \in Processes : q # p => thread'[q] = thread[q]
  BY <1>1, StepThread DEF DInv
<1>4. backups \subseteq backups' /\ Backup' = Backup
  BY DEF Backup
<1>5. BackupsOK'
  BY <1>3, <1>4 DEF DInv, BackupsOK, UpgradesAreBackedUp
<1>6. QED
  BY <1>2, <1>5 DEF DInv

LEMMA FinishBackupKeeps ==
  ASSUME DatabaseConstants, DInv, NEW p \in Processes, FinishBackup(p)
  PROVE  DInv'
<1> USE DEF FinishBackup, Quiet
<1>1. thread[p].at \in Working \ Serving /\ "migrating" \in Working
  BY DEF Working, Serving, AtJob
<1>2. DatabaseTypesOK' /\ LockOK' /\ JobsOK' /\ RowsOK'
  BY <1>1, MovesOn
<1>3. PICK b : b = [NewBackup EXCEPT !.whole = TRUE]
  OBVIOUS
<1>4. \A old \in backups : old.whole = TRUE => old \in backups'
  BY DEF NewBackup
<1>5. UpgradesAreBackedUp'
  BY <1>4 DEF DInv, BackupsOK, UpgradesAreBackedUp
<1>6. b = Backup /\ b \in backups' /\ Backup' = Backup
  BY <1>3 DEF Backup, NewBackup
<1>7. BackupsOK'
  BY <1>5, <1>6 DEF BackupsOK
<1>8. QED
  BY <1>2, <1>7 DEF DInv

LEMMA FailBackupKeeps ==
  ASSUME DatabaseConstants, DInv, NEW p \in Processes, FailBackup(p)
  PROVE  DInv'
BY EndsKeeps DEF FailBackup, Quiet, Serving, AtJob

LEMMA SkipBackupKeeps ==
  ASSUME DatabaseConstants, DInv, NEW p \in Processes, SkipBackup(p)
  PROVE  DInv'
<1> USE DEF SkipBackup, Quiet
<1>1. thread[p].at \in Working \ Serving /\ "migrating" \in Working
  BY DEF Working, Serving, AtJob
<1>2. DatabaseTypesOK' /\ LockOK' /\ JobsOK' /\ RowsOK'
  BY <1>1, MovesOn
<1>3. /\ \A q \in Processes : q # p => thread'[q] = thread[q]
      /\ thread'[p].existed = thread[p].existed
  BY <1>1, StepThread DEF DInv
<1>4. BackupsStay
  BY <1>3 DEF BackupsStay, NeedsBackup
<1>5. QED
  BY <1>2, <1>4, BackupsUndisturbed DEF DInv

LEMMA ApplyMigrationsKeeps ==
  ASSUME DatabaseConstants, DInv, NEW p \in Processes, ApplyMigrations(p)
  PROVE  DInv'
<1> USE DEF ApplyMigrations
<1>1. thread[p].at \in Working \ Serving /\ "opened" \in Working
  BY DEF Working, Serving, AtJob
<1>2. CASE /\ file' = [file EXCEPT !.schema = Known[p]]
           /\ replaced' = IF thread[p].existed
                           THEN replaced \cup {[schema |-> file.schema, rows |-> file.rows]}
                           ELSE replaced
           /\ Step(p, "opened")
           /\ UNCHANGED lock
  <2>1. /\ thread' \in [Processes -> Threads]
        /\ thread'[p].at = "opened"
        /\ \A q \in Processes : q # p => thread'[q] = thread[q]
        /\ \A q \in Processes :
             thread'[q].job = thread[q].job /\ thread'[q].existed = thread[q].existed
    BY <1>1, <1>2, StepThread DEF DInv
  <2>2. Known[p] \in Nat
    BY DEF DatabaseConstants
  <2>3. /\ file' \in [exists : BOOLEAN, schema : Nat, rows : SUBSET (Writers \cup {"old"})]
        /\ file'.rows = file.rows
    BY <1>2, <2>2 DEF DInv, DatabaseTypesOK
  <2>4. DatabaseTypesOK'
    BY <1>2, <2>1, <2>3 DEF DInv, DatabaseTypesOK
  <2>5. LockOK'
    BY <1>1, <1>2, <2>1 DEF DInv, LockOK
  <2>6. JobsStay
    BY <1>1, <2>1, <2>3 DEF JobsStay, AtJob, Serving
  <2>7. UpgradesAreBackedUp'
    <3>1. ASSUME NEW old \in replaced'
          PROVE  [whole |-> TRUE, schema |-> old.schema, rows |-> old.rows] \in backups
      <4>1. CASE old \in replaced
        BY <4>1 DEF DInv, BackupsOK, UpgradesAreBackedUp
      <4>2. CASE old \notin replaced
        <5>1. thread[p].existed /\ old = [schema |-> file.schema, rows |-> file.rows]
          BY <1>2, <3>1, <4>2
        <5>2. Backup \in backups
          BY <5>1 DEF DInv, BackupsOK
        <5>3. QED
          BY <5>1, <5>2 DEF Backup
      <4>3. QED
        BY <4>1, <4>2
    <3>2. QED
      BY <3>1 DEF UpgradesAreBackedUp
  <2>8. \A q \in Processes : thread'[q].at # "migrating"
    BY <2>1, <1>1 DEF DInv, LockOK, Working
  <2>9. BackupsOK'
    BY <2>7, <2>8 DEF BackupsOK
  <2>10. QED
    BY <2>4, <2>5, <2>6, <2>9, JobsUndisturbed DEF DInv
<1>3. CASE Ends(p) /\ UNCHANGED <<file, replaced>>
  BY <1>1, <1>3, EndsKeeps
<1>4. QED
  BY <1>2, <1>3

LEMMA SendKeeps ==
  ASSUME DatabaseConstants, DInv, NEW w \in Writers, Send(w)
  PROVE  DInv'
<1> DEFINE p == Home[w]
<1>0. UNCHANGED <<file, backups, lock, thread, seen, replaced>> /\ reply[w] = "none"
  BY DEF Send, Quiet
<1>1. p \in Processes /\ w # "none"
  BY DEF DatabaseConstants
<1>2. \A q \in Processes : ~InHand(w, q)
  BY <1>0, JobFacts
<1>3. BackupsStay
  BY <1>0 DEF BackupsStay
<1>4. LockOK'
  BY <1>0 DEF DInv, LockOK
<1>5. CASE /\ thread[p].at \in Serving
           /\ queue' = [queue EXCEPT ![p] = Append(@, w)]
           /\ reply' = [reply EXCEPT ![w] = "waiting"]
  <2>1. PICK s : s = queue[p]
    OBVIOUS
  <2>2. s \in Seq(Writers)
    BY <1>1, <2>1 DEF DInv, DatabaseTypesOK
  <2>3. PICK t : t = Append(s, w)
    OBVIOUS
  <2>4. /\ t \in Seq(Writers)
        /\ \A v : Queued(v, t) <=> v = w \/ Queued(v, s)
        /\ (\A m, n \in DOMAIN s : s[m] = s[n] => m = n) /\ ~Queued(w, s) =>
             \A m, n \in DOMAIN t : t[m] = t[n] => m = n
    BY <2>2, <2>3, QueuedAppend
  <2>5. queue' = [queue EXCEPT ![p] = t]
    BY <1>5, <2>1, <2>3
  <2>6. queue' \in [Processes -> Seq(Writers)] /\ queue'[p] = t
        /\ \A q \in Processes : q # p => queue'[q] = queue[q]
    BY <1>1, <2>4, <2>5 DEF DInv, DatabaseTypesOK
  <2>7. reply'[w] = "waiting" /\ \A v \in Writers : v # w => reply'[v] = reply[v]
    BY <1>5 DEF DInv, DatabaseTypesOK
  <2>8. DatabaseTypesOK'
    BY <1>0, <1>5, <2>6 DEF DInv, DatabaseTypesOK
  <2>9. ~Queued(w, s) /\ \A m, n \in DOMAIN s : s[m] = s[n] => m = n
    BY <1>1, <1>2, <2>1 DEF InHand, DInv, JobsOK
  <2>10. \A v \in Writers, q \in Processes :
           InHand(v, q)' <=> InHand(v, q) \/ (v = w /\ q = p)
    BY <1>0, <2>1, <2>4, <2>6 DEF InHand
  <2>11. ASSUME NEW q \in Processes PROVE thread[q].job # w
    BY <1>2 DEF InHand
  <2>12. JobsOK'
    <3>1. ASSUME NEW q \in Processes
          PROVE  /\ thread[q].at \notin Serving => queue'[q] = <<>>
                 /\ \A m, n \in DOMAIN queue'[q] : queue'[q][m] = queue'[q][n] => m = n
                 /\ ~Queued(thread[q].job, queue'[q])
      <4>1. CASE q = p
        BY <4>1, <1>1, <1>5, <2>1, <2>4, <2>6, <2>9, <2>11 DEF DInv, JobsOK
      <4>2. CASE q # p
        <5>1. queue'[q] = queue[q]
          BY <4>2, <2>6
        <5>2. QED
          BY <5>1, JobFacts
      <4>3. QED
        BY <4>1, <4>2
    <3>2. \A q \in Processes, v \in Writers : InHand(v, q)' => Home[v] = q /\ reply'[v] = "waiting"
      <4>1. ASSUME NEW q \in Processes, NEW v \in Writers, InHand(v, q)'
            PROVE  Home[v] = q /\ reply'[v] = "waiting"
        <5>1. CASE v = w
          BY <5>1, <4>1, <1>2, <2>7, <2>10
        <5>2. CASE v # w
          <6>1. InHand(v, q)
            BY <5>2, <4>1, <2>10
          <6>2. QED
            BY <6>1, <5>2, <2>7, JobFacts
        <5>3. QED
          BY <5>1, <5>2
      <4>2. QED
        BY <4>1
    <3>3. QED
      BY <1>0, <3>1, <3>2, JobFacts DEF JobsOK, Queued
  <2>13. RowsOK'
    <3>1. \A v \in Writers : Home[v] \in Processes
      BY DEF DatabaseConstants
    <3>2. w \notin file.rows
      BY <1>0 DEF DInv, RowsOK
    <3>3. ASSUME NEW v \in Writers, NEW q \in Processes, Queued(v, queue'[q]) PROVE v \notin file.rows
      <4>1. v = w \/ Queued(v, queue[q])
        BY <3>3, <2>1, <2>4, <2>6
      <4>2. QED
        BY <4>1, <3>2 DEF DInv, RowsOK
    <3>4. \A v \in Writers : reply'[v] = "waiting" => InHand(v, Home[v])'
      BY <2>7, <2>10, <3>1 DEF DInv, RowsOK
    <3>5. \A v \in Writers :
            /\ reply'[v] = "ok" => v \in file.rows
            /\ reply'[v] \in {"none", "failed"} => v \notin file.rows
      BY <2>7 DEF DInv, RowsOK
    <3>6. QED
      BY <1>0, <3>3, <3>4, <3>5 DEF DInv, RowsOK, Queued
  <2>14. QED
    BY <1>3, <1>4, <2>8, <2>12, <2>13, BackupsUndisturbed DEF DInv
<1>6. CASE reply' = [reply EXCEPT ![w] = "stopped"] /\ UNCHANGED queue
  <2>1. reply'[w] = "stopped" /\ \A v \in Writers : v # w => reply'[v] = reply[v]
    BY <1>6 DEF DInv, DatabaseTypesOK
  <2>2. DatabaseTypesOK'
    BY <1>0, <1>6 DEF DInv, DatabaseTypesOK
  <2>3. \A v \in Writers, q \in Processes : InHand(v, q)' <=> InHand(v, q)
    BY <1>0, <1>6 DEF InHand, Queued
  <2>4. \A q \in Processes, v \in Writers : InHand(v, q)' => Home[v] = q /\ reply'[v] = "waiting"
    <3>1. ASSUME NEW q \in Processes, NEW v \in Writers, InHand(v, q)'
          PROVE  Home[v] = q /\ reply'[v] = "waiting"
      <4>1. InHand(v, q) /\ v # w
        BY <3>1, <1>2, <2>3
      <4>2. QED
        BY <4>1, <2>1 DEF DInv, JobsOK
    <3>2. QED
      BY <3>1
  <2>5. JobsOK'
    <3>1. queue' = queue /\ thread' = thread
      BY <1>0, <1>6
    <3>2. QED
      BY <3>1, <2>4, JobFacts DEF JobsOK, Queued
  <2>6. \A v \in Writers : reply'[v] = "waiting" => InHand(v, Home[v])'
    BY <2>1, <2>3 DEF DInv, RowsOK, DatabaseConstants
  <2>7. RowsOK'
    <3>1. queue' = queue /\ thread' = thread /\ file' = file /\ seen' = seen
      BY <1>0, <1>6
    <3>2. \A v \in Writers :
            /\ reply'[v] = "ok" => v \in file.rows
            /\ reply'[v] \in {"none", "failed"} => v \notin file.rows
      BY <2>1 DEF DInv, RowsOK
    <3>3. QED
      BY <3>1, <3>2, <2>6 DEF DInv, RowsOK, Queued
  <2>8. QED
    BY <1>3, <1>4, <2>2, <2>5, <2>7, BackupsUndisturbed DEF DInv
<1>7. QED
  BY <1>5, <1>6 DEF Send, Serving, AtJob

(* A job that a thread has is one of the callers'. *)
LEMMA JobOfThread ==
  ASSUME DInv, NEW p \in Processes, thread[p].at \in AtJob
  PROVE  /\ thread[p].job \in Writers /\ thread[p].at \in Working
         /\ Home[thread[p].job] = p /\ reply[thread[p].job] = "waiting"
         /\ ~Queued(thread[p].job, queue[p])
<1>1. thread[p] \in Threads
  BY DEF DInv, DatabaseTypesOK
<1>2. thread[p].job \in Writers \cup {"none"}
  BY <1>1 DEF Threads
<1>3. thread[p].job \in Writers
  BY <1>2, JobFacts
<1>4. InHand(thread[p].job, p)
  BY DEF InHand
<1>5. QED
  BY <1>3, <1>4, JobFacts DEF AtJob, Working

(* What the rows say of one caller. *)
LEMMA RowFacts ==
  ASSUME DInv, NEW w \in Writers
  PROVE  /\ reply[w] = "waiting" => InHand(w, Home[w])
         /\ reply[w] = "ok" => w \in file.rows
         /\ reply[w] \in {"none", "failed"} => w \notin file.rows
         /\ \A p \in Processes : Queued(w, queue[p]) => w \notin file.rows
         /\ \A p \in Processes : thread[p].job = w =>
              (w \in file.rows <=> thread[p].at = "committed")
BY DEF DInv, RowsOK

LEMMA TakeKeeps ==
  ASSUME DatabaseConstants, DInv, NEW p \in Processes, Take(p)
  PROVE  DInv'
<1>0. /\ thread[p].at = "ready" /\ queue[p] # <<>>
      /\ UNCHANGED <<file, backups, lock, reply, seen, replaced>>
  BY DEF Take, Quiet
<1>1. PICK s : s = queue[p]
  OBVIOUS
<1>2. s \in Seq(Writers) /\ s # <<>>
  BY <1>0, <1>1 DEF DInv, DatabaseTypesOK
<1>3. PICK h, t : h = Head(s) /\ t = Tail(s)
  OBVIOUS
<1>4. /\ h \in Writers /\ t \in Seq(Writers)
      /\ \A w : Queued(w, s) <=> w = h \/ Queued(w, t)
      /\ ~Queued(h, t)
      /\ \A m, n \in DOMAIN t : t[m] = t[n] => m = n
  BY <1>1, <1>2, <1>3, QueuedTail, JobFacts
<1>5. PICK r : r = [thread[p] EXCEPT !.at = "running", !.job = h]
  OBVIOUS
<1>6. thread[p] \in Threads
  BY DEF DInv, DatabaseTypesOK
<1>7. r \in Threads /\ r.at = "running" /\ r.job = h
  BY <1>4, <1>5, <1>6 DEF Threads, Working
<1>8. thread' = [thread EXCEPT ![p] = r] /\ queue' = [queue EXCEPT ![p] = t]
  BY <1>1, <1>3, <1>5 DEF Take
<1>9. /\ thread' \in [Processes -> Threads] /\ thread'[p] = r
      /\ \A q \in Processes : q # p => thread'[q] = thread[q]
  BY <1>7, <1>8, NewThread DEF DInv
<1>10. /\ queue' \in [Processes -> Seq(Writers)] /\ queue'[p] = t
       /\ \A q \in Processes : q # p => queue'[q] = queue[q]
  BY <1>4, <1>8 DEF DInv, DatabaseTypesOK
<1>11. thread[p].job = "none" /\ \A w \in Writers : w # "none"
  BY <1>0, JobFacts DEF AtJob, DatabaseConstants
<1>12. DatabaseTypesOK'
  BY <1>0, <1>9, <1>10 DEF DInv, DatabaseTypesOK
<1>13. LockOK'
  BY <1>0, <1>9 DEF DInv, LockOK, Working
<1>14. BackupsStay
  BY <1>0, <1>7, <1>9 DEF BackupsStay
<1>15. \A q \in Processes, w \in Writers : InHand(w, q)' <=> InHand(w, q)
  BY <1>1, <1>4, <1>7, <1>9, <1>10, <1>11 DEF InHand
<1>16. JobsOK'
  <2>1. ASSUME NEW q \in Processes
        PROVE  /\ thread'[q].at \notin Serving => queue'[q] = <<>>
               /\ thread'[q].job = "none" <=> thread'[q].at \notin AtJob
               /\ \A m, n \in DOMAIN queue'[q] : queue'[q][m] = queue'[q][n] => m = n
               /\ ~Queued(thread'[q].job, queue'[q])
    <3>1. CASE q = p
      BY <3>1, <1>4, <1>7, <1>9, <1>10, <1>11 DEF Serving, AtJob
    <3>2. CASE q # p
      BY <3>2, <1>9, <1>10, JobFacts
    <3>3. QED
      BY <3>1, <3>2
  <2>2. \A q \in Processes, w \in Writers : InHand(w, q)' => Home[w] = q /\ reply'[w] = "waiting"
    BY <1>0, <1>15, JobFacts
  <2>3. QED
    BY <2>1, <2>2 DEF JobsOK, Queued
<1>17. RowsOK'
  <2>1. \A w \in Writers : Home[w] \in Processes
    BY DEF DatabaseConstants
  <2>2. \A w \in Writers : reply'[w] = "waiting" => InHand(w, Home[w])'
    BY <1>0, <1>15, <2>1, RowFacts
  <2>3. ASSUME NEW w \in Writers, NEW q \in Processes
        PROVE  /\ Queued(w, queue'[q]) => w \notin file.rows
               /\ thread'[q].job = w => (w \in file.rows <=> thread'[q].at = "committed")
    <3>1. CASE q = p
      <4>1. Queued(w, t) => w \notin file.rows
        BY <1>1, <1>4, RowFacts
      <4>2. h \notin file.rows
        BY <1>1, <1>4, RowFacts
      <4>3. QED
        BY <3>1, <4>1, <4>2, <1>7, <1>9, <1>10
    <3>2. CASE q # p
      BY <3>2, <1>9, <1>10, RowFacts
    <3>3. QED
      BY <3>1, <3>2
  <2>4. file' = file /\ seen' \subseteq file'.rows
    BY <1>0 DEF DInv, RowsOK
  <2>5. \A w \in Writers :
          /\ reply'[w] = "ok" => w \in file'.rows
          /\ reply'[w] \in {"none", "failed"} => w \notin file'.rows
    BY <1>0, RowFacts
  <2>6. QED
    BY <2>2, <2>3, <2>4, <2>5 DEF RowsOK, Queued
<1>18. QED
  BY <1>12, <1>13, <1>14, <1>16, <1>17, BackupsUndisturbed DEF DInv

(* A commit is of the one process that holds the lock, and nobody else has   *)
(* a checked backup that it could spoil.                                     *)
LEMMA CommitKeeps ==
  ASSUME DatabaseConstants, DInv, NEW p \in Processes, Commit(p)
  PROVE  DInv'
<1>0. /\ thread[p].at = "running"
      /\ UNCHANGED <<backups, lock, queue, reply, seen, replaced>>
  BY DEF Commit, Quiet
<1>1. PICK at : /\ at \in {"committed", "rolled back"} /\ Step(p, at)
                /\ \/ at = "committed" /\ file' = [file EXCEPT !.rows = @ \cup {thread[p].job}]
                   \/ at = "rolled back" /\ file' = file
  BY DEF Commit
<1>2. PICK j : j = thread[p].job
  OBVIOUS
<1>3. /\ j \in Writers /\ thread[p].at \in Working
      /\ Home[j] = p /\ reply[j] = "waiting" /\ ~Queued(j, queue[p])
  BY <1>0, <1>2, JobOfThread DEF AtJob
<1>4. at \in Working /\ at \in AtJob
  BY <1>1 DEF Working, AtJob
<1>5. /\ thread' \in [Processes -> Threads]
      /\ thread'[p].at = at
      /\ \A q \in Processes : q # p => thread'[q] = thread[q]
      /\ \A q \in Processes :
           thread'[q].job = thread[q].job /\ thread'[q].existed = thread[q].existed
  BY <1>1, <1>4, StepThread DEF DInv
<1>6. PICK new : new = IF at = "committed" THEN {j} ELSE {}
  OBVIOUS
<1>7. /\ file' \in [exists : BOOLEAN, schema : Nat, rows : SUBSET (Writers \cup {"old"})]
      /\ file'.rows = file.rows \cup new
  <2>1. file \in [exists : BOOLEAN, schema : Nat, rows : SUBSET (Writers \cup {"old"})]
    BY DEF DInv, DatabaseTypesOK
  <2>2. CASE at = "committed" /\ file' = [file EXCEPT !.rows = @ \cup {j}]
    BY <2>1, <2>2, <1>3, <1>6
  <2>3. CASE at = "rolled back" /\ file' = file
    BY <2>1, <2>3, <1>6
  <2>4. QED
    BY <1>1, <1>2, <2>2, <2>3
<1>8. DatabaseTypesOK'
  BY <1>0, <1>5, <1>7 DEF DInv, DatabaseTypesOK
<1>9. LockOK'
  BY <1>0, <1>3, <1>5 DEF DInv, LockOK
<1>10. \A q \in Processes, w \in Writers : InHand(w, q)' <=> InHand(w, q)
  BY <1>0, <1>5 DEF InHand
<1>11. JobsOK'
  <2>1. ASSUME NEW q \in Processes
        PROVE  /\ thread'[q].at \notin Serving => queue'[q] = <<>>
               /\ thread'[q].job = "none" <=> thread'[q].at \notin AtJob
               /\ \A m, n \in DOMAIN queue'[q] : queue'[q][m] = queue'[q][n] => m = n
               /\ ~Queued(thread'[q].job, queue'[q])
    <3>1. CASE q = p
      <4>1. thread'[q].job = thread[q].job /\ queue'[q] = queue[q]
        BY <1>0, <1>5
      <4>2. thread[q].at \in AtJob /\ thread'[q].at \in AtJob /\ thread'[q].at \in Serving
        BY <3>1, <1>0, <1>4, <1>5 DEF Serving, AtJob
      <4>3. QED
        BY <4>1, <4>2, JobFacts
    <3>2. CASE q # p
      BY <3>2, <1>0, <1>5, JobFacts
    <3>3. QED
      BY <3>1, <3>2
  <2>2. \A q \in Processes, w \in Writers : InHand(w, q)' => Home[w] = q /\ reply'[w] = "waiting"
    BY <1>0, <1>10, JobFacts
  <2>3. QED
    BY <2>1, <2>2 DEF JobsOK, Queued
<1>12. RowsOK'
  <2>1. \A w \in Writers : Home[w] \in Processes
    BY DEF DatabaseConstants
  <2>2. ASSUME NEW w \in Writers
        PROVE  /\ reply'[w] = "waiting" => InHand(w, Home[w])'
               /\ reply'[w] = "ok" => w \in file'.rows
               /\ reply'[w] \in {"none", "failed"} => w \notin file'.rows
    <3>1. reply'[w] \in {"none", "failed"} => w # j
      BY <1>0, <1>3
    <3>2. QED
      BY <1>0, <1>6, <1>7, <1>10, <2>1, <3>1, RowFacts
  <2>3. ASSUME NEW w \in Writers, NEW q \in Processes
        PROVE  /\ Queued(w, queue'[q]) => w \notin file'.rows
               /\ thread'[q].job = w => (w \in file'.rows <=> thread'[q].at = "committed")
    <3>1. Queued(w, queue[q]) => w # j
      <4>1. ASSUME Queued(j, queue[q]) PROVE FALSE
        <5>1. InHand(j, q)
          BY <4>1 DEF InHand
        <5>2. q = p
          BY <5>1, <1>3, JobFacts
        <5>3. QED
          BY <4>1, <5>2, <1>3
      <4>2. QED
        BY <4>1
    <3>2. thread[q].job = w /\ q # p => w # j
      <4>1. thread[q].job = w => InHand(w, q)
        BY DEF InHand
      <4>2. QED
        BY <4>1, <1>3, JobFacts
    <3>3. j \notin file.rows
      BY <1>0, <1>2, <1>3, RowFacts
    <3>4. Queued(w, queue'[q]) => w \notin file'.rows
      BY <1>0, <1>6, <1>7, <3>1, RowFacts
    <3>5. CASE q = p
      <4>1. thread'[q].job = j /\ thread'[q].at = at
        BY <3>5, <1>2, <1>5
      <4>2. QED
        BY <3>3, <3>4, <4>1, <1>6, <1>7
    <3>6. CASE q # p
      <4>1. thread'[q] = thread[q]
        BY <3>6, <1>5
      <4>2. QED
        BY <3>2, <3>4, <3>6, <4>1, <1>6, <1>7, RowFacts
    <3>7. QED
      BY <3>5, <3>6
  <2>4. seen' \subseteq file'.rows
    BY <1>0, <1>7 DEF DInv, RowsOK
  <2>5. QED
    BY <2>2, <2>3, <2>4 DEF RowsOK, Queued
<1>13. \A q \in Processes : thread'[q].at # "migrating"
  BY <1>0, <1>1, <1>3, <1>5 DEF DInv, LockOK, Working
<1>14. BackupsOK'
  BY <1>0, <1>13 DEF DInv, BackupsOK, UpgradesAreBackedUp
<1>15. QED
  BY <1>8, <1>9, <1>11, <1>12, <1>14 DEF DInv

LEMMA ReplyKeeps ==
  ASSUME DatabaseConstants, DInv, NEW p \in Processes, Reply(p)
  PROVE  DInv'
<1>0. /\ thread[p].at \in {"committed", "rolled back"}
      /\ UNCHANGED <<file, backups, lock, queue, seen, replaced>>
  BY DEF Reply, MayReply, Quiet
<1>1. PICK j : j = thread[p].job
  OBVIOUS
<1>2. /\ j \in Writers /\ thread[p].at \in Working
      /\ Home[j] = p /\ reply[j] = "waiting" /\ ~Queued(j, queue[p])
  BY <1>0, <1>1, JobOfThread DEF AtJob
<1>3. PICK a : a = IF thread[p].at = "rolled back" THEN "failed" ELSE "ok"
  OBVIOUS
<1>4. reply' = [reply EXCEPT ![j] = a]
  BY <1>1, <1>3 DEF Reply
<1>5. /\ reply' \in [Writers -> {"none", "waiting", "stopped", "ok", "failed", "lost"}]
      /\ reply'[j] = a /\ \A w \in Writers : w # j => reply'[w] = reply[w]
  BY <1>2, <1>3, <1>4 DEF DInv, DatabaseTypesOK
<1>6. PICK r : r = [thread[p] EXCEPT !.at = "ready", !.job = "none"]
  OBVIOUS
<1>7. thread[p] \in Threads
  BY DEF DInv, DatabaseTypesOK
<1>8. r \in Threads /\ r.at = "ready" /\ r.job = "none"
  BY <1>6, <1>7 DEF Threads, Working
<1>9. thread' = [thread EXCEPT ![p] = r]
  BY <1>6 DEF Reply
<1>10. /\ thread' \in [Processes -> Threads] /\ thread'[p] = r
       /\ \A q \in Processes : q # p => thread'[q] = thread[q]
  BY <1>8, <1>9, NewThread DEF DInv
<1>11. \A w \in Writers : w # "none"
  BY DEF DatabaseConstants
<1>12. DatabaseTypesOK'
  BY <1>0, <1>5, <1>10 DEF DInv, DatabaseTypesOK
<1>13. LockOK'
  BY <1>0, <1>2, <1>10 DEF DInv, LockOK
<1>14. BackupsStay
  BY <1>0, <1>8, <1>10 DEF BackupsStay
<1>15. \A q \in Processes, w \in Writers : InHand(w, q)' <=> InHand(w, q) /\ w # j
  <2>1. ASSUME NEW q \in Processes, NEW w \in Writers, q # p
        PROVE  InHand(w, q)' <=> InHand(w, q) /\ w # j
    <3>1. InHand(w, q)' <=> InHand(w, q)
      BY <2>1, <1>0, <1>10 DEF InHand
    <3>2. InHand(w, q) => w # j
      BY <2>1, <1>2, JobFacts
    <3>3. QED
      BY <3>1, <3>2
  <2>2. ASSUME NEW w \in Writers
        PROVE  InHand(w, p)' <=> InHand(w, p) /\ w # j
    BY <1>0, <1>1, <1>2, <1>8, <1>10, <1>11 DEF InHand
  <2>3. QED
    BY <2>1, <2>2
<1>16. ASSUME NEW w \in Writers, NEW k \in Seq(Writers) PROVE ~Queued("none", k)
  BY <1>11, <1>16 DEF Queued
<1>17. JobsOK'
  <2>1. ASSUME NEW q \in Processes
        PROVE  /\ thread'[q].at \notin Serving => queue'[q] = <<>>
               /\ thread'[q].job = "none" <=> thread'[q].at \notin AtJob
               /\ \A m, n \in DOMAIN queue'[q] : queue'[q][m] = queue'[q][n] => m = n
               /\ ~Queued(thread'[q].job, queue'[q])
    <3>1. CASE q = p
      <4>1. queue[p] \in Seq(Writers)
        BY DEF DInv, DatabaseTypesOK
      <4>2. ~Queued("none", queue[p])
        BY <4>1, <1>2, <1>16
      <4>3. QED
        BY <3>1, <4>2, <1>0, <1>8, <1>10, JobFacts DEF Serving, AtJob
    <3>2. CASE q # p
      <4>1. thread'[q] = thread[q] /\ queue'[q] = queue[q]
        BY <3>2, <1>0, <1>10
      <4>2. QED
        BY <4>1, JobFacts
    <3>3. QED
      BY <3>1, <3>2
  <2>2. \A q \in Processes, w \in Writers : InHand(w, q)' => Home[w] = q /\ reply'[w] = "waiting"
    BY <1>5, <1>15, JobFacts
  <2>3. QED
    BY <2>1, <2>2 DEF JobsOK, Queued
<1>18. RowsOK'
  <2>1. \A w \in Writers : Home[w] \in Processes
    BY DEF DatabaseConstants
  <2>2. a = "ok" => j \in file.rows
    BY <1>0, <1>1, <1>2, <1>3, RowFacts
  <2>3. a = "failed" => j \notin file.rows
    BY <1>0, <1>1, <1>2, <1>3, RowFacts
  <2>4. a \in {"ok", "failed"}
    BY <1>3
  <2>5. ASSUME NEW w \in Writers
        PROVE  /\ reply'[w] = "waiting" => InHand(w, Home[w])'
               /\ reply'[w] = "ok" => w \in file'.rows
               /\ reply'[w] \in {"none", "failed"} => w \notin file'.rows
    <3>1. CASE w = j
      BY <3>1, <1>0, <1>5, <2>2, <2>3, <2>4
    <3>2. CASE w # j
      BY <3>2, <1>0, <1>5, <1>15, <2>1, RowFacts
    <3>3. QED
      BY <3>1, <3>2
  <2>6. ASSUME NEW w \in Writers, NEW q \in Processes
        PROVE  /\ Queued(w, queue'[q]) => w \notin file'.rows
               /\ thread'[q].job = w => (w \in file'.rows <=> thread'[q].at = "committed")
    <3>1. CASE q = p
      BY <3>1, <1>0, <1>8, <1>10, <1>11, RowFacts
    <3>2. CASE q # p
      BY <3>2, <1>0, <1>10, RowFacts
    <3>3. QED
      BY <3>1, <3>2
  <2>7. seen' \subseteq file'.rows
    BY <1>0 DEF DInv, RowsOK
  <2>8. QED
    BY <2>5, <2>6, <2>7 DEF RowsOK, Queued
<1>19. QED
  BY <1>12, <1>13, <1>14, <1>17, <1>18, BackupsUndisturbed DEF DInv

(* A thread that stops, with its process or alone, takes its jobs along and  *)
(* none of their callers waits any longer.                                   *)
LEMMA StopKeeps ==
  ASSUME DatabaseConstants, DInv, NEW p \in Processes,
         NEW at \in {"stopped", "none"}, thread' = [thread EXCEPT ![p] = At(at)],
         queue' = [queue EXCEPT ![p] = <<>>],
         NEW Gone \in SUBSET Writers, NEW a \in {"stopped", "lost"},
         \A w \in Writers : InHand(w, p) => w \in Gone,
         \A w \in Gone : reply[w] = "waiting" /\ Home[w] = p,
         reply' = [w \in Writers |-> IF w \in Gone THEN a ELSE reply[w]],
         lock' = IF lock = p THEN "nobody" ELSE lock,
         UNCHANGED <<file, backups, seen, replaced>>
  PROVE  DInv'
<1>1. At(at) \in Threads /\ At(at).at = at /\ At(at).job = "none" /\ ~At(at).existed
  BY AtThread
<1>2. /\ thread' \in [Processes -> Threads] /\ thread'[p] = At(at)
      /\ \A q \in Processes : q # p => thread'[q] = thread[q]
  BY <1>1, NewThread DEF DInv
<1>3. /\ queue' \in [Processes -> Seq(Writers)] /\ queue'[p] = <<>>
      /\ \A q \in Processes : q # p => queue'[q] = queue[q]
  BY DEF DInv, DatabaseTypesOK
<1>4. /\ reply' \in [Writers -> {"none", "waiting", "stopped", "ok", "failed", "lost"}]
      /\ \A w \in Writers : w \in Gone => reply'[w] = a
      /\ \A w \in Writers : w \notin Gone => reply'[w] = reply[w]
  BY DEF DInv, DatabaseTypesOK
<1>5. DatabaseTypesOK'
  BY <1>2, <1>3, <1>4 DEF DInv, DatabaseTypesOK
<1>6. at \notin Working /\ at \notin Serving /\ at \notin AtJob
  BY DEF Working, Serving, AtJob
<1>7. LockOK'
  BY <1>1, <1>2, <1>6 DEF DInv, LockOK
<1>8. BackupsStay
  BY <1>1, <1>2 DEF BackupsStay
<1>9. \A w \in Writers : w # "none"
  BY DEF DatabaseConstants
<1>10. \A w : ~Queued(w, <<>>)
  BY DEF Queued
<1>11. \A q \in Processes, w \in Writers : InHand(w, q)' <=> InHand(w, q) /\ q # p
  BY <1>1, <1>2, <1>3, <1>9, <1>10 DEF InHand
<1>12. \A q \in Processes, w \in Writers : InHand(w, q) /\ q # p => w \notin Gone
  BY JobFacts
<1>13. JobsOK'
  <2>1. ASSUME NEW q \in Processes
        PROVE  /\ thread'[q].at \notin Serving => queue'[q] = <<>>
               /\ thread'[q].job = "none" <=> thread'[q].at \notin AtJob
               /\ \A m, n \in DOMAIN queue'[q] : queue'[q][m] = queue'[q][n] => m = n
               /\ ~Queued(thread'[q].job, queue'[q])
    <3>1. CASE q = p
      BY <3>1, <1>1, <1>2, <1>3, <1>6, <1>10
    <3>2. CASE q # p
      BY <3>2, <1>2, <1>3, JobFacts
    <3>3. QED
      BY <3>1, <3>2
  <2>2. \A q \in Processes, w \in Writers : InHand(w, q)' => Home[w] = q /\ reply'[w] = "waiting"
    BY <1>4, <1>11, <1>12, JobFacts
  <2>3. QED
    BY <2>1, <2>2 DEF JobsOK, Queued
<1>14. RowsOK'
  <2>1. \A w \in Writers : Home[w] \in Processes
    BY DEF DatabaseConstants
  <2>2. ASSUME NEW w \in Writers
        PROVE  /\ reply'[w] = "waiting" => InHand(w, Home[w])'
               /\ reply'[w] = "ok" => w \in file'.rows
               /\ reply'[w] \in {"none", "failed"} => w \notin file'.rows
    <3>1. CASE w \in Gone
      BY <3>1, <1>4
    <3>2. CASE w \notin Gone
      BY <3>2, <1>4, <1>11, <2>1, RowFacts
    <3>3. QED
      BY <3>1, <3>2
  <2>3. ASSUME NEW w \in Writers, NEW q \in Processes
        PROVE  /\ Queued(w, queue'[q]) => w \notin file'.rows
               /\ thread'[q].job = w => (w \in file'.rows <=> thread'[q].at = "committed")
    <3>1. CASE q = p
      BY <3>1, <1>1, <1>2, <1>3, <1>9, <1>10
    <3>2. CASE q # p
      BY <3>2, <1>2, <1>3, RowFacts
    <3>3. QED
      BY <3>1, <3>2
  <2>4. seen' \subseteq file'.rows
    BY DEF DInv, RowsOK
  <2>5. QED
    BY <2>2, <2>3, <2>4 DEF RowsOK, Queued
<1>15. QED
  BY <1>5, <1>7, <1>8, <1>13, <1>14, BackupsUndisturbed DEF DInv

LEMMA PanicKeeps ==
  ASSUME DatabaseConstants, DInv, NEW p \in Processes, Panic(p)
  PROVE  DInv'
<1>1. thread[p].at \in AtJob
  BY DEF Panic, AtJob
<1>2. lock = p
  BY <1>1, JobOfThread DEF DInv, LockOK
<1>3. PICK Gone : Gone = Dropped(p)
  OBVIOUS
<1>4. \A w : w \in Gone <=> w = thread[p].job \/ Queued(w, queue[p])
  BY <1>3 DEF Dropped, Queued
<1>5. Gone \in SUBSET Writers
  <2>1. queue[p] \in Seq(Writers)
    BY DEF DInv, DatabaseTypesOK
  <2>2. \A w : Queued(w, queue[p]) => w \in Writers
    BY <2>1 DEF Queued
  <2>3. QED
    BY <1>1, <1>4, <2>2, JobOfThread
<1>6. \A w \in Writers : InHand(w, p) <=> w \in Gone
  BY <1>4 DEF InHand
<1>7. \A w \in Gone : reply[w] = "waiting" /\ Home[w] = p
  BY <1>5, <1>6, JobFacts
<1>8. /\ reply' = [w \in Writers |-> IF w \in Gone THEN "stopped" ELSE reply[w]]
      /\ queue' = [queue EXCEPT ![p] = <<>>]
      /\ thread' = [thread EXCEPT ![p] = At("stopped")]
      /\ lock' = IF lock = p THEN "nobody" ELSE lock
      /\ UNCHANGED <<file, backups, seen, replaced>>
  BY <1>2, <1>3 DEF Panic, Quiet
<1>9. QED
  BY <1>5, <1>6, <1>7, <1>8, StopKeeps

LEMMA ExitKeeps ==
  ASSUME DatabaseConstants, DInv, NEW p \in Processes, Exit(p)
  PROVE  DInv'
<1>1. PICK Gone : Gone = Owed(p)
  OBVIOUS
<1>2. Gone \in SUBSET Writers /\ \A w \in Gone : reply[w] = "waiting" /\ Home[w] = p
  BY <1>1 DEF Owed
<1>3. \A w \in Writers : InHand(w, p) => w \in Gone
  BY <1>1, JobFacts DEF Owed
<1>4. /\ reply' = [w \in Writers |-> IF w \in Gone THEN "lost" ELSE reply[w]]
      /\ queue' = [queue EXCEPT ![p] = <<>>]
      /\ thread' = [thread EXCEPT ![p] = At("none")]
      /\ lock' = IF lock = p THEN "nobody" ELSE lock
      /\ UNCHANGED <<file, backups, seen, replaced>>
  BY <1>1 DEF Exit, Quiet
<1>5. QED
  BY <1>2, <1>3, <1>4, StopKeeps

LEMMA ReadKeeps ==
  ASSUME DatabaseConstants, DInv, NEW p \in Processes, Read(p)
  PROVE  DInv'
<1>1. UNCHANGED <<file, backups, lock, thread, queue, reply, replaced>> /\ seen' = seen \cup file.rows
  BY DEF Read, Snapshot
<1>2. seen' \subseteq file'.rows
  BY <1>1 DEF DInv, RowsOK
<1>3. \A w \in Writers, q \in Processes : InHand(w, q)' <=> InHand(w, q)
  BY <1>1 DEF InHand, Queued
<1>4. DatabaseTypesOK' /\ LockOK' /\ BackupsOK'
  BY <1>1 DEF DInv, DatabaseTypesOK, LockOK, BackupsOK, UpgradesAreBackedUp, Backup
<1>5. JobsOK'
  BY <1>1, <1>3, JobFacts DEF JobsOK, Queued
<1>6. \A w \in Writers : reply'[w] = "waiting" => InHand(w, Home[w])'
  BY <1>1, <1>3, RowFacts DEF DatabaseConstants
<1>7. RowsOK'
  BY <1>1, <1>2, <1>6, RowFacts DEF RowsOK, Queued
<1>8. QED
  BY <1>4, <1>5, <1>7 DEF DInv

LEMMA DatabaseStart ==
  ASSUME DatabaseConstants, DatabaseInit
  PROVE  DInv
<1>1. At("none") \in Threads /\ At("none").at = "none" /\ At("none").job = "none" /\ ~At("none").existed
  BY AtThread
<1>2. \A p \in Processes : thread[p] = At("none") /\ queue[p] = <<>>
  BY DEF DatabaseInit
<1>3. \A w \in Writers : reply[w] = "none" /\ w \notin {"none", "old"}
  BY DEF DatabaseInit, DatabaseConstants
<1>4. /\ file \in [exists : BOOLEAN, schema : Nat, rows : SUBSET (Writers \cup {"old"})]
      /\ file.rows \subseteq {"old"}
  <2>1. CASE file = [exists |-> FALSE, schema |-> 0, rows |-> {}]
    BY <2>1
  <2>2. CASE \E v \in {Known[p] : p \in Processes} :
               file = [exists |-> TRUE, schema |-> v, rows |-> {"old"}]
    <3>1. PICK p \in Processes : file = [exists |-> TRUE, schema |-> Known[p], rows |-> {"old"}]
      BY <2>2
    <3>2. Known[p] \in Nat
      BY DEF DatabaseConstants
    <3>3. QED
      BY <3>1, <3>2
  <2>3. QED
    BY <2>1, <2>2 DEF DatabaseInit
<1>5. <<>> \in Seq(Writers)
  OBVIOUS
<1>6. DatabaseTypesOK
  BY <1>1, <1>4, <1>5 DEF DatabaseInit, DatabaseTypesOK
<1>7. \A w : ~Queued(w, <<>>)
  BY DEF Queued
<1>8. \A p \in Processes, w \in Writers : ~InHand(w, p)
  BY <1>1, <1>2, <1>3, <1>7 DEF InHand
<1>9. LockOK
  BY <1>1, <1>2 DEF LockOK, Working
<1>10. JobsOK
  <2>1. \A m, n \in DOMAIN <<>> : FALSE
    OBVIOUS
  <2>2. "none" \notin AtJob
    BY DEF AtJob
  <2>3. QED
    BY <1>1, <1>2, <1>7, <1>8, <2>1, <2>2 DEF JobsOK, Queued
<1>11. RowsOK
  BY <1>1, <1>2, <1>3, <1>4, <1>7 DEF RowsOK, DatabaseInit
<1>12. BackupsOK
  BY <1>1, <1>2 DEF BackupsOK, UpgradesAreBackedUp, DatabaseInit
<1>13. QED
  BY <1>6, <1>9, <1>10, <1>11, <1>12 DEF DInv

LEMMA DatabaseStepKeeps ==
  ASSUME DatabaseConstants, DInv, [DatabaseNext]_dbVars
  PROVE  DInv'
<1>1. CASE DatabaseNext
  BY <1>1, StartKeeps, OpenKeeps, StartBackupKeeps, FinishBackupKeeps, FailBackupKeeps,
     SkipBackupKeeps, ApplyMigrationsKeeps, TakeKeeps, CommitKeeps, ReplyKeeps, PanicKeeps,
     ReadKeeps, ExitKeeps, SendKeeps DEF DatabaseNext
<1>2. CASE UNCHANGED dbVars
  <2>1. UNCHANGED <<file, backups, lock, thread, queue, reply, seen, replaced>>
    BY <1>2 DEF dbVars
  <2>2. DatabaseTypesOK' /\ LockOK'
    BY <2>1 DEF DInv, DatabaseTypesOK, LockOK
  <2>3. JobsStay /\ BackupsStay
    BY <2>1 DEF JobsStay, BackupsStay
  <2>4. QED
    BY <2>2, <2>3, JobsUndisturbed, BackupsUndisturbed DEF DInv
<1>3. QED
  BY <1>1, <1>2

(* The invariant says what the run checks. *)
LEMMA DatabaseInvariantSuffices ==
  ASSUME DatabaseConstants, DInv
  PROVE  DatabaseKeepsItsWord
<1>1. OneBackend
  BY DEF DInv, LockOK, OneBackend
<1>2. AnswersAreTrue
  <2>1. seen \subseteq file.rows
    BY DEF DInv, RowsOK
  <2>2. \A w \in Writers : reply[w] = "waiting" =>
          \/ thread[Home[w]].job = w
          \/ \E n \in DOMAIN queue[Home[w]] : queue[Home[w]][n] = w
    BY RowFacts DEF InHand, Queued
  <2>3. QED
    BY <2>1, <2>2, RowFacts DEF AnswersAreTrue
<1>3. UpgradesAreBackedUp
  BY DEF DInv, BackupsOK
<1>4. QED
  BY <1>1, <1>2, <1>3 DEF DatabaseKeepsItsWord

(* Whatever builds open the root and however they panic, crash and upgrade,  *)
(* there is one backend at a time, what a caller was told and a reader saw   *)
(* stays true, and what a migration replaced is in a checked backup:         *)
(* open_database, migrate and the jobs of DatabaseWorker in sqlite.rs.       *)
THEOREM DatabaseWord == DatabaseSpec => []DatabaseKeepsItsWord
<1>1. DatabaseInit => DInv
  BY DatabaseAssumption, DatabaseStart
<1>2. DInv /\ [DatabaseNext]_dbVars => DInv'
  BY DatabaseAssumption, DatabaseStepKeeps
<1>3. DInv => DatabaseKeepsItsWord
  BY DatabaseAssumption, DatabaseInvariantSuffices
<1>4. QED
  BY <1>1, <1>2, <1>3, PTL DEF DatabaseSpec

-------------------------------------------------------------------------------
(***************************************************************************)
(* One named volume.  The invariant says what the recorded steps, a look   *)
(* at Docker and a command that may still be served say of the volumes of  *)
(* the name: what is found absent was not there, or is new, and within one *)
(* attempt one command, once, can make the volume.                         *)
(***************************************************************************)

Outcomes == {OpenOutcome, "succeeded", "failed", "unknown"}
VolumeSteps == [attempt : Nat \ {0}, outcome : Outcomes]

VolumeTypesOK ==
  /\ presence \in {"not_materialized", "present", "missing", "unverified"}
  /\ steps \in Seq(VolumeSteps)
  /\ attempt \in Nat \ {0}
  /\ serial \in Nat
  /\ kept \in Nat \cup {-1}

Tried == steps # <<>>

\* The volume there is, if any, is not one from before.
Renewed == volume = "none" \/ serial > 0

VolumesOK ==
  /\ Tried \/ check = "absent" => Renewed
  /\ Tried /\ check = "owned" => serial > 0
  /\ stage = "marking" => check = "owned"
  /\ stage \in {"marking", "creating", "waiting", "verifying", "verified"} => Tried
  /\ ~Tried => sent = {} /\ kept = -1
  /\ told = "not_materialized" => stage = "idle" /\ ~Tried
  /\ kept = -1 \/ kept > 0
  /\ presence = "present" => kept > 0

\* No command can make the volume any more.
Spent == sent = {} /\ stage # "creating"

\* The one command of the first attempt.
OneCommand == attempt = 1 =>
  /\ ~Tried /\ check = "absent" => volume # "own"
  /\ sent \subseteq {Last}
  /\ stage = "creating" => sent = {}
  /\ Tried /\ (volume = "own" \/ check = "owned") => Spent
  /\ kept # -1 => Spent /\ (volume = "own" => serial = kept)

VolumeInv == VolumeTypesOK /\ VolumesOK /\ OneCommand

-------------------------------------------------------------------------------
(* A step that is finished is still there, and so are the others. *)
LEMMA FinishFacts ==
  ASSUME VolumeTypesOK, Tried, NEW o \in Outcomes, Finish(Last, o)
  PROVE  /\ steps' \in Seq(VolumeSteps) /\ Tried' /\ Last' = Last
         /\ UNCHANGED <<presence, attempt, kept>>
<1>1. Last \in DOMAIN steps /\ steps \in Seq(VolumeSteps)
  BY DEF VolumeTypesOK, Tried, Last
<1>2. PICK s : s = [steps[Last] EXCEPT !.outcome = o]
  OBVIOUS
<1>3. s \in VolumeSteps
  <2>1. steps[Last] \in VolumeSteps
    BY <1>1
  <2>2. QED
    BY <1>2, <2>1 DEF VolumeSteps
<1>4. steps' = [steps EXCEPT ![Last] = s]
  BY <1>2 DEF Finish
<1>5. steps' \in Seq(VolumeSteps) /\ Len(steps') = Len(steps)
  BY <1>1, <1>3, <1>4
<1>6. QED
  BY <1>5 DEF Tried, Last, Finish

(* The steps of an operation that has not been retried are all of this       *)
(* attempt, so that nothing is tried again.                                  *)
LEMMA TriedOnce ==
  ASSUME VolumeTypesOK, attempt = 1, Retryable
  PROVE  ~Tried
<1>1. steps \in Seq(VolumeSteps)
  BY DEF VolumeTypesOK
<1>2. ASSUME NEW n \in DOMAIN steps PROVE FALSE
  <2>1. steps[n] \in VolumeSteps
    BY <1>1
  <2>2. steps[n].attempt < 1
    BY DEF Retryable
  <2>3. QED
    BY <2>1, <2>2 DEF VolumeSteps
<1>3. Len(steps) \in Nat /\ DOMAIN steps = 1..Len(steps)
  BY <1>1
<1>4. Len(steps) = 0
  BY <1>2, <1>3
<1>5. QED
  BY <1>1, <1>4 DEF Tried

LEMMA MarkPresentKeeps ==
  ASSUME VolumeInv, MarkPresent
  PROVE  VolumeInv'
<1> USE DEF VolumeInv, MarkPresent, SetPresence, Stay, Return, ledgerVars, dockerVars, callVars, Tried, Renewed, Spent
<1>1. VolumeTypesOK'
  BY DEF VolumeTypesOK, VolumesOK
<1>2. VolumesOK'
  BY DEF VolumeTypesOK, VolumesOK
<1>3. OneCommand'
  BY DEF VolumeTypesOK, VolumesOK, OneCommand, Last
<1>4. QED
  BY <1>1, <1>2, <1>3

LEMMA MarkUnverifiedKeeps ==
  ASSUME VolumeInv, MarkUnverified
  PROVE  VolumeInv'
<1> USE DEF VolumeInv, MarkUnverified, SetPresence, Stay, Return, ledgerVars, dockerVars, callVars, Tried, Renewed, Spent
<1>1. VolumeTypesOK'
  BY DEF VolumeTypesOK, VolumesOK
<1>2. VolumesOK'
  BY DEF VolumeTypesOK, VolumesOK
<1>3. OneCommand'
  BY DEF VolumeTypesOK, VolumesOK, OneCommand, Last
<1>4. QED
  BY <1>1, <1>2, <1>3

LEMMA DistrustKeeps ==
  ASSUME VolumeInv, Distrust
  PROVE  VolumeInv'
<1> USE DEF VolumeInv, Distrust, SetPresence, Stay, Return, ledgerVars, dockerVars, callVars, Tried, Renewed, Spent
<1>1. VolumeTypesOK'
  BY DEF VolumeTypesOK, VolumesOK
<1>2. VolumesOK'
  BY DEF VolumeTypesOK, VolumesOK
<1>3. OneCommand'
  BY DEF VolumeTypesOK, VolumesOK, OneCommand, Last
<1>4. QED
  BY <1>1, <1>2, <1>3

LEMMA FindMissingKeeps ==
  ASSUME VolumeInv, FindMissing
  PROVE  VolumeInv'
<1> USE DEF VolumeInv, FindMissing, SetPresence, Stay, Return, ledgerVars, dockerVars, callVars, Tried, Renewed, Spent
<1>1. VolumeTypesOK'
  BY DEF VolumeTypesOK, VolumesOK
<1>2. VolumesOK'
  BY DEF VolumeTypesOK, VolumesOK
<1>3. OneCommand'
  BY DEF VolumeTypesOK, VolumesOK, OneCommand, Last
<1>4. QED
  BY <1>1, <1>2, <1>3

LEMMA FindAbsentKeeps ==
  ASSUME VolumeInv, FindAbsent
  PROVE  VolumeInv'
<1> USE DEF VolumeInv, FindAbsent, SetPresence, Stay, Return, ledgerVars, dockerVars, callVars, Tried, Renewed, Spent
<1>1. VolumeTypesOK'
  BY DEF VolumeTypesOK, VolumesOK
<1>2. VolumesOK'
  BY DEF VolumeTypesOK, VolumesOK
<1>3. OneCommand'
  BY DEF VolumeTypesOK, VolumesOK, OneCommand, Last
<1>4. QED
  BY <1>1, <1>2, <1>3

LEMMA InspectKeeps ==
  ASSUME VolumeInv, Inspect
  PROVE  VolumeInv'
<1> USE DEF VolumeInv, Inspect, Look, Stay, ledgerVars, dockerVars, callVars, Tried, Renewed, Spent
<1>1. VolumeTypesOK'
  BY DEF VolumeTypesOK, VolumesOK
<1>2. VolumesOK'
  BY DEF VolumeTypesOK, VolumesOK
<1>3. OneCommand'
  BY DEF VolumeTypesOK, VolumesOK, OneCommand, Last
<1>4. QED
  BY <1>1, <1>2, <1>3

LEMMA InspectAfterKeeps ==
  ASSUME VolumeInv, InspectAfter
  PROVE  VolumeInv'
<1> USE DEF VolumeInv, InspectAfter, Look, Stay, ledgerVars, dockerVars, callVars, Tried, Renewed, Spent
<1>1. VolumeTypesOK'
  BY DEF VolumeTypesOK, VolumesOK
<1>2. VolumesOK'
  BY DEF VolumeTypesOK, VolumesOK
<1>3. OneCommand'
  BY DEF VolumeTypesOK, VolumesOK, OneCommand, Last
<1>4. QED
  BY <1>1, <1>2, <1>3

LEMMA SendCommandKeeps ==
  ASSUME VolumeInv, SendCommand
  PROVE  VolumeInv'
<1> USE DEF VolumeInv, SendCommand, ledgerVars, dockerVars, callVars, Tried, Renewed, Spent
<1>1. VolumeTypesOK'
  BY DEF VolumeTypesOK, VolumesOK
<1>2. VolumesOK'
  BY DEF VolumeTypesOK, VolumesOK
<1>3. OneCommand'
  BY DEF VolumeTypesOK, VolumesOK, OneCommand, Last
<1>4. QED
  BY <1>1, <1>2, <1>3

LEMMA CreateVolumeKeeps ==
  ASSUME VolumeInv, CreateVolume
  PROVE  VolumeInv'
<1> USE DEF VolumeInv, CreateVolume, ledgerVars, dockerVars, callVars, Tried, Renewed, Spent
<1>1. VolumeTypesOK'
  BY DEF VolumeTypesOK, VolumesOK
<1>2. VolumesOK'
  BY DEF VolumeTypesOK, VolumesOK
<1>3. OneCommand'
  BY DEF VolumeTypesOK, VolumesOK, OneCommand, Last
<1>4. QED
  BY <1>1, <1>2, <1>3

LEMMA ObserveKeeps ==
  ASSUME VolumeInv, Observe
  PROVE  VolumeInv'
<1> USE DEF VolumeInv, Observe, Report, Return, ledgerVars, dockerVars, callVars, Tried, Renewed, Spent
<1>1. VolumeTypesOK'
  BY DEF VolumeTypesOK, VolumesOK
<1>2. VolumesOK'
  BY DEF VolumeTypesOK, VolumesOK
<1>3. OneCommand'
  BY DEF VolumeTypesOK, VolumesOK, OneCommand, Last
<1>4. QED
  BY <1>1, <1>2, <1>3

LEMMA InterruptKeeps ==
  ASSUME VolumeInv, Interrupt
  PROVE  VolumeInv'
<1> USE DEF VolumeInv, Interrupt, Stay, Return, ledgerVars, dockerVars, callVars, Tried, Renewed, Spent
<1>1. VolumeTypesOK'
  BY DEF VolumeTypesOK, VolumesOK
<1>2. VolumesOK'
  BY DEF VolumeTypesOK, VolumesOK
<1>3. OneCommand'
  BY DEF VolumeTypesOK, VolumesOK, OneCommand, Last
<1>4. QED
  BY <1>1, <1>2, <1>3

LEMMA OthersKeeps ==
  ASSUME VolumeInv, Others
  PROVE  VolumeInv'
<1> USE DEF VolumeInv, Others, ledgerVars, dockerVars, callVars, Tried, Renewed, Spent
<1>1. VolumeTypesOK'
  BY DEF VolumeTypesOK, VolumesOK
<1>2. VolumesOK'
  BY DEF VolumeTypesOK, VolumesOK
<1>3. OneCommand'
  BY DEF VolumeTypesOK, VolumesOK, OneCommand, Last
<1>4. QED
  BY <1>1, <1>2, <1>3

LEMMA CallKeeps ==
  ASSUME VolumeInv, NEW c \in Calls, Call(c)
  PROVE  VolumeInv'
<1> USE DEF VolumeInv, Call, ledgerVars, dockerVars, callVars, Tried, Renewed, Spent
<1>1. VolumeTypesOK'
  BY DEF VolumeTypesOK, VolumesOK
<1>2. VolumesOK'
  BY DEF VolumeTypesOK, VolumesOK
<1>3. OneCommand'
  BY DEF VolumeTypesOK, VolumesOK, OneCommand, Last
<1>4. QED
  BY <1>1, <1>2, <1>3

LEMMA ServeKeeps ==
  ASSUME VolumeInv, NEW n \in DOMAIN steps, Serve(n)
  PROVE  VolumeInv'
<1> USE DEF VolumeInv, Serve, ledgerVars, dockerVars, callVars, Tried, Renewed, Spent
<1>1. VolumeTypesOK'
  BY DEF VolumeTypesOK, VolumesOK
<1>2. VolumesOK'
  BY DEF VolumeTypesOK, VolumesOK
<1>3. OneCommand'
  BY DEF VolumeTypesOK, VolumesOK, OneCommand, Last
<1>4. QED
  BY <1>1, <1>2, <1>3

LEMMA AdoptOwnedKeeps ==
  ASSUME VolumeInv, AdoptOwned
  PROVE  VolumeInv'
<1> USE DEF VolumeInv
<1>1. /\ stage = "inspected" /\ check = "owned" /\ Tried /\ stage' = "marking"
      /\ UNCHANGED <<dockerVars, told, call, check, created>>
  BY DEF AdoptOwned, Stay, Tried
<1>2. /\ steps' \in Seq(VolumeSteps) /\ Tried' /\ Last' = Last
      /\ UNCHANGED <<presence, attempt, kept>>
  <2>1. CASE Finish(Last, "succeeded")
    <3>1. "succeeded" \in Outcomes
      BY DEF Outcomes
    <3>2. QED
      BY <1>1, <2>1, <3>1, FinishFacts
  <2>2. CASE UNCHANGED <<ledgerVars, kept>>
    BY <1>1, <2>2 DEF ledgerVars, Tried, Last, VolumeTypesOK
  <2>3. QED
    BY <2>1, <2>2 DEF AdoptOwned
<1>3. VolumeTypesOK'
  BY <1>1, <1>2 DEF VolumeTypesOK, dockerVars
<1>4. VolumesOK'
  BY <1>1, <1>2 DEF VolumesOK, dockerVars, Renewed
<1>5. OneCommand'
  BY <1>1, <1>2 DEF OneCommand, dockerVars, Spent
<1>6. QED
  BY <1>3, <1>4, <1>5

LEMMA RecordStepKeeps ==
  ASSUME VolumeInv, RecordStep
  PROVE  VolumeInv'
<1> USE DEF VolumeInv
<1>1. /\ stage = "inspected" /\ check = "absent" /\ stage' = "creating" /\ Retryable
      /\ UNCHANGED <<presence, attempt, call, check, created, kept, dockerVars, told>>
  BY DEF RecordStep, Stay
<1>2. PICK s : s = [attempt |-> attempt, outcome |-> OpenOutcome]
  OBVIOUS
<1>3. s \in VolumeSteps /\ steps' = Append(steps, s)
  BY <1>2 DEF RecordStep, VolumeTypesOK, Outcomes, VolumeSteps
<1>4. /\ steps' \in Seq(VolumeSteps) /\ Tried' /\ steps' # <<>>
  BY <1>3 DEF VolumeTypesOK, Tried
<1>5. VolumeTypesOK'
  BY <1>1, <1>4 DEF VolumeTypesOK, dockerVars
<1>6. VolumesOK'
  BY <1>1, <1>4 DEF VolumesOK, dockerVars, Renewed
<1>7. OneCommand'
  <2>1. ASSUME attempt = 1 PROVE ~Tried /\ sent = {} /\ volume # "own" /\ kept = -1
    BY <1>1, <2>1, TriedOnce DEF VolumesOK, OneCommand
  <2>2. QED
    BY <1>1, <2>1 DEF OneCommand, dockerVars
<1>8. QED
  BY <1>5, <1>6, <1>7

LEMMA SettleKeeps ==
  ASSUME VolumeInv, Settle
  PROVE  VolumeInv'
<1> USE DEF VolumeInv
<1>1. /\ stage = "verified" /\ Tried /\ UNCHANGED <<dockerVars, told>>
  BY DEF Settle, Stay, VolumesOK
<1>2. PICK o \in Outcomes :
        /\ Finish(Last, o)
        /\ \/ check = "owned" /\ stage' = "marking" /\ UNCHANGED check
           \/ stage' = "idle" /\ check' = "none"
           \/ stage' = "doubting" /\ UNCHANGED check
  BY DEF Settle, Return, Outcomes
<1>3. /\ steps' \in Seq(VolumeSteps) /\ Tried' /\ Last' = Last
      /\ UNCHANGED <<presence, attempt, kept>>
  BY <1>1, <1>2, FinishFacts
<1>4. VolumeTypesOK'
  BY <1>1, <1>3 DEF VolumeTypesOK, dockerVars
<1>5. VolumesOK'
  BY <1>1, <1>2, <1>3 DEF VolumesOK, dockerVars, Renewed
<1>6. OneCommand'
  BY <1>1, <1>2, <1>3 DEF OneCommand, dockerVars, Spent
<1>7. QED
  BY <1>4, <1>5, <1>6

LEMMA NextAttemptKeeps ==
  ASSUME VolumeInv, NextAttempt
  PROVE  VolumeInv'
<1> USE DEF VolumeInv
<1>1. /\ stage = "idle" /\ attempt' = attempt + 1
      /\ UNCHANGED <<presence, callVars, kept, dockerVars, told>>
  BY DEF NextAttempt, Stay
<1>2. PICK after : after = [n \in DOMAIN steps |->
        IF steps[n].outcome \in {OpenOutcome, "unknown"}
        THEN [steps[n] EXCEPT !.outcome = IF volume = "own" THEN "succeeded" ELSE "failed"]
        ELSE steps[n]]
  OBVIOUS
<1>3. steps \in Seq(VolumeSteps)
  BY DEF VolumeTypesOK
<1>4. ASSUME NEW n \in DOMAIN steps
      PROVE  after[n] \in VolumeSteps
  <2>1. steps[n] \in VolumeSteps
    BY <1>3
  <2>2. PICK o, s : /\ o = IF volume = "own" THEN "succeeded" ELSE "failed"
                    /\ s = [steps[n] EXCEPT !.outcome = o]
    OBVIOUS
  <2>3. s \in VolumeSteps
    BY <2>1, <2>2 DEF Outcomes, VolumeSteps
  <2>4. after[n] \in {s, steps[n]}
    BY <1>2, <2>2
  <2>5. QED
    BY <2>1, <2>3, <2>4
<1>5. after \in Seq(VolumeSteps) /\ Len(after) = Len(steps)
  BY <1>2, <1>3, <1>4
<1>6. steps' = after
  BY <1>2 DEF NextAttempt
<1>7. Tried' <=> Tried
  BY <1>3, <1>5, <1>6 DEF Tried
<1>8. VolumeTypesOK'
  BY <1>1, <1>5, <1>6 DEF VolumeTypesOK, dockerVars
<1>9. VolumesOK'
  BY <1>1, <1>7 DEF VolumesOK, dockerVars, callVars, Renewed
<1>10. OneCommand'
  BY <1>1 DEF OneCommand, VolumeTypesOK
<1>11. QED
  BY <1>8, <1>9, <1>10

LEMMA VolumeStart ==
  ASSUME VolumeInit
  PROVE  VolumeInv
BY DEF VolumeInit, VolumeInv, VolumeTypesOK, VolumesOK, OneCommand, Tried, Renewed, Spent, Last

LEMMA VolumeStepKeeps ==
  ASSUME VolumeInv, [VolumeNext]_volumeVars
  PROVE  VolumeInv'
<1>1. CASE VolumeNext
  BY <1>1, OthersKeeps, ServeKeeps, CallKeeps, InspectKeeps, AdoptOwnedKeeps, MarkPresentKeeps,
     MarkUnverifiedKeeps, DistrustKeeps, FindMissingKeeps, FindAbsentKeeps, RecordStepKeeps,
     SendCommandKeeps, CreateVolumeKeeps, InspectAfterKeeps, SettleKeeps, ObserveKeeps,
     InterruptKeeps, NextAttemptKeeps DEF VolumeNext
<1>2. CASE UNCHANGED volumeVars
  BY <1>2 DEF volumeVars, ledgerVars, dockerVars, callVars, VolumeInv, VolumeTypesOK, VolumesOK,
     OneCommand, Tried, Renewed, Spent, Last
<1>3. QED
  BY <1>1, <1>2

(* A present volume is the one that was first recorded, none from before is  *)
(* adopted and none is reported as never made that may be, whatever is       *)
(* removed, made by others or served late: ensure, inspect_only and          *)
(* observe_saved_volume of named_volumes.rs.                                 *)
THEOREM OneVolume == VolumeSpec => []SameVolume
<1>1. VolumeInit => VolumeInv
  BY VolumeStart
<1>2. VolumeInv /\ [VolumeNext]_volumeVars => VolumeInv'
  BY VolumeStepKeeps
<1>3. VolumeInv => SameVolume
  BY DEF VolumeInv, VolumeTypesOK, VolumesOK, OneCommand, SameVolume, FirstVolumeStays,
         NothingIsAdopted, UnmaterializedIsTrue
<1>4. QED
  BY <1>1, <1>2, <1>3, PTL DEF VolumeSpec

-------------------------------------------------------------------------------
(***************************************************************************)
(* The bind storage.  The invariant says what a finished create stands     *)
(* for, what an inspection has opened so far and, as long as nothing was   *)
(* changed by others, cut off or overlapped, which directories and files   *)
(* there are at every stage of a create.                                   *)
(***************************************************************************)

Stages == {"none", "collect", "absent", "box", "keep", "marker", "slot", "proof",
           "done", "refused", "aborted"}
Entries == Link..MaxDirs
Dirs == 0..MaxDirs
Proofs == [of : BindInstances \cup {"nobody"}, data : Dirs, box : Dirs, slot : Dirs]
Evidence == [marker : Proofs, proof : Proofs]
Creates == [at : Stages, data : Dirs, own : Dirs, box : Dirs, keep : Dirs, slot : Dirs]
Looks == [of : BindInstances \cup {"nobody"}, at : {"none", "data", "box", "slot"},
          data : Entries, own : Entries, box : Entries, keep : Entries]

StorageTypesOK ==
  /\ entry \in [1..MaxDirs -> [Names -> Entries]]
  /\ evidence \in [1..MaxDirs -> Evidence]
  /\ made \in 1..MaxDirs
  /\ creating \in [BindInstances -> Creates]
  /\ allocation \in [BindInstances -> Proofs]
  /\ looking \in Looks
  /\ changes \in Nat
  /\ overlapped \in BOOLEAN

\* An allocation is what its create made, and stays it.
AllocationsOK ==
  /\ \A i \in BindInstances : allocation[i] # NoFile =>
       /\ creating[i].at = "done" /\ allocation[i] = Proof(i, creating[i])
  /\ \A i \in BindInstances :
       /\ creating[i].at \notin {"none", "refused", "aborted"} => creating[i].data > 0 /\ creating[i].own > 0
       /\ creating[i].at \in {"keep", "marker", "slot", "proof", "done"} => creating[i].box > 0
       /\ creating[i].at \in {"proof", "done"} => creating[i].slot > 0

\* What an inspection has opened is what the allocation names.
LookingOK == looking.at # "none" =>
  /\ looking.of \in BindInstances /\ allocation[looking.of] # NoFile
  /\ steady => Intact(looking.of)
  /\ looking.at \in {"box", "slot"} => looking.data = allocation[looking.of].data
  /\ looking.at = "slot" => looking.box = allocation[looking.of].box

AnswerOK ==
  /\ answer.presence = "present" =>
       /\ answer.of \in BindInstances /\ allocation[answer.of] # NoFile
       /\ answer.slot = allocation[answer.of].slot
  /\ answer # NoAnswer /\ steady => answer.presence = "present"

\* Nobody else changed anything, no create was cut off and none overlapped.
Calm == changes = 0 /\ ~overlapped /\ \A i \in BindInstances : creating[i].at # "aborted"

DataDir == entry[Root]["data"]
OwnDir == entry[Root]["ownership"]

\* What a create has made by then, and nothing else, is there.
Tidy(i) ==
  LET h == creating[i]
  IN /\ h.at # "refused"
     /\ h.at # "none" => DataDir > 0 /\ h.data = DataDir /\ h.own = OwnDir
     /\ DataDir > 0 => entry[DataDir][i] = h.box /\ entry[OwnDir][i] = h.keep
     /\ h.box > 0 => entry[h.box]["slot"] = h.slot
     /\ h.box = 0 <=> h.at \in {"none", "collect", "absent", "box"}
     /\ h.keep = 0 <=> h.at \in {"none", "collect", "absent", "box", "keep"}
     /\ h.slot # 0 <=> h.at \in {"proof", "done"}
     /\ h.at \in {"slot", "proof", "done"} => evidence[h.keep].marker = Marker(i, h)
     /\ h.at = "done" => evidence[h.keep].proof = Proof(i, h)

TidyOK == Calm =>
  /\ DataDir \in 0..made /\ OwnDir \in 0..made
  /\ DataDir = 0 <=> OwnDir = 0
  /\ DataDir > 0 => DataDir # OwnDir
  /\ \A d \in 1..MaxDirs, n \in Names : d > made => entry[d][n] = 0
  /\ \A i \in BindInstances :
       /\ Tidy(i)
       /\ creating[i].box <= made /\ creating[i].keep <= made
  /\ \A i, j \in BindInstances : i # j =>
       /\ ~(Running(i) /\ Running(j))
       /\ creating[i].box > 0 => creating[i].box # creating[j].box
       /\ creating[i].keep > 0 => creating[i].keep # creating[j].keep

StorageInv == StorageTypesOK /\ AllocationsOK /\ LookingOK /\ AnswerOK /\ TidyOK

-------------------------------------------------------------------------------
(* How entries change and what they are. *)
LEMMA EntryFacts ==
  ASSUME StorageTypesOK, NEW d \in 1..MaxDirs, NEW n \in Names, NEW x \in Entries,
         entry' = [entry EXCEPT ![d][n] = x]
  PROVE  /\ entry' \in [1..MaxDirs -> [Names -> Entries]]
         /\ entry'[d][n] = x
         /\ \A e \in 1..MaxDirs, m \in Names : ~(e = d /\ m = n) => entry'[e][m] = entry[e][m]
<1>1. entry \in [1..MaxDirs -> [Names -> Entries]]
  BY DEF StorageTypesOK
<1>2. PICK f : f = [entry[d] EXCEPT ![n] = x]
  OBVIOUS
<1>3. /\ f \in [Names -> Entries] /\ f[n] = x /\ \A m \in Names : m # n => f[m] = entry[d][m]
  BY <1>1, <1>2
<1>4. entry' = [entry EXCEPT ![d] = f]
  BY <1>2
<1>5. QED
  BY <1>1, <1>3, <1>4

LEMMA ChildFacts ==
  ASSUME StorageTypesOK, StorageConstants, NEW d \in Entries, NEW n \in Names
  PROVE  Child(d, n) \in Entries
<1>1. 0 \in Entries
  BY DEF Entries, Link, StorageConstants
<1>2. d > 0 => d \in 1..MaxDirs
  BY DEF Entries, Link, StorageConstants
<1>3. QED
  BY <1>1, <1>2 DEF Child, StorageTypesOK

LEMMA AdvanceFacts ==
  ASSUME StorageTypesOK, NEW i \in BindInstances, NEW h \in Creates, Advance(i, h)
  PROVE  /\ creating' \in [BindInstances -> Creates] /\ creating'[i] = h
         /\ \A j \in BindInstances : j # i => creating'[j] = creating[j]
BY DEF Advance, StorageTypesOK

(* The names differ, and the numbers of the directories are in range. *)
LEMMA ConstantFacts ==
  ASSUME StorageConstants
  PROVE  /\ BindInstances \subseteq Names /\ {"data", "ownership", "slot"} \subseteq Names
         /\ \A i \in BindInstances : i \notin {"data", "ownership", "slot", "nobody"}
         /\ Root \in 1..MaxDirs /\ Root = 1 /\ MaxDirs \in Nat \ {0}
         /\ Dirs = 0..MaxDirs /\ Entries = -1..MaxDirs /\ Link = -1
         /\ \A d \in Dirs : d \in Entries
         /\ Root \in Entries /\ 0 \in Entries
BY DEF StorageConstants, Names, Root, Link, Dirs, Entries

-------------------------------------------------------------------------------
(* The steps of creates, of the user and of Docker leave the inspection be,  *)
(* which has been steady only if its storage is still intact.                *)
LEMMA AsideKeeps ==
  ASSUME StorageConstants, StorageInv, Observed, looking' = looking,
         \A i \in BindInstances : allocation[i] # NoFile => allocation'[i] = allocation[i]
  PROVE  LookingOK' /\ AnswerOK'
<1>1. /\ answer' = NoAnswer
      /\ steady' => \E i \in BindInstances : i = looking.of /\ Intact(i)'
  BY DEF Observed
<1>2. LookingOK'
  <2>1. looking.at # "none" =>
          looking.of \in BindInstances /\ allocation[looking.of] # NoFile
          /\ allocation'[looking.of] = allocation[looking.of]
    BY DEF StorageInv, LookingOK
  <2>2. ASSUME looking'.at # "none", steady' PROVE Intact(looking.of)'
    <3>1. PICK i \in BindInstances : i = looking'.of /\ Intact(i)'
      BY <1>1, <2>2
    <3>2. QED
      BY <3>1
  <2>3. QED
    BY <2>1, <2>2 DEF StorageInv, LookingOK
<1>3. AnswerOK'
  BY <1>1 DEF AnswerOK, NoAnswer
<1>4. QED
  BY <1>2, <1>3

(* An inspection changes nothing but itself. *)
LEMMA BesideKeeps ==
  ASSUME StorageInv, Beside, looking' \in Looks
  PROVE  /\ StorageTypesOK' /\ AllocationsOK' /\ TidyOK'
         /\ \A i : Intact(i)' <=> Intact(i)
<1> USE DEF Beside
<1>1. StorageTypesOK'
  BY DEF StorageInv, StorageTypesOK
<1>2. AllocationsOK'
  BY DEF StorageInv, AllocationsOK
<1>3. \A i : Tidy(i)' <=> Tidy(i)
  BY DEF Tidy, DataDir, OwnDir
<1>4. Calm' <=> Calm
  BY DEF Calm
<1>5. \A i : Running(i)' <=> Running(i)
  BY DEF Running
<1>6. TidyOK'
  BY <1>3, <1>4, <1>5 DEF StorageInv, TidyOK, DataDir, OwnDir
<1>7. \A i : Intact(i)' <=> Intact(i)
  BY DEF Intact, Child, Files
<1>8. QED
  BY <1>1, <1>2, <1>6, <1>7

(* What intact storage looks like to an inspection. *)
LEMMA IntactFacts ==
  ASSUME StorageConstants, StorageInv, NEW i \in BindInstances, Intact(i)
  PROVE  /\ allocation[i] # NoFile
         /\ entry[Root]["data"] = allocation[i].data /\ allocation[i].data \in 1..MaxDirs
         /\ entry[allocation[i].data][i] = allocation[i].box /\ allocation[i].box \in 1..MaxDirs
         /\ entry[allocation[i].box]["slot"] = allocation[i].slot /\ allocation[i].slot \in 1..MaxDirs
<1>1. allocation[i] # NoFile
  BY DEF Intact
<1>2. creating[i] \in Creates /\ creating[i].at = "done" /\ allocation[i] = Proof(i, creating[i])
  BY <1>1 DEF StorageInv, AllocationsOK, StorageTypesOK
<1>3. creating[i].data > 0 /\ creating[i].box > 0 /\ creating[i].slot > 0
  BY <1>2 DEF StorageInv, AllocationsOK
<1>4. /\ allocation[i].data \in 1..MaxDirs /\ allocation[i].box \in 1..MaxDirs
      /\ allocation[i].slot \in 1..MaxDirs
  BY <1>2, <1>3, ConstantFacts DEF Proof, Creates
<1>5. /\ Child(Root, "data") = allocation[i].data
      /\ Child(allocation[i].data, i) = allocation[i].box
      /\ Child(allocation[i].box, "slot") = allocation[i].slot
  BY DEF Intact
<1>6. QED
  BY <1>1, <1>4, <1>5, ConstantFacts DEF Child

LEMMA ReadEvidenceKeeps ==
  ASSUME StorageConstants, StorageInv, NEW i \in BindInstances, ReadEvidence(i)
  PROVE  StorageInv'
<1> DEFINE p == allocation[i]
<1>0. PICK own, keep : own = Child(Root, "ownership") /\ keep = Child(own, i)
  OBVIOUS
<1>1. Beside /\ allocation[i] # NoFile /\ (steady' <=> Intact(i)) /\ allocation' = allocation
  BY DEF ReadEvidence, Beside
<1>2. own \in Entries /\ keep \in Entries
  <2>1. own \in Entries
    BY <1>0, ConstantFacts, ChildFacts DEF StorageInv
  <2>2. QED
    BY <1>0, <2>1, ConstantFacts, ChildFacts DEF StorageInv
<1>3. CASE /\ looking' = [NotLooking EXCEPT !.of = i, !.at = "data", !.own = own, !.keep = keep]
           /\ answer' = NoAnswer
  <2>1. looking' \in Looks /\ looking'.of = i /\ looking'.at = "data"
    <3>1. looking' = [of |-> i, at |-> "data", data |-> 0, own |-> own, box |-> 0, keep |-> keep]
      BY <1>3 DEF NotLooking
    <3>2. QED
      BY <3>1, <1>2, ConstantFacts DEF Looks
  <2>2. /\ StorageTypesOK' /\ AllocationsOK' /\ TidyOK'
        /\ \A j : Intact(j)' <=> Intact(j)
    BY <1>1, <2>1, BesideKeeps
  <2>3. steady' => Intact(looking.of)'
    BY <1>1, <2>1, <2>2
  <2>4. LookingOK'
    BY <1>1, <2>1, <2>3 DEF LookingOK
  <2>5. AnswerOK'
    BY <1>3 DEF AnswerOK, NoAnswer
  <2>6. QED
    BY <2>2, <2>4, <2>5 DEF StorageInv
<1>4. CASE Told(i, "unverified", 0) /\ Files(keep) # [marker |-> Marker(i, p), proof |-> p]
  <2>1. looking' = NotLooking /\ answer' = [of |-> i, presence |-> "unverified", slot |-> 0]
    BY <1>4 DEF Told
  <2>2. looking' \in Looks /\ looking'.at = "none"
    BY <2>1, ConstantFacts DEF NotLooking, Looks
  <2>3. StorageTypesOK' /\ AllocationsOK' /\ TidyOK'
    BY <1>1, <2>2, BesideKeeps
  <2>4. ~steady'
    BY <1>0, <1>1, <1>4 DEF Intact
  <2>5. QED
    BY <2>1, <2>2, <2>3, <2>4 DEF StorageInv, LookingOK, AnswerOK
<1>5. QED
  BY <1>0, <1>3, <1>4 DEF ReadEvidence

(* An inspection that finds no directory, or another one, was not steady. *)
LEMMA ToldKeeps ==
  ASSUME StorageConstants, StorageInv, Beside, NEW i \in BindInstances, NEW what, NEW slot,
         Told(i, what, slot), steady' => what = "present",
         what = "present" => allocation[i] # NoFile /\ slot = allocation[i].slot
  PROVE  StorageInv'
<1>1. looking' = NotLooking /\ answer' = [of |-> i, presence |-> what, slot |-> slot]
  BY DEF Told
<1>2. looking' \in Looks /\ looking'.at = "none"
  BY <1>1, ConstantFacts DEF NotLooking, Looks
<1>3. StorageTypesOK' /\ AllocationsOK' /\ TidyOK'
  BY <1>2, BesideKeeps
<1>4. allocation' = allocation
  BY DEF Beside
<1>5. LookingOK'
  BY <1>2 DEF LookingOK
<1>6. AnswerOK'
  BY <1>1, <1>4 DEF AnswerOK
<1>7. QED
  BY <1>3, <1>5, <1>6 DEF StorageInv

LEMMA EnterDataKeeps ==
  ASSUME StorageConstants, StorageInv, NEW i \in BindInstances, EnterData(i)
  PROVE  StorageInv'
<1> DEFINE found == entry[Root]["data"]
<1>1. Beside /\ steady' = steady /\ looking.of = i /\ looking.at = "data" /\ allocation' = allocation
  BY DEF EnterData, EnterDirectory, Beside
<1>2. steady => Intact(i)
  BY <1>1 DEF StorageInv, LookingOK
<1>3. steady => found # 0 /\ found # Link /\ found = allocation[i].data
  BY <1>2, IntactFacts, ConstantFacts
<1>4. CASE found = 0 /\ Told(i, "missing", 0)
  BY <1>1, <1>3, <1>4, ToldKeeps
<1>5. CASE (found = Link \/ found # allocation[i].data) /\ Told(i, "unverified", 0)
  BY <1>1, <1>3, <1>5, ToldKeeps
<1>6. CASE /\ found # 0 /\ found # Link /\ found = allocation[i].data
           /\ looking' = [looking EXCEPT !.at = "box", !.data = found] /\ UNCHANGED answer
  <2>1. found \in Entries
    BY ConstantFacts DEF StorageInv, StorageTypesOK
  <2>2. looking' \in Looks /\ looking'.at = "box" /\ looking'.of = i /\ looking'.data = allocation[i].data
    BY <1>1, <1>6, <2>1 DEF StorageInv, StorageTypesOK, Looks
  <2>3. /\ StorageTypesOK' /\ AllocationsOK' /\ TidyOK'
        /\ \A j : Intact(j)' <=> Intact(j)
    BY <1>1, <2>2, BesideKeeps
  <2>4. steady' => Intact(looking.of)'
    BY <1>1, <1>2, <2>2, <2>3
  <2>5. LookingOK'
    BY <1>1, <2>2, <2>4 DEF StorageInv, LookingOK
  <2>6. AnswerOK'
    BY <1>1, <1>6 DEF StorageInv, AnswerOK
  <2>7. QED
    BY <2>3, <2>5, <2>6 DEF StorageInv
<1>7. QED
  BY <1>4, <1>5, <1>6 DEF EnterData, EnterDirectory, SameDirectory

LEMMA EnterBoxKeeps ==
  ASSUME StorageConstants, StorageInv, NEW i \in BindInstances, EnterBox(i)
  PROVE  StorageInv'
<1> DEFINE found == entry[looking.data][i]
<1>1. Beside /\ steady' = steady /\ looking.of = i /\ looking.at = "box" /\ allocation' = allocation
  BY DEF EnterBox, EnterDirectory, Beside
<1>2. /\ steady => Intact(i)
      /\ looking.data = allocation[i].data /\ allocation[i] # NoFile
  BY <1>1 DEF StorageInv, LookingOK
<1>3. steady => found # 0 /\ found # Link /\ found = allocation[i].box
  BY <1>2, IntactFacts, ConstantFacts
<1>4. CASE found = 0 /\ Told(i, "missing", 0)
  BY <1>1, <1>3, <1>4, ToldKeeps
<1>5. CASE (found = Link \/ found # allocation[i].box) /\ Told(i, "unverified", 0)
  BY <1>1, <1>3, <1>5, ToldKeeps
<1>6. CASE /\ found # 0 /\ found # Link /\ found = allocation[i].box
           /\ looking' = [looking EXCEPT !.at = "slot", !.box = found] /\ UNCHANGED answer
  <2>1. found \in Entries
    <3>1. allocation[i] \in Proofs
      BY DEF StorageInv, StorageTypesOK
    <3>2. QED
      BY <1>6, <3>1, ConstantFacts DEF Proofs
  <2>2. /\ looking' \in Looks /\ looking'.at = "slot" /\ looking'.of = i
        /\ looking'.box = allocation[i].box /\ looking'.data = looking.data
    BY <1>1, <1>6, <2>1 DEF StorageInv, StorageTypesOK, Looks
  <2>3. /\ StorageTypesOK' /\ AllocationsOK' /\ TidyOK'
        /\ \A j : Intact(j)' <=> Intact(j)
    BY <1>1, <2>2, BesideKeeps
  <2>4. steady' => Intact(looking.of)'
    BY <1>1, <1>2, <2>2, <2>3
  <2>5. LookingOK'
    BY <1>1, <1>2, <2>2, <2>4 DEF LookingOK
  <2>6. AnswerOK'
    BY <1>1, <1>6 DEF StorageInv, AnswerOK
  <2>7. QED
    BY <2>3, <2>5, <2>6 DEF StorageInv
<1>7. QED
  BY <1>4, <1>5, <1>6 DEF EnterBox, EnterDirectory, SameDirectory

LEMMA EnterSlotKeeps ==
  ASSUME StorageConstants, StorageInv, NEW i \in BindInstances, EnterSlot(i)
  PROVE  StorageInv'
<1> DEFINE found == entry[looking.box]["slot"]
<1>1. Beside /\ steady' = steady /\ looking.of = i /\ looking.at = "slot" /\ allocation' = allocation
  BY DEF EnterSlot, EnterDirectory, Beside
<1>2. /\ steady => Intact(i)
      /\ looking.box = allocation[i].box /\ allocation[i] # NoFile
  BY <1>1 DEF StorageInv, LookingOK
<1>3. steady => found # 0 /\ found # Link /\ found = allocation[i].slot
  BY <1>2, IntactFacts, ConstantFacts
<1>4. CASE found = 0 /\ Told(i, "missing", 0)
  BY <1>1, <1>3, <1>4, ToldKeeps
<1>5. CASE (found = Link \/ found # allocation[i].slot) /\ Told(i, "unverified", 0)
  BY <1>1, <1>3, <1>5, ToldKeeps
<1>6. CASE found = allocation[i].slot /\ Told(i, "present", found)
  BY <1>1, <1>2, <1>6, ToldKeeps
<1>7. QED
  BY <1>4, <1>5, <1>6 DEF EnterSlot, EnterDirectory, SameDirectory

LEMMA InspectSavedKeeps ==
  ASSUME StorageConstants, StorageInv, NEW i \in BindInstances, InspectSaved(i)
  PROVE  StorageInv'
<1>1. PICK what : what \in {"not materialized", "unverified"} /\ Told(i, what, 0)
  BY DEF InspectSaved
<1>2. Beside /\ ~steady'
  BY DEF InspectSaved
<1>3. QED
  BY <1>1, <1>2, ToldKeeps

-------------------------------------------------------------------------------
(* What a create's step leaves as it is: the allocations, the storage of the *)
(* other instances, and the calm in which they have been made.               *)
LEMMA AllocationsStay ==
  ASSUME StorageInv, NEW i \in BindInstances, NEW h \in Creates, Advance(i, h),
         creating[i].at # "done", h.at # "done", allocation' = allocation,
         h.at \notin {"none", "refused", "aborted"} => h.data > 0 /\ h.own > 0,
         h.at \in {"keep", "marker", "slot", "proof"} => h.box > 0,
         h.at = "proof" => h.slot > 0
  PROVE  AllocationsOK'
<1>1. creating'[i] = h /\ \A j \in BindInstances : j # i => creating'[j] = creating[j]
  BY AdvanceFacts DEF StorageInv
<1>2. allocation[i] = NoFile
  BY DEF StorageInv, AllocationsOK
<1>3. QED
  BY <1>1, <1>2 DEF StorageInv, AllocationsOK

LEMMA CalmBefore ==
  ASSUME NEW i \in BindInstances, \A j \in BindInstances : j # i => creating'[j] = creating[j],
         creating[i].at # "aborted", UNCHANGED changes, overlapped => overlapped', Calm'
  PROVE  Calm
BY DEF Calm

LEMMA CalmFacts ==
  ASSUME StorageConstants, StorageInv, Calm, NEW i \in BindInstances
  PROVE  /\ Tidy(i) /\ creating[i] \in Creates
         /\ DataDir \in 0..made /\ OwnDir \in 0..made /\ made \in 1..MaxDirs
         /\ DataDir = 0 <=> OwnDir = 0
         /\ DataDir > 0 => DataDir # OwnDir
         /\ creating[i].box \in 0..made /\ creating[i].keep \in 0..made
         /\ \A d \in 1..MaxDirs, n \in Names : d > made => entry[d][n] = 0
<1>1. creating[i] \in Creates /\ made \in 1..MaxDirs
  BY DEF StorageInv, StorageTypesOK
<1>2. creating[i].box \in Dirs /\ creating[i].keep \in Dirs
  BY <1>1 DEF Creates
<1>3. QED
  BY <1>1, <1>2, ConstantFacts DEF StorageInv, TidyOK

LEMMA OneAtATime ==
  ASSUME StorageInv, Calm, NEW i \in BindInstances, NEW j \in BindInstances, i # j
  PROVE  /\ ~(Running(i) /\ Running(j))
         /\ creating[i].box > 0 => creating[i].box # creating[j].box
         /\ creating[i].keep > 0 => creating[i].keep # creating[j].keep
BY DEF StorageInv, TidyOK

LEMMA StaysTidy ==
  ASSUME NEW j \in BindInstances, Tidy(j), creating'[j] = creating[j],
         DataDir' = DataDir, OwnDir' = OwnDir,
         DataDir > 0 => entry'[DataDir][j] = entry[DataDir][j] /\ entry'[OwnDir][j] = entry[OwnDir][j],
         creating[j].box > 0 => entry'[creating[j].box]["slot"] = entry[creating[j].box]["slot"],
         creating[j].keep > 0 => evidence'[creating[j].keep] = evidence[creating[j].keep],
         creating[j].keep \in Nat
  PROVE  Tidy(j)'
<1>1. creating[j].at \in {"slot", "proof", "done"} => creating[j].keep > 0
  BY DEF Tidy
<1>2. QED
  BY <1>1 DEF Tidy

(* A step that is refused, or cut off, gives the calm up or had none. *)
LEMMA NoCalmKeeps ==
  ASSUME StorageConstants, StorageInv, NEW i \in BindInstances, NEW at \in {"refused", "aborted"},
         Advance(i, [creating[i] EXCEPT !.at = at]), Aside,
         UNCHANGED <<entry, evidence, made, allocation>>,
         creating[i].at \notin {"done", "aborted"}, at = "refused" => ~Calm,
         overlapped' \in BOOLEAN, overlapped => overlapped'
  PROVE  StorageInv'
<1>1. PICK h : h = [creating[i] EXCEPT !.at = at]
  OBVIOUS
<1>2. h \in Creates /\ h.at = at /\ Advance(i, h)
  BY <1>1 DEF StorageInv, StorageTypesOK, Creates, Stages
<1>3. /\ creating' \in [BindInstances -> Creates] /\ creating'[i] = h
      /\ \A j \in BindInstances : j # i => creating'[j] = creating[j]
  BY <1>2, AdvanceFacts DEF StorageInv
<1>4. StorageTypesOK'
  BY <1>3 DEF StorageInv, StorageTypesOK, Aside
<1>5. AllocationsOK'
  BY <1>2, AllocationsStay
<1>6. LookingOK' /\ AnswerOK'
  BY AsideKeeps DEF Aside
<1>7. ~Calm'
  <2>1. CASE at = "refused"
    BY <2>1, <1>3, CalmBefore DEF Aside
  <2>2. CASE at = "aborted"
    BY <2>2, <1>2, <1>3 DEF Calm
  <2>3. QED
    BY <2>1, <2>2
<1>8. QED
  BY <1>4, <1>5, <1>6, <1>7 DEF StorageInv, TidyOK

LEMMA RefuseKeeps ==
  ASSUME StorageConstants, StorageInv, NEW i \in BindInstances, Refuse(i), Aside, ~Calm,
         creating[i].at \notin {"done", "aborted"},
         overlapped' \in BOOLEAN, overlapped => overlapped'
  PROVE  StorageInv'
<1>1. /\ Advance(i, [creating[i] EXCEPT !.at = "refused"])
      /\ UNCHANGED <<entry, evidence, made, allocation>>
  BY DEF Refuse
<1>2. QED
  BY <1>1, NoCalmKeeps

LEMMA AbortKeeps ==
  ASSUME StorageConstants, StorageInv, NEW i \in BindInstances, Abort(i)
  PROVE  StorageInv'
<1>1. creating[i].at \notin {"done", "aborted"} /\ Aside /\ overlapped' = overlapped
  BY DEF Abort, Running
<1>2. overlapped \in BOOLEAN
  BY DEF StorageInv, StorageTypesOK
<1>3. /\ Advance(i, [creating[i] EXCEPT !.at = "aborted"])
      /\ UNCHANGED <<entry, evidence, made, allocation>>
  BY DEF Abort
<1>4. QED
  BY <1>1, <1>2, <1>3, NoCalmKeeps

-------------------------------------------------------------------------------
(* The steps of a create, in their order. *)

LEMMA EnsureTopKeeps ==
  ASSUME StorageConstants, StorageInv, NEW i \in BindInstances, EnsureTop(i)
  PROVE  StorageInv'
<1>0. /\ creating[i].at = "none" /\ Aside
      /\ overlapped' = (overlapped \/ \E j \in BindInstances \ {i} : Running(j))
      /\ overlapped \in BOOLEAN
  BY DEF EnsureTop, StorageInv, StorageTypesOK
<1>1. PICK data, own, count :
        /\ data = IF DataDir = 0 THEN made + 1 ELSE DataDir
        /\ own = IF OwnDir # 0 THEN OwnDir ELSE IF DataDir = 0 THEN made + 2 ELSE made + 1
        /\ count = (IF DataDir = 0 THEN 1 ELSE 0) + (IF OwnDir = 0 THEN 1 ELSE 0)
  OBVIOUS
<1>2. IF data = Link \/ own = Link THEN Refuse(i)
      ELSE /\ made + count <= MaxDirs
           /\ made' = made + count
           /\ entry' = [entry EXCEPT ![Root]["data"] = data, ![Root]["ownership"] = own]
           /\ Advance(i, [None EXCEPT !.at = "collect", !.data = data, !.own = own])
           /\ UNCHANGED <<evidence, allocation>>
  BY <1>1 DEF EnsureTop, DataDir, OwnDir
<1>3. made \in 1..MaxDirs /\ DataDir \in Entries /\ OwnDir \in Entries
  BY ConstantFacts DEF StorageInv, StorageTypesOK, DataDir, OwnDir
<1>4. CASE data = Link \/ own = Link
  <2>1. ~Calm
    <3>1. ASSUME Calm PROVE DataDir >= 0 /\ OwnDir >= 0
      BY <3>1, CalmFacts, <1>3, ConstantFacts
    <3>2. QED
      BY <3>1, <1>1, <1>3, <1>4, ConstantFacts
  <2>2. QED
    BY <1>0, <1>2, <1>4, <2>1, RefuseKeeps
<1>5. CASE ~(data = Link \/ own = Link)
  <2>0. /\ made + count <= MaxDirs /\ made' = made + count
        /\ entry' = [entry EXCEPT ![Root]["data"] = data, ![Root]["ownership"] = own]
        /\ UNCHANGED <<evidence, allocation, platform, looking, changes>> /\ Observed
    BY <1>0, <1>2, <1>5 DEF Aside
  <2>1. data \in 1..MaxDirs /\ own \in 1..MaxDirs /\ made' \in 1..MaxDirs /\ made <= made'
    BY <1>1, <1>3, <1>5, <2>0, ConstantFacts
  <2>2. PICK h : h = [None EXCEPT !.at = "collect", !.data = data, !.own = own]
    OBVIOUS
  <2>3. h = [at |-> "collect", data |-> data, own |-> own, box |-> 0, keep |-> 0, slot |-> 0]
    BY <2>2 DEF None
  <2>4. h \in Creates /\ Advance(i, h)
    BY <1>2, <1>5, <2>1, <2>2, <2>3, ConstantFacts DEF Creates, Stages
  <2>5. /\ creating' \in [BindInstances -> Creates] /\ creating'[i] = h
        /\ \A j \in BindInstances : j # i => creating'[j] = creating[j]
    BY <2>4, AdvanceFacts DEF StorageInv
  <2>6. /\ entry' \in [1..MaxDirs -> [Names -> Entries]]
        /\ entry'[Root]["data"] = data /\ entry'[Root]["ownership"] = own
        /\ \A d \in 1..MaxDirs, n \in Names :
             d # Root \/ n \notin {"data", "ownership"} => entry'[d][n] = entry[d][n]
    <3>1. PICK f : f = [entry[Root] EXCEPT !["data"] = data, !["ownership"] = own]
      OBVIOUS
    <3>2. entry[Root] \in [Names -> Entries] /\ data \in Entries /\ own \in Entries
      <4>1. entry[Root] \in [Names -> Entries]
        BY ConstantFacts DEF StorageInv, StorageTypesOK
      <4>2. data \in Entries /\ own \in Entries
        BY <2>1, ConstantFacts
      <4>3. QED
        BY <4>1, <4>2
    <3>3. /\ f \in [Names -> Entries] /\ f["data"] = data /\ f["ownership"] = own
          /\ \A n \in Names : n \notin {"data", "ownership"} => f[n] = entry[Root][n]
      BY <3>1, <3>2, ConstantFacts
    <3>4. entry' = [entry EXCEPT ![Root] = f]
      BY <2>0, <3>1
    <3>5. QED
      BY <3>3, <3>4, ConstantFacts DEF StorageInv, StorageTypesOK
  <2>7. StorageTypesOK'
    BY <1>0, <2>0, <2>1, <2>5, <2>6 DEF StorageInv, StorageTypesOK
  <2>8. AllocationsOK'
    BY <1>0, <2>0, <2>1, <2>3, <2>4, AllocationsStay
  <2>9. LookingOK' /\ AnswerOK'
    BY <2>0, AsideKeeps
  <2>10. ASSUME Calm' PROVE TidyOK'
    <3>1. Calm /\ \A j \in BindInstances : j # i => ~Running(j)
      <4>1. ~overlapped'
        BY <2>10 DEF Calm
      <4>2. QED
        BY <1>0, <2>0, <2>5, <2>10, <4>1, CalmBefore
    <3>2. DataDir' = data /\ OwnDir' = own
      BY <2>6 DEF DataDir, OwnDir
    <3>3. DataDir \in 0..made /\ OwnDir \in 0..made /\ (DataDir = 0 <=> OwnDir = 0)
          /\ (DataDir > 0 => DataDir # OwnDir)
          /\ \A d \in 1..MaxDirs, n \in Names : d > made => entry[d][n] = 0
      BY <3>1, CalmFacts
    <3>4. data \in 1..made' /\ own \in 1..made' /\ data # own
      BY <1>1, <1>3, <2>0, <3>3, ConstantFacts
    <3>5. \A d \in 1..MaxDirs, n \in Names : d > made' => entry'[d][n] = 0
      <4>1. ASSUME NEW d \in 1..MaxDirs, NEW n \in Names, d > made' PROVE entry'[d][n] = 0
        <5>1. d > made /\ d # Root
          BY <1>3, <2>1, <4>1, ConstantFacts
        <5>2. entry'[d][n] = entry[d][n]
          BY <2>6, <5>1
        <5>3. QED
          BY <3>3, <5>1, <5>2
      <4>2. QED
        BY <4>1
    <3>6. ASSUME NEW j \in BindInstances
          PROVE  Tidy(j)' /\ creating'[j].box <= made' /\ creating'[j].keep <= made'
      <4>1. /\ Tidy(j) /\ creating[j].box \in 0..made /\ creating[j].keep \in 0..made
            /\ creating[j] \in Creates
        BY <3>1, CalmFacts
      <4>2. CASE DataDir = 0
        <5>1. data = made + 1 /\ own = made + 2 /\ made' = made + 2
          BY <1>1, <1>3, <2>0, <3>3, <4>2
        <5>2. entry'[data][j] = 0 /\ entry'[own][j] = 0
          <6>1. data # Root /\ own # Root /\ data > made /\ own > made
            BY <1>3, <5>1, ConstantFacts
          <6>2. j \in Names
            BY ConstantFacts
          <6>3. entry'[data][j] = entry[data][j] /\ entry'[own][j] = entry[own][j]
            BY <2>1, <2>6, <6>1, <6>2
          <6>4. entry[data][j] = 0 /\ entry[own][j] = 0
            BY <2>1, <3>3, <6>1, <6>2
          <6>5. QED
            BY <6>3, <6>4
        <5>3. creating[j].at = "none" /\ creating[j].box = 0 /\ creating[j].keep = 0 /\ creating[j].slot = 0
          BY <4>1, <4>2 DEF Tidy
        <5>4. /\ creating'[j].at \in {"none", "collect"} /\ creating'[j].box = 0
              /\ creating'[j].keep = 0 /\ creating'[j].slot = 0
              /\ creating'[j].at # "none" => creating'[j].data = data /\ creating'[j].own = own
          BY <2>3, <2>5, <5>3
        <5>5. Tidy(j)'
          BY <2>1, <3>2, <5>2, <5>4, ConstantFacts DEF Tidy
        <5>6. QED
          BY <5>4, <5>5, <2>1, ConstantFacts
      <4>3. CASE DataDir # 0
        <5>1. data = DataDir /\ own = OwnDir /\ made' = made
          BY <1>1, <1>3, <2>0, <3>3, <4>3
        <5>2. entry'[data][j] = entry[DataDir][j] /\ entry'[own][j] = entry[OwnDir][j]
          BY <2>1, <2>6, <5>1, ConstantFacts
        <5>3. creating[j].box > 0 => entry'[creating[j].box]["slot"] = entry[creating[j].box]["slot"]
          <6>1. "slot" \in Names /\ "slot" \notin {"data", "ownership"}
            BY ConstantFacts
          <6>2. creating[j].box > 0 => creating[j].box \in 1..MaxDirs
            BY <1>3, <4>1, ConstantFacts
          <6>3. QED
            BY <2>6, <6>1, <6>2
        <5>4. CASE j # i
          <6>1. creating'[j] = creating[j]
            BY <2>5, <5>4
          <6>2. Tidy(j)'
            <7>1. DataDir' = DataDir /\ OwnDir' = OwnDir /\ evidence' = evidence
              BY <2>0, <3>2, <5>1
            <7>2. entry'[DataDir][j] = entry[DataDir][j] /\ entry'[OwnDir][j] = entry[OwnDir][j]
              BY <5>1, <5>2
            <7>3. creating[j].keep \in Nat
              BY <4>1, <1>3
            <7>4. QED
              BY <4>1, <5>3, <6>1, <7>1, <7>2, <7>3, StaysTidy
          <6>3. QED
            BY <4>1, <5>1, <6>1, <6>2, <1>3, ConstantFacts
        <5>5. CASE j = i
          <6>1. creating[j].box = 0 /\ creating[j].keep = 0 /\ creating[j].slot = 0
            BY <1>0, <4>1, <5>5 DEF Tidy
          <6>2. entry'[data][j] = 0 /\ entry'[own][j] = 0
            BY <4>1, <4>3, <3>3, <5>2, <6>1, <1>3, ConstantFacts DEF Tidy
          <6>3. Tidy(j)'
            BY <2>1, <2>3, <2>5, <3>2, <5>5, <6>2, ConstantFacts DEF Tidy
          <6>4. QED
            BY <2>1, <2>3, <2>5, <5>5, <6>3, ConstantFacts
        <5>6. QED
          BY <5>4, <5>5
      <4>4. QED
        BY <4>2, <4>3
    <3>7. ASSUME NEW k \in BindInstances, NEW j \in BindInstances, k # j
          PROVE  /\ ~(Running(k)' /\ Running(j)')
                 /\ creating'[k].box > 0 => creating'[k].box # creating'[j].box
                 /\ creating'[k].keep > 0 => creating'[k].keep # creating'[j].keep
      <4>1. \A m \in BindInstances : m # i => ~Running(m)'
        BY <2>5, <3>1 DEF Running
      <4>2. /\ creating[i].box = 0 /\ creating[i].keep = 0
        BY <1>0, <3>1, CalmFacts DEF Tidy
      <4>3. \A m \in BindInstances : creating'[m].box = creating[m].box /\ creating'[m].keep = creating[m].keep
        BY <2>3, <2>5, <4>2
      <4>4. QED
        BY <3>1, <3>7, <4>1, <4>3, OneAtATime
    <3>8. QED
      BY <3>2, <3>4, <3>5, <3>6, <3>7, <1>3, <2>1, ConstantFacts DEF TidyOK
  <2>11. QED
    BY <2>7, <2>8, <2>9, <2>10 DEF StorageInv, TidyOK
<1>6. QED
  BY <1>4, <1>5

(* One create runs while it is calm; what the others have made is not        *)
(* touched by its step.                                                      *)
LEMMA StepStaysTidy ==
  ASSUME StorageConstants, StorageInv, Calm, NEW i \in BindInstances, Running(i),
         NEW h \in Creates, Advance(i, h), DataDir' = DataDir, OwnDir' = OwnDir,
         made' \in made..MaxDirs,
         \A d \in 1..MaxDirs, n \in Names : d > made' => entry'[d][n] = 0,
         \A j \in BindInstances : j # i =>
           /\ DataDir > 0 => entry'[DataDir][j] = entry[DataDir][j] /\ entry'[OwnDir][j] = entry[OwnDir][j]
           /\ creating[j].box > 0 => entry'[creating[j].box]["slot"] = entry[creating[j].box]["slot"]
           /\ creating[j].keep > 0 => evidence'[creating[j].keep] = evidence[creating[j].keep],
         Tidy(i)', h.box \in 0..made', h.keep \in 0..made',
         h.box \in {0, creating[i].box} \/ h.box > made,
         h.keep \in {0, creating[i].keep} \/ h.keep > made
  PROVE  TidyOK'
<1>1. /\ creating'[i] = h
      /\ \A j \in BindInstances : j # i => creating'[j] = creating[j]
  BY AdvanceFacts DEF StorageInv
<1>2. /\ DataDir \in 0..made /\ OwnDir \in 0..made /\ (DataDir = 0 <=> OwnDir = 0)
      /\ (DataDir > 0 => DataDir # OwnDir) /\ made \in 1..MaxDirs
  BY CalmFacts
<1>3. \A j \in BindInstances : creating[j].box \in 0..made /\ creating[j].keep \in 0..made /\ Tidy(j)
  BY CalmFacts
<1>4. ASSUME NEW j \in BindInstances
      PROVE  Tidy(j)' /\ creating'[j].box <= made' /\ creating'[j].keep <= made'
  <2>1. CASE j = i
    BY <2>1, <1>1, <1>2, ConstantFacts
  <2>2. CASE j # i
    <3>1. creating'[j] = creating[j] /\ creating[j].keep \in Nat /\ Tidy(j)
      BY <2>2, <1>1, <1>2, <1>3
    <3>2. Tidy(j)'
      BY <2>2, <3>1, StaysTidy
    <3>3. QED
      BY <3>1, <3>2, <1>2, <1>3, ConstantFacts
  <2>3. QED
    BY <2>1, <2>2
<1>5. ASSUME NEW k \in BindInstances, NEW j \in BindInstances, k # j
      PROVE  /\ ~(Running(k)' /\ Running(j)')
             /\ creating'[k].box > 0 => creating'[k].box # creating'[j].box
             /\ creating'[k].keep > 0 => creating'[k].keep # creating'[j].keep
  <2>1. \A m \in BindInstances : m # i => ~Running(m)' /\ ~Running(m)
    <3>1. ASSUME NEW m \in BindInstances, m # i PROVE ~Running(m)' /\ ~Running(m)
      <4>1. ~Running(m)
        BY <3>1, OneAtATime
      <4>2. QED
        BY <3>1, <4>1, <1>1 DEF Running
    <3>2. QED
      BY <3>1
  <2>2. \A m \in BindInstances : m # i =>
          /\ h.box > 0 => h.box # creating[m].box
          /\ h.keep > 0 => h.keep # creating[m].keep
    <3>1. ASSUME NEW m \in BindInstances, m # i
          PROVE  /\ h.box > 0 => h.box # creating[m].box
                 /\ h.keep > 0 => h.keep # creating[m].keep
      <4>1. /\ creating[i].box > 0 => creating[i].box # creating[m].box
            /\ creating[i].keep > 0 => creating[i].keep # creating[m].keep
        BY <3>1, OneAtATime
      <4>2. creating[m].box <= made /\ creating[m].keep <= made
        BY <1>2, <1>3
      <4>3. QED
        BY <4>1, <4>2, <1>2, <1>3
    <3>2. QED
      BY <3>1
  <2>3. CASE k # i /\ j # i
    BY <2>3, <2>1, <1>1, <1>5, OneAtATime
  <2>4. CASE k = i
    BY <2>4, <2>1, <2>2, <1>1, <1>5
  <2>5. CASE j = i
    BY <2>5, <2>1, <2>2, <1>1, <1>3, <1>5
  <2>6. QED
    BY <2>3, <2>4, <2>5
<1>6. QED
  BY <1>2, <1>4, <1>5, ConstantFacts DEF TidyOK

(* What stands in the way of a create that runs in the calm: nothing. *)
LEMMA RunsFreely ==
  ASSUME StorageConstants, StorageInv, Calm, NEW i \in BindInstances, Running(i)
  PROVE  /\ creating[i] \in Creates /\ Tidy(i)
         /\ DataDir \in 1..made /\ OwnDir \in 1..made /\ DataDir # OwnDir /\ made \in 1..MaxDirs
         /\ creating[i].data = DataDir /\ creating[i].own = OwnDir
         /\ entry[DataDir][i] = creating[i].box /\ entry[OwnDir][i] = creating[i].keep
         /\ creating[i].box \in 0..made /\ creating[i].keep \in 0..made
         /\ creating[i].box > 0 => entry[creating[i].box]["slot"] = creating[i].slot
<1>1. /\ creating[i] \in Creates /\ Tidy(i)
      /\ DataDir \in 0..made /\ OwnDir \in 0..made /\ made \in 1..MaxDirs
      /\ (DataDir = 0 <=> OwnDir = 0)
      /\ (DataDir > 0 => DataDir # OwnDir)
      /\ creating[i].box \in 0..made /\ creating[i].keep \in 0..made
  BY CalmFacts
<1>2. creating[i].at # "none"
  BY DEF Running
<1>3. /\ DataDir > 0 /\ creating[i].data = DataDir /\ creating[i].own = OwnDir
      /\ entry[DataDir][i] = creating[i].box /\ entry[OwnDir][i] = creating[i].keep
      /\ creating[i].box > 0 => entry[creating[i].box]["slot"] = creating[i].slot
  BY <1>1, <1>2 DEF Tidy
<1>4. QED
  BY <1>1, <1>3

(* A check that is passed: nothing but the stage changes. *)
LEMMA PassKeeps ==
  ASSUME StorageConstants, StorageInv, NEW i \in BindInstances, creating[i].at \in {"collect", "absent"},
         NEW at \in {"absent", "box"}, Advance(i, [creating[i] EXCEPT !.at = at]),
         UNCHANGED <<entry, evidence, made, allocation, overlapped>>, Aside
  PROVE  StorageInv'
<1>1. PICK h : h = [creating[i] EXCEPT !.at = at]
  OBVIOUS
<1>2. /\ h \in Creates /\ h.at = at /\ h.data = creating[i].data /\ h.own = creating[i].own
      /\ h.box = creating[i].box /\ h.keep = creating[i].keep /\ h.slot = creating[i].slot
      /\ Advance(i, h)
  BY <1>1 DEF StorageInv, StorageTypesOK, Creates, Stages
<1>3. /\ creating' \in [BindInstances -> Creates] /\ creating'[i] = h
      /\ \A j \in BindInstances : j # i => creating'[j] = creating[j]
  BY <1>2, AdvanceFacts DEF StorageInv
<1>4. StorageTypesOK'
  BY <1>3 DEF StorageInv, StorageTypesOK, Aside
<1>5. creating[i].data > 0 /\ creating[i].own > 0
  BY DEF StorageInv, AllocationsOK
<1>6. AllocationsOK'
  BY <1>2, <1>5, AllocationsStay
<1>7. LookingOK' /\ AnswerOK'
  BY AsideKeeps DEF Aside
<1>8. ASSUME Calm' PROVE TidyOK'
  <2>1. Calm /\ Running(i)
    BY <1>3, <1>8, CalmBefore DEF Aside, Running
  <2>2. DataDir' = DataDir /\ OwnDir' = OwnDir
    BY DEF DataDir, OwnDir
  <2>3. Tidy(i)'
    BY <1>2, <1>3, <2>1, <2>2, RunsFreely DEF Tidy
  <2>4. /\ h.box \in 0..made' /\ h.keep \in 0..made' /\ made' \in made..MaxDirs
        /\ \A d \in 1..MaxDirs, n \in Names : d > made' => entry'[d][n] = 0
    BY <1>2, <2>1, CalmFacts, ConstantFacts
  <2>5. QED
    BY <1>2, <2>1, <2>2, <2>3, <2>4, StepStaysTidy
<1>9. QED
  BY <1>4, <1>6, <1>7, <1>8 DEF StorageInv, TidyOK

LEMMA CollectKeeps ==
  ASSUME StorageConstants, StorageInv, NEW i \in BindInstances, Collect(i)
  PROVE  StorageInv'
<1>1. creating[i].at = "collect" /\ Aside /\ overlapped' = overlapped /\ overlapped \in BOOLEAN
  BY DEF Collect, StorageInv, StorageTypesOK
<1>2. PICK h : h = creating[i]
  OBVIOUS
<1>3. CASE Refuse(i) /\ ~(/\ entry[Root]["data"] = h.data
                          /\ \A j \in BindInstances : entry[h.data][j] = 0 \/ Accounted(j, h))
  <2>1. ASSUME Calm PROVE FALSE
    <3>1. /\ h.data = DataDir /\ DataDir \in 1..made /\ h.own = OwnDir /\ OwnDir \in 1..made
          /\ h \in Creates /\ made \in 1..MaxDirs /\ Running(i)
      BY <1>1, <1>2, <2>1, RunsFreely DEF Running
    <3>2. ASSUME NEW j \in BindInstances, entry[h.data][j] # 0 PROVE Accounted(j, h)
      <4>1. PICK g : g = creating[j]
        OBVIOUS
      <4>2. Tidy(j) /\ g \in Creates /\ g.box \in 0..made /\ g.keep \in 0..made
        BY <2>1, <4>1, CalmFacts
      <4>3. entry[DataDir][j] = g.box /\ entry[OwnDir][j] = g.keep /\ g.box # 0
        BY <3>1, <3>2, <4>1, <4>2 DEF Tidy
      <4>4. g.at \notin {"none", "collect", "absent", "box"} /\ g.at # "refused"
        BY <4>1, <4>2, <4>3 DEF Tidy
      <4>5. ~Running(j) /\ g.at # "aborted"
        BY <1>1, <2>1, <3>1, <4>1, <4>4, OneAtATime DEF Calm
      <4>6. g.at = "done"
        BY <4>1, <4>4, <4>5 DEF Running
      <4>7. /\ g.keep > 0 /\ g.slot # 0 /\ g.data = DataDir
            /\ entry[g.box]["slot"] = g.slot
            /\ evidence[g.keep].marker = Marker(j, g) /\ evidence[g.keep].proof = Proof(j, g)
        BY <4>1, <4>2, <4>3, <4>6, <3>1 DEF Tidy
      <4>8. g.slot > 0
        BY <4>2, <4>7, ConstantFacts DEF Creates
      <4>9. PICK here : here = [h EXCEPT !.box = g.box, !.slot = g.slot]
        OBVIOUS
      <4>10. here.data = g.data /\ here.box = g.box /\ here.slot = g.slot
        BY <3>1, <4>7, <4>9 DEF Creates
      <4>11. Marker(j, here) = Marker(j, g) /\ Proof(j, here) = Proof(j, g)
        BY <4>10 DEF Marker, Proof
      <4>12. /\ Child(h.data, j) = g.box /\ Child(h.own, j) = g.keep
             /\ Child(g.box, "slot") = g.slot /\ Files(g.keep) = evidence[g.keep]
        BY <3>1, <4>2, <4>3, <4>7 DEF Child, Files
      <4>13. g.box > 0 /\ g.keep > 0
        BY <4>2, <4>3, <4>7
      <4>14. Files(g.keep).marker = Marker(j, here) /\ Files(g.keep).proof = Proof(j, here)
        BY <4>7, <4>11, <4>12
      <4>15. QED
        BY <4>8, <4>9, <4>12, <4>13, <4>14 DEF Accounted
    <3>3. QED
      BY <1>3, <3>1, <3>2 DEF DataDir
  <2>2. QED
    BY <1>1, <1>3, <2>1, RefuseKeeps
<1>4. CASE Advance(i, [h EXCEPT !.at = "absent"]) /\ UNCHANGED <<entry, evidence, made, allocation>>
  BY <1>1, <1>2, <1>4, PassKeeps
<1>5. QED
  BY <1>2, <1>3, <1>4 DEF Collect

LEMMA EnsureAbsentKeeps ==
  ASSUME StorageConstants, StorageInv, NEW i \in BindInstances, EnsureAbsent(i)
  PROVE  StorageInv'
<1>1. creating[i].at = "absent" /\ Aside /\ overlapped' = overlapped /\ overlapped \in BOOLEAN
  BY DEF EnsureAbsent, StorageInv, StorageTypesOK
<1>2. PICK h : h = creating[i]
  OBVIOUS
<1>3. CASE Refuse(i) /\ ~(entry[h.data][i] = 0 /\ entry[h.own][i] = 0)
  <2>1. ASSUME Calm PROVE FALSE
    BY <1>1, <1>2, <1>3, <2>1, RunsFreely DEF Running, Tidy
  <2>2. QED
    BY <1>1, <1>3, <2>1, RefuseKeeps
<1>4. CASE Advance(i, [h EXCEPT !.at = "box"]) /\ UNCHANGED <<entry, evidence, made, allocation>>
  BY <1>1, <1>2, <1>4, PassKeeps
<1>5. QED
  BY <1>2, <1>3, <1>4 DEF EnsureAbsent

(* A directory that is made is a new one. *)
LEMMA MkdirFacts ==
  ASSUME StorageConstants, StorageInv, NEW d \in 1..MaxDirs, NEW n \in Names, Mkdir(d, n)
  PROVE  /\ entry' \in [1..MaxDirs -> [Names -> Entries]]
         /\ entry'[d][n] = made + 1 /\ made' = made + 1 /\ made' \in 1..MaxDirs /\ made \in 1..MaxDirs
         /\ \A e \in 1..MaxDirs, m \in Names : ~(e = d /\ m = n) => entry'[e][m] = entry[e][m]
<1>1. made \in 1..MaxDirs /\ made < MaxDirs /\ made' = made + 1
  BY DEF Mkdir, StorageInv, StorageTypesOK
<1>2. PICK x : x = made + 1
  OBVIOUS
<1>3. MaxDirs \in Nat /\ Entries = -1..MaxDirs
  BY ConstantFacts
<1>4. x \in Entries /\ x \in 1..MaxDirs
  BY <1>1, <1>2, <1>3
<1>5. entry' = [entry EXCEPT ![d][n] = x]
  BY <1>2 DEF Mkdir
<1>6. StorageTypesOK
  BY DEF StorageInv
<1>7. /\ entry' \in [1..MaxDirs -> [Names -> Entries]]
      /\ entry'[d][n] = x
      /\ \A e \in 1..MaxDirs, m \in Names : ~(e = d /\ m = n) => entry'[e][m] = entry[e][m]
  BY <1>4, <1>5, <1>6, EntryFacts
<1>8. QED
  BY <1>1, <1>2, <1>4, <1>7

(* A step that makes a directory keeps the rest tidy. *)
LEMMA MkdirStaysTidy ==
  ASSUME StorageConstants, StorageInv, Calm, NEW i \in BindInstances, Running(i), NEW h \in Creates,
         NEW d \in 1..MaxDirs, NEW n \in Names, Mkdir(d, n), Advance(i, h), evidence' = evidence,
         \/ n = i
         \/ n = "slot" /\ creating[i].box > 0 /\ d = creating[i].box,
         Tidy(i)', d <= made,
         h.box \in {0, creating[i].box, made + 1}, h.keep \in {0, creating[i].keep, made + 1}
  PROVE  TidyOK'
<1>1. /\ entry' \in [1..MaxDirs -> [Names -> Entries]]
      /\ entry'[d][n] = made + 1 /\ made' = made + 1 /\ made' \in 1..MaxDirs /\ made \in 1..MaxDirs
      /\ \A e \in 1..MaxDirs, m \in Names : ~(e = d /\ m = n) => entry'[e][m] = entry[e][m]
  BY MkdirFacts
<1>2. i \notin {"data", "ownership", "slot"} /\ i \in Names /\ {"data", "ownership", "slot"} \subseteq Names
      /\ Root \in 1..MaxDirs /\ MaxDirs \in Nat
  BY ConstantFacts
<1>3. DataDir' = DataDir /\ OwnDir' = OwnDir
  BY <1>1, <1>2 DEF DataDir, OwnDir
<1>4. /\ DataDir \in 1..made /\ OwnDir \in 1..made
      /\ creating[i].box \in 0..made /\ creating[i].keep \in 0..made
      /\ \A e \in 1..MaxDirs, m \in Names : e > made => entry[e][m] = 0
  BY RunsFreely, CalmFacts
<1>5. ASSUME NEW e \in 1..MaxDirs, NEW m \in Names, e > made' PROVE entry'[e][m] = 0
  <2>1. e # d /\ e > made
    BY <1>1, <1>5
  <2>2. entry'[e][m] = entry[e][m]
    BY <1>1, <2>1
  <2>3. QED
    BY <1>4, <2>1, <2>2
<1>6. ASSUME NEW j \in BindInstances, j # i
      PROVE  /\ entry'[DataDir][j] = entry[DataDir][j] /\ entry'[OwnDir][j] = entry[OwnDir][j]
             /\ creating[j].box > 0 => entry'[creating[j].box]["slot"] = entry[creating[j].box]["slot"]
  <2>1. j \notin {"data", "ownership", "slot"} /\ j \in Names
    BY ConstantFacts
  <2>2. DataDir \in 1..MaxDirs /\ OwnDir \in 1..MaxDirs
    BY <1>1, <1>2, <1>4
  <2>3. n # j
    BY <1>2, <1>6, <2>1
  <2>4. entry'[DataDir][j] = entry[DataDir][j] /\ entry'[OwnDir][j] = entry[OwnDir][j]
    BY <1>1, <2>1, <2>2, <2>3
  <2>5. creating[j].box \in 0..made
    BY CalmFacts
  <2>6. creating[i].box > 0 => creating[i].box # creating[j].box
    BY <1>6, OneAtATime
  <2>7. ~(creating[j].box = d /\ "slot" = n)
    BY <1>2, <2>6
  <2>8. creating[j].box > 0 => creating[j].box \in 1..MaxDirs
    BY <1>1, <1>2, <2>5
  <2>9. QED
    BY <1>1, <1>2, <2>4, <2>7, <2>8
<1>7. made' \in made..MaxDirs
  BY <1>1, <1>2
<1>8. h.box \in 0..made' /\ (h.box \in {0, creating[i].box} \/ h.box > made)
  BY <1>1, <1>4
<1>9. h.keep \in 0..made' /\ (h.keep \in {0, creating[i].keep} \/ h.keep > made)
  BY <1>1, <1>4
<1>10. \A j \in BindInstances : creating[j].keep > 0 => evidence'[creating[j].keep] = evidence[creating[j].keep]
  OBVIOUS
<1>11. QED
  BY <1>3, <1>5, <1>6, <1>7, <1>8, <1>9, <1>10, StepStaysTidy

(* What is left to show of a step that makes a directory. *)
LEMMA MakeKeeps ==
  ASSUME StorageConstants, StorageInv, NEW i \in BindInstances, Running(i), Aside,
         NEW d \in 1..MaxDirs, NEW n \in Names, Mkdir(d, n), NEW h \in Creates, Advance(i, h),
         UNCHANGED <<evidence, allocation, overlapped>>,
         h.at \in {"keep", "marker", "proof"}, h.data > 0, h.own > 0, h.box > 0,
         h.at = "proof" => h.slot > 0,
         \/ n = i
         \/ n = "slot" /\ creating[i].box > 0 /\ d = creating[i].box,
         h.box \in {0, creating[i].box, made + 1}, h.keep \in {0, creating[i].keep, made + 1},
         Calm => d <= made /\ Tidy(i)'
  PROVE  StorageInv'
<1>1. /\ creating' \in [BindInstances -> Creates] /\ creating'[i] = h
      /\ \A j \in BindInstances : j # i => creating'[j] = creating[j]
  BY AdvanceFacts DEF StorageInv
<1>2. entry' \in [1..MaxDirs -> [Names -> Entries]] /\ made' \in 1..MaxDirs
  BY MkdirFacts
<1>3. StorageTypesOK'
  BY <1>1, <1>2 DEF StorageInv, StorageTypesOK, Aside
<1>4. creating[i].at \notin {"done", "aborted"}
  BY DEF Running
<1>5. AllocationsOK'
  BY <1>4, AllocationsStay
<1>6. LookingOK' /\ AnswerOK'
  BY AsideKeeps DEF Aside
<1>7. ASSUME Calm' PROVE TidyOK'
  <2>1. Calm
    BY <1>1, <1>4, <1>7, CalmBefore DEF Aside
  <2>2. QED
    BY <2>1, MkdirStaysTidy
<1>8. QED
  BY <1>3, <1>5, <1>6, <1>7 DEF StorageInv, TidyOK

(* The handles of a create that makes a directory are directories. *)
LEMMA HandleFacts ==
  ASSUME StorageConstants, StorageInv, NEW i \in BindInstances, NEW g, g = creating[i],
         g.at \notin {"none", "refused", "aborted"}
  PROVE  /\ g \in Creates /\ g.data \in 1..MaxDirs /\ g.own \in 1..MaxDirs
         /\ g.at \in {"keep", "marker", "slot", "proof", "done"} => g.box \in 1..MaxDirs
         /\ g.at \in {"proof", "done"} => g.slot \in 1..MaxDirs
<1>1. g \in Creates
  BY DEF StorageInv, StorageTypesOK
<1>2. g.data \in 0..MaxDirs /\ g.own \in 0..MaxDirs /\ g.box \in 0..MaxDirs /\ g.slot \in 0..MaxDirs
  BY <1>1, ConstantFacts DEF Creates
<1>3. /\ g.data > 0 /\ g.own > 0
      /\ g.at \in {"keep", "marker", "slot", "proof", "done"} => g.box > 0
      /\ g.at \in {"proof", "done"} => g.slot > 0
  BY DEF StorageInv, AllocationsOK
<1>4. MaxDirs \in Nat
  BY ConstantFacts
<1>5. QED
  BY <1>1, <1>2, <1>3, <1>4

LEMMA MakeBoxKeeps ==
  ASSUME StorageConstants, StorageInv, NEW i \in BindInstances, MakeBox(i)
  PROVE  StorageInv'
<1>1. /\ creating[i].at = "box" /\ Aside /\ overlapped' = overlapped /\ overlapped \in BOOLEAN
      /\ Running(i)
  BY DEF MakeBox, StorageInv, StorageTypesOK, Running
<1>2. PICK g : g = creating[i]
  OBVIOUS
<1>3. CASE Refuse(i) /\ entry[g.data][i] # 0
  <2>1. ASSUME Calm PROVE FALSE
    BY <1>1, <1>2, <1>3, <2>1, RunsFreely DEF Tidy
  <2>2. QED
    BY <1>1, <1>3, <2>1, RefuseKeeps
<1>4. CASE /\ Mkdir(g.data, i) /\ Advance(i, [g EXCEPT !.at = "keep", !.box = made + 1])
           /\ UNCHANGED <<evidence, allocation>>
  <2>1. g \in Creates /\ g.data \in 1..MaxDirs /\ g.own \in 1..MaxDirs /\ i \in Names
    BY <1>1, <1>2, HandleFacts, ConstantFacts
  <2>2. /\ entry'[g.data][i] = made + 1 /\ made' = made + 1 /\ made' \in 1..MaxDirs /\ made \in 1..MaxDirs
        /\ \A e \in 1..MaxDirs, m \in Names : ~(e = g.data /\ m = i) => entry'[e][m] = entry[e][m]
    BY <1>4, <2>1, MkdirFacts
  <2>3. PICK h : h = [g EXCEPT !.at = "keep", !.box = made + 1]
    OBVIOUS
  <2>4. made + 1 \in Dirs
    BY <2>2, ConstantFacts
  <2>5. /\ h \in Creates /\ h.at = "keep" /\ h.data = g.data /\ h.own = g.own
        /\ h.box = made + 1 /\ h.keep = g.keep /\ h.slot = g.slot
    BY <2>1, <2>3, <2>4 DEF Creates, Stages
  <2>6. Advance(i, h) /\ creating'[i] = h
    BY <1>4, <2>3, <2>5, AdvanceFacts DEF StorageInv
  <2>7. ASSUME Calm PROVE g.data <= made /\ Tidy(i)'
    <3>1. /\ Tidy(i) /\ DataDir \in 1..made /\ OwnDir \in 1..made /\ DataDir # OwnDir
          /\ g.data = DataDir /\ g.own = OwnDir
          /\ entry[OwnDir][i] = g.keep
          /\ \A d \in 1..MaxDirs, n \in Names : d > made => entry[d][n] = 0
      BY <1>1, <1>2, <2>7, RunsFreely, CalmFacts
    <3>2. g.keep = 0 /\ g.slot = 0
      BY <1>1, <1>2, <3>1 DEF Tidy
    <3>3. DataDir' = DataDir /\ OwnDir' = OwnDir
      BY <2>1, <2>2, ConstantFacts DEF DataDir, OwnDir
    <3>4. entry'[OwnDir][i] = g.keep
      BY <2>1, <2>2, <3>1
    <3>5. entry'[made + 1]["slot"] = 0
      <4>1. "slot" \in Names /\ "slot" # i
        BY ConstantFacts
      <4>2. made + 1 \in 1..MaxDirs /\ made + 1 > made
        BY <2>2
      <4>3. QED
        BY <2>2, <3>1, <4>1, <4>2
    <3>6. made + 1 > 0 /\ made + 1 # 0
      BY <2>2
    <3>7. Tidy(i)'
      BY <2>2, <2>5, <2>6, <3>1, <3>2, <3>3, <3>4, <3>5, <3>6 DEF Tidy
    <3>8. g.data <= made
      BY <2>2, <3>1
    <3>9. QED
      BY <3>7, <3>8
  <2>8. h.data > 0 /\ h.own > 0 /\ h.box > 0
    BY <2>1, <2>2, <2>5
  <2>9. QED
    BY <1>1, <1>2, <1>4, <2>1, <2>5, <2>6, <2>7, <2>8, MakeKeeps
<1>5. QED
  BY <1>2, <1>3, <1>4 DEF MakeBox

LEMMA MakeKeepKeeps ==
  ASSUME StorageConstants, StorageInv, NEW i \in BindInstances, MakeKeep(i)
  PROVE  StorageInv'
<1>1. /\ creating[i].at = "keep" /\ Aside /\ overlapped' = overlapped /\ overlapped \in BOOLEAN
      /\ Running(i)
  BY DEF MakeKeep, StorageInv, StorageTypesOK, Running
<1>2. PICK g : g = creating[i]
  OBVIOUS
<1>3. CASE Refuse(i) /\ entry[g.own][i] # 0
  <2>1. ASSUME Calm PROVE FALSE
    BY <1>1, <1>2, <1>3, <2>1, RunsFreely DEF Tidy
  <2>2. QED
    BY <1>1, <1>3, <2>1, RefuseKeeps
<1>4. CASE /\ Mkdir(g.own, i) /\ Advance(i, [g EXCEPT !.at = "marker", !.keep = made + 1])
           /\ UNCHANGED <<evidence, allocation>>
  <2>1. /\ g \in Creates /\ g.data \in 1..MaxDirs /\ g.own \in 1..MaxDirs /\ g.box \in 1..MaxDirs
        /\ i \in Names
    BY <1>1, <1>2, HandleFacts, ConstantFacts
  <2>2. /\ entry'[g.own][i] = made + 1 /\ made' = made + 1 /\ made' \in 1..MaxDirs /\ made \in 1..MaxDirs
        /\ \A e \in 1..MaxDirs, m \in Names : ~(e = g.own /\ m = i) => entry'[e][m] = entry[e][m]
    BY <1>4, <2>1, MkdirFacts
  <2>3. PICK h : h = [g EXCEPT !.at = "marker", !.keep = made + 1]
    OBVIOUS
  <2>4. made + 1 \in Dirs
    BY <2>2, ConstantFacts
  <2>5. /\ h \in Creates /\ h.at = "marker" /\ h.data = g.data /\ h.own = g.own
        /\ h.box = g.box /\ h.keep = made + 1 /\ h.slot = g.slot
    BY <2>1, <2>3, <2>4 DEF Creates, Stages
  <2>6. Advance(i, h) /\ creating'[i] = h
    BY <1>4, <2>3, <2>5, AdvanceFacts DEF StorageInv
  <2>7. ASSUME Calm PROVE g.own <= made /\ Tidy(i)'
    <3>1. /\ Tidy(i) /\ DataDir \in 1..made /\ OwnDir \in 1..made /\ DataDir # OwnDir
          /\ g.data = DataDir /\ g.own = OwnDir
          /\ entry[DataDir][i] = g.box /\ entry[g.box]["slot"] = g.slot
      BY <1>1, <1>2, <2>1, <2>7, RunsFreely
    <3>2. g.slot = 0
      BY <1>1, <1>2, <3>1 DEF Tidy
    <3>3. DataDir' = DataDir /\ OwnDir' = OwnDir
      BY <2>1, <2>2, ConstantFacts DEF DataDir, OwnDir
    <3>4. entry'[DataDir][i] = g.box
      BY <2>1, <2>2, <3>1
    <3>5. entry'[g.box]["slot"] = 0
      <4>1. "slot" \in Names /\ "slot" # i
        BY ConstantFacts
      <4>2. QED
        BY <2>1, <2>2, <3>1, <3>2, <4>1
    <3>6. made + 1 # 0 /\ g.box > 0
      BY <2>1, <2>2
    <3>7. Tidy(i)'
      BY <2>2, <2>5, <2>6, <3>1, <3>2, <3>3, <3>4, <3>5, <3>6 DEF Tidy
    <3>8. QED
      BY <2>2, <3>1, <3>7
  <2>8. h.data > 0 /\ h.own > 0 /\ h.box > 0
    BY <2>1, <2>2, <2>5
  <2>9. QED
    BY <1>1, <1>2, <1>4, <2>1, <2>5, <2>6, <2>7, <2>8, MakeKeeps
<1>5. QED
  BY <1>2, <1>3, <1>4 DEF MakeKeep

LEMMA MakeSlotKeeps ==
  ASSUME StorageConstants, StorageInv, NEW i \in BindInstances, MakeSlot(i)
  PROVE  StorageInv'
<1>1. /\ creating[i].at = "slot" /\ Aside /\ overlapped' = overlapped /\ overlapped \in BOOLEAN
      /\ Running(i)
  BY DEF MakeSlot, StorageInv, StorageTypesOK, Running
<1>2. PICK g : g = creating[i]
  OBVIOUS
<1>3. CASE Refuse(i) /\ entry[g.box]["slot"] # 0
  <2>1. ASSUME Calm PROVE FALSE
    <3>1. g.box > 0 /\ g.slot = 0
      BY <1>1, <1>2, <2>1, HandleFacts, RunsFreely DEF Tidy
    <3>2. QED
      BY <1>1, <1>2, <1>3, <2>1, <3>1, RunsFreely
  <2>2. QED
    BY <1>1, <1>3, <2>1, RefuseKeeps
<1>4. CASE /\ Mkdir(g.box, "slot") /\ Advance(i, [g EXCEPT !.at = "proof", !.slot = made + 1])
           /\ UNCHANGED <<evidence, allocation>>
  <2>1. /\ g \in Creates /\ g.data \in 1..MaxDirs /\ g.own \in 1..MaxDirs /\ g.box \in 1..MaxDirs
        /\ i \in Names /\ "slot" \in Names /\ "slot" # i
    BY <1>1, <1>2, HandleFacts, ConstantFacts
  <2>2. /\ entry'[g.box]["slot"] = made + 1 /\ made' = made + 1 /\ made' \in 1..MaxDirs
        /\ made \in 1..MaxDirs
        /\ \A e \in 1..MaxDirs, m \in Names : ~(e = g.box /\ m = "slot") => entry'[e][m] = entry[e][m]
    BY <1>4, <2>1, MkdirFacts
  <2>3. PICK h : h = [g EXCEPT !.at = "proof", !.slot = made + 1]
    OBVIOUS
  <2>4. made + 1 \in Dirs
    BY <2>2, ConstantFacts
  <2>5. /\ h \in Creates /\ h.at = "proof" /\ h.data = g.data /\ h.own = g.own
        /\ h.box = g.box /\ h.keep = g.keep /\ h.slot = made + 1
    BY <2>1, <2>3, <2>4 DEF Creates, Stages
  <2>6. Advance(i, h) /\ creating'[i] = h
    BY <1>4, <2>3, <2>5, AdvanceFacts DEF StorageInv
  <2>7. ASSUME Calm PROVE g.box <= made /\ Tidy(i)'
    <3>1. /\ Tidy(i) /\ DataDir \in 1..made /\ OwnDir \in 1..made /\ DataDir # OwnDir
          /\ g.data = DataDir /\ g.own = OwnDir
          /\ entry[DataDir][i] = g.box /\ entry[OwnDir][i] = g.keep /\ g.box \in 0..made
      BY <1>1, <1>2, <2>7, RunsFreely
    <3>2. g.keep # 0 /\ evidence[g.keep].marker = Marker(i, g)
      BY <1>1, <1>2, <3>1 DEF Tidy
    <3>3. DataDir' = DataDir /\ OwnDir' = OwnDir
      BY <2>1, <2>2, ConstantFacts DEF DataDir, OwnDir
    <3>4. entry'[DataDir][i] = g.box /\ entry'[OwnDir][i] = g.keep
      BY <2>1, <2>2, <3>1
    <3>5. Marker(i, h) = Marker(i, g)
      BY <2>5 DEF Marker
    <3>6. made + 1 # 0 /\ g.box > 0
      BY <2>1, <2>2
    <3>7. Tidy(i)'
      BY <1>4, <2>2, <2>5, <2>6, <3>1, <3>2, <3>3, <3>4, <3>5, <3>6 DEF Tidy
    <3>8. QED
      BY <2>2, <3>1, <3>7
  <2>8. h.data > 0 /\ h.own > 0 /\ h.box > 0 /\ h.slot > 0 /\ g.box > 0
    BY <2>1, <2>2, <2>5
  <2>9. QED
    BY <1>1, <1>2, <1>4, <2>1, <2>5, <2>6, <2>7, <2>8, MakeKeeps
<1>5. QED
  BY <1>2, <1>3, <1>4 DEF MakeSlot

(* How a file of evidence changes. *)
LEMMA FileFacts ==
  ASSUME StorageConstants, StorageTypesOK, NEW d \in Dirs, NEW x \in Proofs,
         NEW which \in {"marker", "proof"}, evidence' = [evidence EXCEPT ![d][which] = x]
  PROVE  /\ evidence' \in [1..MaxDirs -> Evidence]
         /\ \A e \in 1..MaxDirs : e # d => evidence'[e] = evidence[e]
         /\ d > 0 => evidence'[d] = [evidence[d] EXCEPT ![which] = x]
<1>1. evidence \in [1..MaxDirs -> Evidence]
  BY DEF StorageTypesOK
<1>2. CASE d > 0
  <2>1. d \in 1..MaxDirs
    BY <1>2, ConstantFacts
  <2>2. PICK f : f = [evidence[d] EXCEPT ![which] = x]
    OBVIOUS
  <2>3. f \in Evidence
    BY <1>1, <2>1, <2>2 DEF Evidence
  <2>4. evidence' = [evidence EXCEPT ![d] = f]
    BY <2>2
  <2>5. QED
    BY <1>1, <2>1, <2>2, <2>3, <2>4
<1>3. CASE ~(d > 0)
  <2>1. d \notin 1..MaxDirs
    BY <1>3, ConstantFacts
  <2>2. PICK f : f = [evidence[d] EXCEPT ![which] = x]
    OBVIOUS
  <2>3. evidence' = [evidence EXCEPT ![d] = f]
    BY <2>2
  <2>4. evidence' \in [1..MaxDirs -> Evidence] /\ \A e \in 1..MaxDirs : e # d => evidence'[e] = evidence[e]
    BY <1>1, <2>1, <2>3
  <2>5. QED
    BY <1>3, <2>4
<1>4. QED
  BY <1>2, <1>3

LEMMA WriteMarkerKeeps ==
  ASSUME StorageConstants, StorageInv, NEW i \in BindInstances, WriteMarker(i)
  PROVE  StorageInv'
<1>1. /\ creating[i].at = "marker" /\ Aside /\ UNCHANGED <<entry, made, allocation, overlapped>>
      /\ Running(i)
  BY DEF WriteMarker, Running
<1>2. PICK g : g = creating[i]
  OBVIOUS
<1>3. PICK m : m = Marker(i, g)
  OBVIOUS
<1>4. PICK h : h = [g EXCEPT !.at = "slot"]
  OBVIOUS
<1>5. evidence' = [evidence EXCEPT ![g.keep]["marker"] = m] /\ Advance(i, h)
  BY <1>2, <1>3, <1>4 DEF WriteMarker
<1>6. /\ g \in Creates /\ g.data \in 1..MaxDirs /\ g.own \in 1..MaxDirs /\ g.box \in 1..MaxDirs
      /\ MaxDirs \in Nat
  BY <1>1, <1>2, HandleFacts, ConstantFacts
<1>7. /\ h \in Creates /\ h.at = "slot" /\ h.data = g.data /\ h.own = g.own
      /\ h.box = g.box /\ h.keep = g.keep /\ h.slot = g.slot
  BY <1>4, <1>6 DEF Creates, Stages
<1>8. /\ creating' \in [BindInstances -> Creates] /\ creating'[i] = h
      /\ \A j \in BindInstances : j # i => creating'[j] = creating[j]
  BY <1>5, <1>7, AdvanceFacts DEF StorageInv
<1>9. m \in Proofs
  <2>1. m = [of |-> i, data |-> g.data, box |-> g.box, slot |-> 0]
    BY <1>3 DEF Marker
  <2>2. QED
    BY <2>1, <1>6, ConstantFacts DEF Proofs, Creates
<1>10. g.keep \in Dirs
  BY <1>6 DEF Creates
<1>11. /\ evidence' \in [1..MaxDirs -> Evidence]
       /\ \A e \in 1..MaxDirs : e # g.keep => evidence'[e] = evidence[e]
       /\ g.keep > 0 => evidence'[g.keep] = [evidence[g.keep] EXCEPT !["marker"] = m]
  BY <1>5, <1>9, <1>10, FileFacts DEF StorageInv
<1>12. StorageTypesOK'
  BY <1>1, <1>8, <1>11 DEF StorageInv, StorageTypesOK, Aside
<1>13. AllocationsOK'
  <2>1. h.data > 0 /\ h.own > 0 /\ h.box > 0
    BY <1>6, <1>7
  <2>2. QED
    BY <1>1, <1>5, <1>7, <2>1, AllocationsStay
<1>14. LookingOK' /\ AnswerOK'
  BY <1>1, AsideKeeps DEF Aside
<1>15. ASSUME Calm' PROVE TidyOK'
  <2>1. Calm
    BY <1>1, <1>8, <1>15, CalmBefore DEF Aside
  <2>2. /\ Tidy(i) /\ g.keep \in 0..made /\ g.box \in 0..made /\ made \in 1..MaxDirs
    BY <1>1, <1>2, <2>1, RunsFreely
  <2>3. g.keep # 0 /\ g.keep \in 1..MaxDirs
    <3>1. g.keep # 0
      BY <1>1, <1>2, <2>2 DEF Tidy
    <3>2. QED
      BY <3>1, <2>2, <1>6
  <2>4. DataDir' = DataDir /\ OwnDir' = OwnDir
    BY <1>1 DEF DataDir, OwnDir
  <2>5. evidence'[g.keep].marker = Marker(i, h)
    <3>1. Marker(i, h) = m
      BY <1>3, <1>7 DEF Marker
    <3>2. evidence[g.keep] \in Evidence
      BY <2>3 DEF StorageInv, StorageTypesOK
    <3>3. QED
      BY <1>11, <2>3, <3>1, <3>2 DEF Evidence
  <2>6. Tidy(i)'
    BY <1>1, <1>2, <1>7, <1>8, <2>2, <2>4, <2>5 DEF Tidy
  <2>7. ASSUME NEW j \in BindInstances, j # i, creating[j].keep > 0
        PROVE  evidence'[creating[j].keep] = evidence[creating[j].keep]
    <3>1. creating[i].keep # creating[j].keep
      BY <1>2, <2>1, <2>2, <2>3, <2>7, OneAtATime
    <3>2. creating[j].keep \in 1..MaxDirs
      BY <2>1, <2>2, <2>7, <1>6, CalmFacts
    <3>3. QED
      BY <1>2, <1>11, <3>1, <3>2
  <2>8. /\ h.box \in 0..made' /\ h.keep \in 0..made' /\ made' \in made..MaxDirs
    BY <1>1, <1>6, <1>7, <2>2
  <2>9. \A d \in 1..MaxDirs, n \in Names : d > made' => entry'[d][n] = 0
    BY <1>1, <2>1, CalmFacts
  <2>10. QED
    BY <1>1, <1>2, <1>5, <1>7, <2>1, <2>4, <2>6, <2>7, <2>8, <2>9, StepStaysTidy
<1>16. QED
  BY <1>12, <1>13, <1>14, <1>15 DEF StorageInv, TidyOK

LEMMA WriteProofKeeps ==
  ASSUME StorageConstants, StorageInv, NEW i \in BindInstances, WriteProof(i)
  PROVE  StorageInv'
<1>1. /\ creating[i].at = "proof" /\ Aside /\ UNCHANGED <<entry, made, overlapped>> /\ Running(i)
  BY DEF WriteProof, Running
<1>2. PICK g : g = creating[i]
  OBVIOUS
<1>3. PICK m : m = Proof(i, g)
  OBVIOUS
<1>4. PICK h : h = [g EXCEPT !.at = "done"]
  OBVIOUS
<1>5. /\ evidence' = [evidence EXCEPT ![g.keep]["proof"] = m] /\ Advance(i, h)
      /\ allocation' = [allocation EXCEPT ![i] = m]
  BY <1>2, <1>3, <1>4 DEF WriteProof
<1>6. /\ g \in Creates /\ g.data \in 1..MaxDirs /\ g.own \in 1..MaxDirs /\ g.box \in 1..MaxDirs
      /\ g.slot \in 1..MaxDirs /\ MaxDirs \in Nat
  BY <1>1, <1>2, HandleFacts, ConstantFacts
<1>7. /\ h \in Creates /\ h.at = "done" /\ h.data = g.data /\ h.own = g.own
      /\ h.box = g.box /\ h.keep = g.keep /\ h.slot = g.slot
  BY <1>4, <1>6 DEF Creates, Stages
<1>8. /\ creating' \in [BindInstances -> Creates] /\ creating'[i] = h
      /\ \A j \in BindInstances : j # i => creating'[j] = creating[j]
  BY <1>5, <1>7, AdvanceFacts DEF StorageInv
<1>9. m \in Proofs
  <2>1. m = [of |-> i, data |-> g.data, box |-> g.box, slot |-> g.slot]
    BY <1>3 DEF Proof
  <2>2. QED
    BY <2>1, <1>6, ConstantFacts DEF Proofs
<1>10. g.keep \in Dirs
  BY <1>6 DEF Creates
<1>11. /\ evidence' \in [1..MaxDirs -> Evidence]
       /\ \A e \in 1..MaxDirs : e # g.keep => evidence'[e] = evidence[e]
       /\ g.keep > 0 => evidence'[g.keep] = [evidence[g.keep] EXCEPT !["proof"] = m]
  BY <1>5, <1>9, <1>10, FileFacts DEF StorageInv
<1>12. /\ allocation' \in [BindInstances -> Proofs] /\ allocation'[i] = m
       /\ \A j \in BindInstances : j # i => allocation'[j] = allocation[j]
  BY <1>5, <1>9 DEF StorageInv, StorageTypesOK
<1>13. StorageTypesOK'
  BY <1>1, <1>8, <1>11, <1>12 DEF StorageInv, StorageTypesOK, Aside
<1>14. Proof(i, h) = m
  BY <1>3, <1>7 DEF Proof
<1>15. AllocationsOK'
  <2>1. h.data > 0 /\ h.own > 0 /\ h.box > 0 /\ h.slot > 0
    BY <1>6, <1>7
  <2>2. QED
    BY <1>7, <1>8, <1>12, <1>14, <2>1 DEF StorageInv, AllocationsOK
<1>16. LookingOK' /\ AnswerOK'
  <2>1. allocation[i] = NoFile
    BY <1>1 DEF StorageInv, AllocationsOK
  <2>2. QED
    BY <1>1, <1>12, <2>1, AsideKeeps DEF Aside
<1>17. ASSUME Calm' PROVE TidyOK'
  <2>1. Calm
    BY <1>1, <1>8, <1>17, CalmBefore DEF Aside
  <2>2. /\ Tidy(i) /\ g.keep \in 0..made /\ g.box \in 0..made /\ made \in 1..MaxDirs
    BY <1>1, <1>2, <2>1, RunsFreely
  <2>3. g.keep # 0 /\ g.keep \in 1..MaxDirs /\ evidence[g.keep].marker = Marker(i, g)
    <3>1. g.keep # 0 /\ evidence[g.keep].marker = Marker(i, g)
      BY <1>1, <1>2, <2>2 DEF Tidy
    <3>2. QED
      BY <3>1, <2>2, <1>6
  <2>4. DataDir' = DataDir /\ OwnDir' = OwnDir
    BY <1>1 DEF DataDir, OwnDir
  <2>5. evidence'[g.keep].marker = Marker(i, h) /\ evidence'[g.keep].proof = Proof(i, h)
    <3>1. Marker(i, h) = Marker(i, g)
      BY <1>7 DEF Marker
    <3>2. evidence[g.keep] \in Evidence
      BY <2>3 DEF StorageInv, StorageTypesOK
    <3>3. QED
      BY <1>11, <1>14, <2>3, <3>1, <3>2 DEF Evidence
  <2>6. Tidy(i)'
    BY <1>1, <1>2, <1>7, <1>8, <2>2, <2>4, <2>5 DEF Tidy
  <2>7. ASSUME NEW j \in BindInstances, j # i, creating[j].keep > 0
        PROVE  evidence'[creating[j].keep] = evidence[creating[j].keep]
    <3>1. creating[i].keep # creating[j].keep
      BY <1>2, <2>1, <2>2, <2>3, <2>7, OneAtATime
    <3>2. creating[j].keep \in 1..MaxDirs
      BY <2>1, <2>2, <2>7, <1>6, CalmFacts
    <3>3. QED
      BY <1>2, <1>11, <3>1, <3>2
  <2>8. /\ h.box \in 0..made' /\ h.keep \in 0..made' /\ made' \in made..MaxDirs
    BY <1>1, <1>6, <1>7, <2>2
  <2>9. \A d \in 1..MaxDirs, n \in Names : d > made' => entry'[d][n] = 0
    BY <1>1, <2>1, CalmFacts
  <2>10. QED
    BY <1>1, <1>2, <1>5, <1>7, <2>1, <2>4, <2>6, <2>7, <2>8, <2>9, StepStaysTidy
<1>18. QED
  BY <1>13, <1>15, <1>16, <1>17 DEF StorageInv, TidyOK

-------------------------------------------------------------------------------
(* The user and Docker: what they change is a directory's entry or a file,   *)
(* and the calm is over.                                                     *)
LEMMA ChangeKeeps ==
  ASSUME StorageConstants, StorageInv, changes' = changes + 1, Observed,
         UNCHANGED <<platform, creating, allocation, looking, overlapped>>,
         entry' \in [1..MaxDirs -> [Names -> Entries]], evidence' \in [1..MaxDirs -> Evidence],
         made' \in 1..MaxDirs
  PROVE  StorageInv'
<1>1. changes \in Nat /\ changes' \in Nat /\ changes' # 0
  BY DEF StorageInv, StorageTypesOK
<1>2. StorageTypesOK'
  BY <1>1 DEF StorageInv, StorageTypesOK
<1>3. AllocationsOK'
  BY DEF StorageInv, AllocationsOK
<1>4. LookingOK' /\ AnswerOK'
  BY AsideKeeps
<1>5. ~Calm'
  BY <1>1 DEF Calm
<1>6. QED
  BY <1>2, <1>3, <1>4, <1>5 DEF StorageInv, TidyOK

LEMMA PlaceFacts ==
  ASSUME StorageConstants, StorageInv, NEW place \in Places
  PROVE  place[1] \in 1..MaxDirs /\ place[2] \in Names
<1>0. /\ BindInstances \subseteq Names /\ {"data", "ownership", "slot"} \subseteq Names
      /\ Root \in Entries /\ Root \in 1..MaxDirs /\ StorageTypesOK
  BY ConstantFacts DEF StorageInv
<1>1. \A top \in {"data", "ownership"} : Child(Root, top) \in Entries
  BY <1>0, ChildFacts
<1>2. \A i \in BindInstances : Child(Child(Root, "data"), i) \in Entries
  BY <1>0, <1>1, ChildFacts
<1>3. place[1] > 0 /\ place[1] \in Entries /\ place[2] \in Names
  BY <1>0, <1>1, <1>2 DEF Places
<1>4. QED
  BY <1>3, ConstantFacts

LEMMA OthersChangeKeeps ==
  ASSUME StorageConstants, StorageInv, OthersChange
  PROVE  StorageInv'
<1>1. /\ changes' = changes + 1 /\ Observed
      /\ UNCHANGED <<platform, evidence, creating, allocation, looking, overlapped>>
  BY DEF OthersChange
<1>2. /\ evidence \in [1..MaxDirs -> Evidence] /\ made \in 1..MaxDirs /\ StorageTypesOK
      /\ Entries = -1..MaxDirs /\ Link = -1 /\ MaxDirs \in Nat
  BY ConstantFacts DEF StorageInv, StorageTypesOK
<1>3. PICK place \in Places :
        \/ /\ entry[place[1]][place[2]] # 0 /\ ~Pinned(entry[place[1]][place[2]])
           /\ entry' = [entry EXCEPT ![place[1]][place[2]] = 0]
           /\ UNCHANGED made
        \/ Mkdir(place[1], place[2])
        \/ /\ entry[place[1]][place[2]] = 0
           /\ \E d \in Stray \cup {Link} : entry' = [entry EXCEPT ![place[1]][place[2]] = d]
           /\ UNCHANGED made
  BY DEF OthersChange
<1>4. place[1] \in 1..MaxDirs /\ place[2] \in Names
  BY PlaceFacts
<1>5. entry' \in [1..MaxDirs -> [Names -> Entries]] /\ made' \in 1..MaxDirs
  <2>1. CASE entry' = [entry EXCEPT ![place[1]][place[2]] = 0] /\ UNCHANGED made
    <3>1. 0 \in Entries
      BY <1>2
    <3>2. QED
      BY <1>2, <1>4, <2>1, <3>1, EntryFacts
  <2>2. CASE Mkdir(place[1], place[2])
    BY <1>4, <2>2, MkdirFacts
  <2>3. CASE /\ \E d \in Stray \cup {Link} : entry' = [entry EXCEPT ![place[1]][place[2]] = d]
             /\ UNCHANGED made
    <3>1. PICK d \in Stray \cup {Link} : entry' = [entry EXCEPT ![place[1]][place[2]] = d]
      BY <2>3
    <3>2. d \in Entries
      BY <1>2 DEF Stray
    <3>3. QED
      BY <1>2, <1>4, <2>3, <3>1, <3>2, EntryFacts
  <2>4. QED
    BY <1>3, <2>1, <2>2, <2>3
<1>6. QED
  BY <1>1, <1>2, <1>5, ChangeKeeps

LEMMA TamperKeeps ==
  ASSUME StorageConstants, StorageInv, Tamper
  PROVE  StorageInv'
<1>1. /\ changes' = changes + 1 /\ Observed
      /\ UNCHANGED <<platform, entry, made, creating, allocation, looking, overlapped>>
  BY DEF Tamper
<1>2. PICK d \in 1..made, which \in {"marker", "proof"} :
        evidence' = [evidence EXCEPT ![d][which] = NoFile]
  BY DEF Tamper
<1>3. /\ entry \in [1..MaxDirs -> [Names -> Entries]] /\ made \in 1..MaxDirs
      /\ Dirs = 0..MaxDirs /\ MaxDirs \in Nat
  BY ConstantFacts DEF StorageInv, StorageTypesOK
<1>4. d \in Dirs /\ NoFile \in Proofs
  BY <1>3 DEF NoFile, Proofs
<1>5. evidence' \in [1..MaxDirs -> Evidence]
  BY <1>2, <1>4, FileFacts DEF StorageInv
<1>6. QED
  BY <1>1, <1>3, <1>5, ChangeKeeps

LEMMA StorageStart ==
  ASSUME StorageConstants, StorageInit
  PROVE  StorageInv
<1>0. /\ 0 \in Entries /\ 0 \in Dirs /\ 1 \in 1..MaxDirs /\ Root \in 1..MaxDirs
      /\ {"data", "ownership"} \subseteq Names
  BY ConstantFacts
<1>1. NoFile \in Proofs /\ NoFiles \in Evidence /\ None \in Creates /\ NotLooking \in Looks
  <2>1. NoFile \in Proofs
    BY <1>0 DEF NoFile, Proofs
  <2>2. QED
    BY <1>0, <2>1 DEF NoFiles, Evidence, None, Creates, Stages, NotLooking, Looks
<1>2. StorageTypesOK
  BY <1>0, <1>1 DEF StorageInit, StorageTypesOK
<1>3. \A i \in BindInstances : creating[i] = None /\ allocation[i] = NoFile
  BY DEF StorageInit
<1>4. AllocationsOK
  BY <1>3 DEF AllocationsOK, None
<1>5. LookingOK
  BY DEF StorageInit, LookingOK, NotLooking
<1>6. AnswerOK
  BY DEF StorageInit, AnswerOK, NoAnswer
<1>7. /\ \A d \in 1..MaxDirs, n \in Names : entry[d][n] = 0
      /\ DataDir = 0 /\ OwnDir = 0 /\ made = 1
  BY <1>0 DEF StorageInit, DataDir, OwnDir
<1>8. \A i \in BindInstances : Tidy(i) /\ ~Running(i) /\ creating[i].box = 0 /\ creating[i].keep = 0
  BY <1>3, <1>7 DEF Tidy, Running, None
<1>9. TidyOK
  BY <1>7, <1>8 DEF TidyOK
<1>10. QED
  BY <1>2, <1>4, <1>5, <1>6, <1>9 DEF StorageInv

LEMMA StorageStepKeeps ==
  ASSUME StorageConstants, StorageInv, [StorageNext]_storageVars
  PROVE  StorageInv'
<1>1. ASSUME NEW i \in BindInstances, Create(i) PROVE StorageInv'
  BY <1>1, EnsureTopKeeps, CollectKeeps, EnsureAbsentKeeps, MakeBoxKeeps, MakeKeepKeeps,
     WriteMarkerKeeps, MakeSlotKeeps, WriteProofKeeps, AbortKeeps DEF Create
<1>2. ASSUME NEW i \in BindInstances, InspectValid(i) \/ InspectSaved(i) PROVE StorageInv'
  BY <1>2, ReadEvidenceKeeps, EnterDataKeeps, EnterBoxKeeps, EnterSlotKeeps, InspectSavedKeeps
     DEF InspectValid
<1>3. CASE UNCHANGED storageVars
  <2> USE <1>3 DEF storageVars
  <2>1. StorageTypesOK' /\ AllocationsOK'
    BY DEF StorageInv, StorageTypesOK, AllocationsOK
  <2>2. LookingOK' /\ AnswerOK'
    BY DEF StorageInv, LookingOK, AnswerOK, Intact, Child, Files
  <2>3. TidyOK'
    BY DEF StorageInv, TidyOK, Tidy, Calm, Running, DataDir, OwnDir
  <2>4. QED
    BY <2>1, <2>2, <2>3 DEF StorageInv
<1>4. QED
  BY <1>1, <1>2, <1>3, OthersChangeKeeps, TamperKeeps DEF StorageNext

LEMMA StorageInvSuffices ==
  ASSUME StorageInv
  PROVE  OnlyOwnStorage
<1>1. ASSUME answer.presence = "present" PROVE answer.slot = creating[answer.of].slot
  <2>1. PICK i : i = answer.of
    OBVIOUS
  <2>2. i \in BindInstances /\ allocation[i] # NoFile /\ answer.slot = allocation[i].slot
    BY <1>1, <2>1 DEF StorageInv, AnswerOK
  <2>3. allocation[i] = Proof(i, creating[i])
    BY <2>2 DEF StorageInv, AllocationsOK
  <2>4. allocation[i].slot = creating[i].slot
    BY <2>3 DEF Proof
  <2>5. QED
    BY <2>1, <2>2, <2>4
<1>2. InspectionIsRight
  BY <1>1 DEF InspectionIsRight, StorageInv, AnswerOK
<1>3. ASSUME NEW i \in BindInstances, creating[i].at = "refused" PROVE ~Calm
  BY <1>3 DEF StorageInv, TidyOK, Tidy
<1>4. changes \in Nat
  BY DEF StorageInv, StorageTypesOK
<1>5. RefusedForCause
  BY <1>3, <1>4 DEF RefusedForCause, Calm
<1>6. QED
  BY <1>2, <1>5 DEF OnlyOwnStorage

(***************************************************************************)
(* OnlyOwnStorage for any instances, and any number of directories and of  *)
(* changes: an inspection says present only of the directory its create    *)
(* made (SameDirectory, inspect_bind) and finds storage that stays intact, *)
(* and a create is refused only for a cause.                               *)
(***************************************************************************)
THEOREM OwnStorage == StorageSpec => []OnlyOwnStorage
<1>1. StorageInit => StorageInv
  BY StorageAssumption, StorageStart
<1>2. StorageInv /\ [StorageNext]_storageVars => StorageInv'
  BY StorageAssumption, StorageStepKeeps
<1>3. StorageInv => OnlyOwnStorage
  BY StorageAssumption, StorageInvSuffices
<1>4. QED
  BY <1>1, <1>2, <1>3, PTL DEF StorageSpec

-------------------------------------------------------------------------------
(***************************************************************************)
(* The fields of a clone plan.  The invariant says that every field is the *)
(* version's, where its value can be from, what its confirmation is of and *)
(* which question its answer is to.                                        *)
(***************************************************************************)

Definitions == {template[v][f] : v \in Versions, f \in Fields}
Values == {"source", Generated, NoValue} \cup UNION {d.accepts : d \in Definitions}
States ==
  [kind : {d.kind : d \in Definitions}, policy : {d.policy : d \in Definitions},
   options : {d.options : d \in Definitions},
   value : Values,
   answered : BOOLEAN, confirmed : BOOLEAN]

PlanTypesOK ==
  /\ template \in Templates
  /\ sourceValue \in [Fields -> {"source", NoValue}]
  /\ version \in Versions
  /\ field \in [Active -> States]
  /\ answeredFor \in [Fields -> {"nothing"} \cup {d.options : d \in Definitions}]

FieldIsRight(f) ==
  /\ field[f].kind = Definition(version, f).kind
  /\ field[f].policy = Definition(version, f).policy
  /\ field[f].options = Definition(version, f).options
  /\ field[f].value = "source" => SourceOf(version, f) = "source"
  /\ field[f].kind = "secret" /\ field[f].confirmed => f \in confirmedNow
  /\ field[f].policy = "ask" /\ field[f].answered => answeredFor[f] = field[f].options

PlanInv == PlanTypesOK /\ \A f \in Active : FieldIsRight(f)

-------------------------------------------------------------------------------
(* What becomes of a field another version has too: it is kept, or starts    *)
(* from its definition.                                                      *)
LEMMA KeepFacts ==
  ASSUME NEW old \in States, NEW d \in Definitions
  PROVE  /\ Keep(old, d) \in States
         /\ Keep(old, d).kind = old.kind
         /\ Keep(old, d).policy = d.policy /\ Keep(old, d).options = d.options
         /\ Keep(old, d).value = old.value
         /\ Keep(old, d).confirmed => d.kind # "secret"
         /\ Keep(old, d).answered =>
              old.answered /\ (d.policy = "ask" => old.policy = "ask" /\ old.options = d.options)
<1>1. PICK a, c : /\ a = (old.answered /\ (d.policy = "ask" => old.policy = "ask" /\ old.options = d.options))
                  /\ c = (old.confirmed /\ d.kind # "secret")
  OBVIOUS
<1>2. a \in BOOLEAN /\ c \in BOOLEAN
  BY <1>1
<1>3. PICK r : r = [old EXCEPT !.policy = d.policy, !.options = d.options, !.confirmed = c, !.answered = a]
  OBVIOUS
<1>4. r = Keep(old, d)
  BY <1>1, <1>3 DEF Keep
<1>5. /\ r \in States /\ r.kind = old.kind /\ r.policy = d.policy /\ r.options = d.options
      /\ r.value = old.value /\ r.confirmed = c /\ r.answered = a
  BY <1>2, <1>3 DEF States
<1>6. QED
  BY <1>1, <1>4, <1>5

LEMMA NewFieldFacts ==
  ASSUME PlanConstants, template \in Templates, sourceValue \in [Fields -> {"source", NoValue}],
         NEW v \in Versions, NEW f \in Fields, Has(v, f), NEW r, r = NewField(v, f)
  PROVE  /\ r \in States /\ r.kind = Definition(v, f).kind
         /\ r.policy = Definition(v, f).policy /\ r.options = Definition(v, f).options
         /\ r.value = "source" => SourceOf(v, f) = "source"
         /\ r.confirmed = FALSE
         /\ r.policy = "ask" => r.answered = FALSE
<1>0. PICK d : d = Definition(v, f)
  OBVIOUS
<1>1. d \in Definitions /\ d.policy \in {"copy", "ask", "regenerate", "clear"}
  BY <1>0 DEF Definition, Definitions, PlanConstants, Has
<1>2. PICK source : source = SourceOf(v, f)
  OBVIOUS
<1>3. source \in {"source", NoValue}
  BY <1>2 DEF SourceOf
<1>4. PICK value : value = CASE d.policy \in {"copy", "ask"} -> source
                             [] d.policy = "regenerate" -> Generated
                             [] d.policy = "clear" -> NoValue
  OBVIOUS
<1>5. value \in Values /\ (value = "source" => source = "source")
  BY <1>1, <1>3, <1>4 DEF Generated, PlanConstants, Values
<1>6. PICK answered : answered = ((d.policy # "ask" /\ (d.policy = "copy" => Valid(d, source))) /\ ~TypeChanged(v, f))
  OBVIOUS
<1>7. answered \in BOOLEAN /\ (d.policy = "ask" => answered = FALSE)
  BY <1>6
<1>8. r = FieldState(d, value, answered)
  BY <1>0, <1>2, <1>4, <1>6 DEF NewField
<1>9. /\ r \in States /\ r.kind = d.kind /\ r.policy = d.policy /\ r.options = d.options
      /\ r.value = value /\ r.answered = answered /\ r.confirmed = FALSE
  BY <1>1, <1>5, <1>7, <1>8 DEF FieldState, States
<1>10. QED
  BY <1>0, <1>1, <1>2, <1>5, <1>7, <1>9

-------------------------------------------------------------------------------

LEMMA PlanStart ==
  ASSUME PlanConstants, PlanInit
  PROVE  PlanInv
<1>1. /\ template \in Templates /\ sourceValue \in [Fields -> {"source", NoValue}]
      /\ version = Base /\ version \in Versions
      /\ answeredFor \in [Fields -> {"nothing"} \cup {d.options : d \in Definitions}]
  BY DEF PlanInit, PlanConstants
<1>2. Active = {f \in Fields : Has(Base, f)}
  BY <1>1 DEF Active
<1>3. field = [f \in Active |-> NewField(Base, f)]
  <2>1. DOMAIN <<>> = {}
    OBVIOUS
  <2>2. QED
    BY <1>2, <2>1 DEF PlanInit, EvaluateFields
<1>4. ASSUME NEW f \in Active
      PROVE  field[f] \in States /\ FieldIsRight(f)
  <2>1. f \in Fields /\ Has(Base, f) /\ field[f] = NewField(Base, f)
    BY <1>2, <1>3
  <2>2. Definition(version, f) = Definition(Base, f) /\ Base \in Versions
    BY <1>1
  <2>3. QED
    BY <1>1, <2>1, <2>2, NewFieldFacts DEF FieldIsRight
<1>5. field \in [Active -> States]
  BY <1>3, <1>4
<1>6. QED
  BY <1>1, <1>4, <1>5 DEF PlanInv, PlanTypesOK

LEMMA SwitchKeeps ==
  ASSUME PlanConstants, PlanInv, NEW v \in Versions, Switch(v)
  PROVE  PlanInv'
<1>1. /\ version' = v /\ template' = template /\ sourceValue' = sourceValue
      /\ answeredFor' = answeredFor /\ field' = EvaluateFields(v, field)
  BY DEF Switch
<1>2. /\ template \in Templates /\ sourceValue \in [Fields -> {"source", NoValue}]
      /\ DOMAIN field = Active /\ field \in [Active -> States]
  BY DEF PlanInv, PlanTypesOK
<1>3. Active' = {g \in Fields : Has(v, g)}
  BY <1>1 DEF Active, Has, Definition
<1>4. Definitions' = Definitions
  BY <1>1 DEF Definitions
<1>5. States' = States
  BY <1>4 DEF States, Values
<1>6. ASSUME NEW f \in Active'
      PROVE  /\ f \in Fields /\ Has(v, f) /\ Definition(v, f) \in Definitions
             /\ Definition(version, f)' = Definition(v, f)
  BY <1>1, <1>3, <1>6 DEF Definitions, Definition
<1>7. ASSUME NEW f \in Active'
      PROVE  field'[f] \in States /\ FieldIsRight(f)'
  <2>0. SourceOf(version, f)' = SourceOf(v, f)
    BY <1>1 DEF SourceOf, Has, TypeChanged, Definition
  <2>1. /\ f \in Fields /\ Has(v, f) /\ Definition(v, f) \in Definitions
        /\ Definition(version, f)' = Definition(v, f)
    BY <1>6
  <2>2. CASE f \in DOMAIN field /\ field[f].kind = Definition(v, f).kind
    <3>1. field'[f] = Keep(field[f], Definition(v, f))
      BY <1>1, <1>3, <2>2 DEF EvaluateFields
    <3>2. field[f] \in States /\ f \in Active
      BY <1>2, <2>2
    <3>3. FieldIsRight(f)
      BY <3>2 DEF PlanInv
    <3>4. PICK old, d, new : old = field[f] /\ d = Definition(v, f) /\ new = Keep(old, d)
      OBVIOUS
    <3>5. /\ new \in States /\ new.kind = old.kind /\ new.policy = d.policy /\ new.options = d.options
          /\ new.value = old.value /\ (new.confirmed => d.kind # "secret")
          /\ new.answered =>
              old.answered /\ (d.policy = "ask" => old.policy = "ask" /\ old.options = d.options)
      BY <2>1, <3>2, <3>4, KeepFacts
    <3>6. field'[f] = new /\ new.kind = d.kind
      BY <2>2, <3>1, <3>4, <3>5
    <3>7. new.value = "source" => SourceOf(v, f) = "source"
      <4>1. Has(version, f) /\ old.kind = Definition(version, f).kind
        BY <3>2, <3>3, <3>4 DEF Active, FieldIsRight
      <4>2. TypeChanged(v, f) <=> TypeChanged(version, f)
        BY <2>1, <2>2, <3>4, <4>1 DEF TypeChanged
      <4>3. SourceOf(v, f) = SourceOf(version, f)
        BY <4>2 DEF SourceOf
      <4>4. QED
        BY <3>3, <3>4, <3>5, <4>3 DEF FieldIsRight
    <3>8. new.policy = "ask" /\ new.answered => answeredFor[f] = new.options
      BY <3>3, <3>4, <3>5 DEF FieldIsRight
    <3>9. QED
      BY <1>1, <2>0, <2>1, <3>4, <3>5, <3>6, <3>7, <3>8 DEF FieldIsRight
  <2>3. CASE ~(f \in DOMAIN field /\ field[f].kind = Definition(v, f).kind)
    <3>1. field'[f] = NewField(v, f)
      BY <1>1, <1>3, <2>3 DEF EvaluateFields
    <3>2. PICK r : r = NewField(v, f)
      OBVIOUS
    <3>3. /\ r \in States /\ r.kind = Definition(v, f).kind
          /\ r.policy = Definition(v, f).policy /\ r.options = Definition(v, f).options
          /\ r.value = "source" => SourceOf(v, f) = "source"
          /\ r.confirmed = FALSE
          /\ r.policy = "ask" => r.answered = FALSE
      BY <1>2, <2>1, <3>2, NewFieldFacts
    <3>4. QED
      BY <1>1, <2>0, <2>1, <3>1, <3>2, <3>3 DEF FieldIsRight
  <2>4. QED
    BY <2>2, <2>3
<1>8. field' \in [Active' -> States]
  <2>1. field' = [f \in Active' |-> IF f \in DOMAIN field /\ field[f].kind = Definition(v, f).kind
                                    THEN Keep(field[f], Definition(v, f)) ELSE NewField(v, f)]
    BY <1>1, <1>3 DEF EvaluateFields
  <2>2. QED
    BY <1>7, <2>1
<1>9. PlanTypesOK'
  BY <1>1, <1>4, <1>5, <1>8 DEF PlanInv, PlanTypesOK
<1>10. QED
  BY <1>7, <1>9 DEF PlanInv

(* A step that changes one field and leaves the version as it is. *)
LEMMA OneFieldKeeps ==
  ASSUME PlanInv, NEW f \in Active, NEW r \in States, field' = [field EXCEPT ![f] = r],
         UNCHANGED <<template, sourceValue, version>>,
         answeredFor' \in [Fields -> {"nothing"} \cup {d.options : d \in Definitions}],
         \A g \in Fields : g # f => answeredFor'[g] = answeredFor[g],
         \A g \in Fields : g # f /\ g \in confirmedNow => g \in confirmedNow',
         r.kind = Definition(version, f).kind, r.policy = Definition(version, f).policy,
         r.options = Definition(version, f).options,
         r.value = "source" => SourceOf(version, f) = "source",
         r.kind = "secret" /\ r.confirmed => f \in confirmedNow',
         r.policy = "ask" /\ r.answered => answeredFor'[f] = r.options
  PROVE  PlanInv'
<1>1. /\ Active' = Active /\ Definitions' = Definitions
      /\ \A g : Definition(version, g)' = Definition(version, g)
      /\ \A g : SourceOf(version, g)' = SourceOf(version, g)
  BY DEF Active, Has, Definition, Definitions, SourceOf, TypeChanged
<1>2. States' = States
  BY <1>1 DEF States, Values
<1>3. /\ field' \in [Active -> States] /\ field'[f] = r
      /\ \A g \in Active : g # f => field'[g] = field[g]
  BY DEF PlanInv, PlanTypesOK
<1>4. PlanTypesOK'
  BY <1>1, <1>2, <1>3 DEF PlanInv, PlanTypesOK
<1>5. ASSUME NEW g \in Active PROVE FieldIsRight(g)'
  <2>1. CASE g = f
    BY <2>1, <1>1, <1>3 DEF FieldIsRight
  <2>2. CASE g # f
    <3>1. g \in Fields /\ FieldIsRight(g)
      BY DEF Active, PlanInv
    <3>2. QED
      BY <2>2, <3>1, <1>1, <1>3 DEF FieldIsRight
  <2>3. QED
    BY <2>1, <2>2
<1>6. QED
  BY <1>1, <1>4, <1>5 DEF PlanInv

LEMMA AnswerKeeps ==
  ASSUME PlanConstants, PlanInv, NEW f \in Fields, Answer(f)
  PROVE  PlanInv'
<1> DEFINE d == Definition(version, f)
<1>1. /\ f \in Active /\ UNCHANGED <<template, sourceValue, version>>
      /\ confirmedNow' = confirmedNow \ {f} /\ answeredFor' = [answeredFor EXCEPT ![f] = d.options]
  BY DEF Answer
<1>2. PICK value \in Answers(f) : field' = [field EXCEPT ![f] = FieldState(d, value, TRUE)]
  BY DEF Answer, Answered
<1>3. d \in Definitions
  BY DEF Definitions, Definition, PlanInv, PlanTypesOK
<1>4. /\ value \in Values
      /\ value = "source" => SourceOf(version, f) = "source"
  <2>1. sourceValue[f] \in {"source", NoValue}
    BY DEF PlanInv, PlanTypesOK
  <2>2. CanCopy(f) => SourceOf(version, f) = sourceValue[f]
    BY DEF CanCopy, SourceOf
  <2>3. QED
    BY <1>3, <2>1, <2>2 DEF Answers, Generated, PlanConstants, Values
<1>5. PICK r : r = FieldState(d, value, TRUE)
  OBVIOUS
<1>6. /\ r \in States /\ r.kind = d.kind /\ r.policy = d.policy /\ r.options = d.options
      /\ r.value = value /\ r.confirmed = FALSE
  BY <1>3, <1>4, <1>5 DEF FieldState, States
<1>7. /\ answeredFor' \in [Fields -> {"nothing"} \cup {e.options : e \in Definitions}]
      /\ answeredFor'[f] = d.options /\ \A g \in Fields : g # f => answeredFor'[g] = answeredFor[g]
  BY <1>1, <1>3 DEF PlanInv, PlanTypesOK
<1>8. QED
  BY <1>1, <1>2, <1>4, <1>5, <1>6, <1>7, OneFieldKeeps

LEMMA ConfirmSecretKeeps ==
  ASSUME PlanInv, NEW f \in Fields, ConfirmSecret(f)
  PROVE  PlanInv'
<1>1. /\ f \in Active /\ UNCHANGED <<template, sourceValue, version, answeredFor>>
      /\ confirmedNow' = confirmedNow \cup {f}
  BY DEF ConfirmSecret
<1>2. PICK r : r = [field[f] EXCEPT !.confirmed = TRUE]
  OBVIOUS
<1>3. field[f] \in States /\ FieldIsRight(f)
  BY <1>1 DEF PlanInv, PlanTypesOK
<1>4. /\ r \in States /\ r.kind = field[f].kind /\ r.policy = field[f].policy
      /\ r.options = field[f].options /\ r.value = field[f].value /\ r.answered = field[f].answered
  BY <1>2, <1>3 DEF States
<1>5. field' = [field EXCEPT ![f] = r]
  BY <1>2 DEF ConfirmSecret
<1>6. answeredFor' \in [Fields -> {"nothing"} \cup {d.options : d \in Definitions}]
  BY <1>1 DEF PlanInv, PlanTypesOK
<1>7. QED
  BY <1>1, <1>3, <1>4, <1>5, <1>6, OneFieldKeeps DEF FieldIsRight

LEMMA PlanStepKeeps ==
  ASSUME PlanConstants, PlanInv, [PlanNext]_planVars
  PROVE  PlanInv'
<1>1. ASSUME PlanInv, PlanNext PROVE PlanInv'
  BY <1>1, SwitchKeeps, AnswerKeeps, ConfirmSecretKeeps DEF PlanNext
<1>2. ASSUME PlanInv, UNCHANGED planVars PROVE PlanInv'
  BY <1>2 DEF planVars, PlanInv, PlanTypesOK, FieldIsRight, Active, Has, Definition, Definitions, States, Values, SourceOf, TypeChanged
<1>3. QED
  BY <1>1, <1>2

(* The invariant says what the run checks. *)
LEMMA PlanInvariantSuffices ==
  ASSUME PlanConstants, PlanInv
  PROVE  NothingIsAssumed
<1>1. ASSUME Ready, NEW f \in Active
      PROVE  /\ Definition(version, f).kind = "secret" /\ field[f].value = "source" => f \in confirmedNow
             /\ Definition(version, f).policy = "ask" => answeredFor[f] = Definition(version, f).options
  <2>1. FieldIsRight(f) /\ field[f].answered /\ ~NeedsConfirmation(f)
    BY <1>1 DEF PlanInv, Ready, Concern
  <2>2. ASSUME Definition(version, f).kind = "secret", field[f].value = "source" PROVE f \in confirmedNow
    <3>1. field[f].confirmed
      BY <2>1, <2>2 DEF FieldIsRight, SourceOf, NeedsConfirmation, PlanConstants
    <3>2. QED
      BY <2>1, <2>2, <3>1 DEF FieldIsRight
  <2>3. QED
    BY <2>1, <2>2 DEF FieldIsRight
<1>2. QED
  BY <1>1 DEF NothingIsAssumed

(* Whatever way the user takes through the versions, a plan that may be      *)
(* confirmed reuses no secret but one confirmed for this version and answers *)
(* this version's questions: evaluate_fields, answer_field and preview of    *)
(* clone_plan/evaluation.rs.                                                 *)
THEOREM PlanAssumesNothing == PlanSpec => []NothingIsAssumed
<1>1. PlanInit => PlanInv
  BY PlanAssumption, PlanStart
<1>2. PlanInv /\ [PlanNext]_planVars => PlanInv'
  BY PlanAssumption, PlanStepKeeps
<1>3. PlanInv => NothingIsAssumed
  BY PlanAssumption, PlanInvariantSuffices
<1>4. QED
  BY <1>1, <1>2, <1>3, PTL DEF PlanSpec

-------------------------------------------------------------------------------
(* The policy of the domain.                                                 *)

(* What the policy sees of a field it says something about, and of another. *)
LEMMA PolicySees ==
  ASSUME NEW f \in Fields, ~Foreign(f)
  PROVE  /\ f \in Active
         /\ PolicyDefinition[f] = Definition(version, f) /\ PolicySource[f] = SourceOf(version, f)
         /\ PolicyCandidate[f] = (IF field[f].answered THEN field[f].value ELSE NoValue)
         /\ PolicyAnswered[f] =
              (field[f].answered \/ (field[f].policy = "copy" /\ field[f].value = NoValue))
         /\ PolicyConfirmed[f] = (field[f].answered /\ field[f].confirmed)
BY DEF Foreign, PolicyDefinition, PolicySource, PolicyCandidate, PolicyAnswered, PolicyConfirmed

LEMMA PolicySeesNothing ==
  ASSUME NEW f \in Fields, Foreign(f)
  PROVE  /\ PolicyDefinition[f] = Inert /\ PolicySource[f] = NoValue /\ PolicyCandidate[f] = NoValue
         /\ PolicyAnswered[f] = FALSE /\ PolicyConfirmed[f] = FALSE
BY DEF PolicyDefinition, PolicySource, PolicyCandidate, PolicyAnswered, PolicyConfirmed

LEMMA PolicyStarts ==
  ASSUME PlanConstants, PlanInit
  PROVE  PolicyStart
<1>1. PlanInv /\ version = Base /\ sourceValue \in [Fields -> {"source", NoValue}]
  BY PlanStart DEF PlanInit
<1>2. ASSUME NEW f \in Fields, Foreign(f)
      PROVE  Policy!Permitted(PolicyDefinition[f]) /\ Policy!Evaluated(f)
  <2>1. /\ PolicyDefinition[f] = Inert /\ PolicyCandidate[f] = NoValue
        /\ PolicyAnswered[f] = FALSE /\ PolicyConfirmed[f] = FALSE
    BY <1>2, PolicySeesNothing
  <2>2. Inert.kind = "text" /\ Inert.policy = "ask"
    BY DEF Inert
  <2>3. Policy!Permitted(PolicyDefinition[f])
    BY <2>1, <2>2 DEF Policy!Permitted
  <2>4. PolicyDefinition[f].policy = "ask"
    BY <2>1, <2>2
  <2>5. Policy!Evaluated(f)
    BY <2>1, <2>4 DEF Policy!Evaluated
  <2>6. QED
    BY <2>3, <2>5
<1>3. ASSUME NEW f \in Fields, ~Foreign(f)
      PROVE  Policy!Permitted(PolicyDefinition[f]) /\ Policy!Evaluated(f)
  <2>1. /\ f \in Active /\ Has(Base, f) /\ ~TypeChanged(Base, f)
    BY <1>1, <1>3, PolicySees DEF Active, TypeChanged
  <2>2. PICK d, source : d = Definition(Base, f) /\ source = sourceValue[f]
    OBVIOUS
  <2>3. PolicyDefinition[f] = d /\ PolicySource[f] = source /\ source \in {"source", NoValue}
    BY <1>1, <1>3, <2>1, <2>2, PolicySees DEF SourceOf
  <2>4. /\ d.policy \in {"copy", "ask", "regenerate", "clear"}
        /\ d.policy = "regenerate" => d.kind = "secret" /\ "fresh" \in d.accepts
    BY <1>1, <2>1, <2>2 DEF PlanConstants, PlanInit, Has, Definition
  <2>5. PICK value : value = CASE d.policy \in {"copy", "ask"} -> source
                               [] d.policy = "regenerate" -> Generated
                               [] d.policy = "clear" -> NoValue
    OBVIOUS
  <2>6. PICK answered : answered = (d.policy # "ask" /\ (d.policy = "copy" => Valid(d, source)))
    OBVIOUS
  <2>7. field[f] = FieldState(d, value, answered)
    <3>1. DOMAIN <<>> = {}
      OBVIOUS
    <3>2. field[f] = NewField(Base, f)
      BY <2>1, <3>1 DEF PlanInit, EvaluateFields
    <3>3. SourceOf(Base, f) = source
      BY <2>1, <2>2 DEF SourceOf
    <3>4. (answered /\ ~TypeChanged(Base, f)) = answered
      BY <2>1, <2>6
    <3>5. QED
      BY <2>2, <2>5, <2>6, <3>2, <3>3, <3>4 DEF NewField
  <2>8. /\ field[f].value = value /\ field[f].answered = answered /\ field[f].confirmed = FALSE
        /\ field[f].policy = d.policy
    BY <2>7 DEF FieldState
  <2>9. Policy!Permitted(PolicyDefinition[f])
    BY <2>3, <2>4 DEF Policy!Permitted, Policy!Fresh
  <2>10. Policy!ValidSource(f) <=> (source = NoValue \/ source \in d.accepts)
    BY <2>3 DEF Policy!ValidSource, Policy!Accepts
  <2>11. PolicyCandidate[f] = IF d.policy = "copy" /\ Policy!ValidSource(f) THEN source
                              ELSE IF d.policy = "regenerate" THEN Policy!Fresh ELSE NoValue
    BY <1>3, <2>3, <2>4, <2>5, <2>6, <2>8, <2>10, PolicySees
       DEF Valid, Generated, Policy!Fresh, PlanConstants
  <2>12. PolicyAnswered[f] = (d.policy # "ask" /\ (d.policy = "copy" => Policy!ValidSource(f)))
    BY <1>3, <2>3, <2>4, <2>5, <2>6, <2>8, <2>10, PolicySees DEF Valid, PlanConstants
  <2>13. PolicyConfirmed[f] = FALSE
    BY <1>3, <2>8, PolicySees
  <2>14. QED
    BY <2>3, <2>9, <2>11, <2>12, <2>13 DEF Policy!Evaluated
<1>4. QED
  BY <1>2, <1>3 DEF PolicyStart, Policy!Init

(* Within a version the policy sees no change but of the field that changes. *)
LEMMA PolicySeesOne ==
  ASSUME PlanInv, NEW f \in Active, NEW r, field' = [field EXCEPT ![f] = r],
         UNCHANGED <<template, sourceValue, version>>
  PROVE  /\ PolicyDefinition' = PolicyDefinition /\ PolicySource' = PolicySource
         /\ Foreign(f) => UNCHANGED <<PolicyCandidate, PolicyAnswered, PolicyConfirmed>>
         /\ ~Foreign(f) =>
              /\ PolicyCandidate' =
                   [PolicyCandidate EXCEPT ![f] = IF r.answered THEN r.value ELSE NoValue]
              /\ PolicyAnswered' =
                   [PolicyAnswered EXCEPT ![f] =
                      (r.answered \/ (r.policy = "copy" /\ r.value = NoValue))]
              /\ PolicyConfirmed' =
                   [PolicyConfirmed EXCEPT ![f] = (r.answered /\ r.confirmed)]
<1>1. /\ \A v, g : Definition(v, g)' = Definition(v, g)
      /\ version' = version /\ sourceValue' = sourceValue
  BY DEF Definition
<1>2. \A g : Foreign(g)' = Foreign(g)
  BY <1>1 DEF Foreign, Active, TypeChanged, Has, Definition
<1>3. \A g : SourceOf(version, g)' = SourceOf(version, g)
  BY <1>1 DEF SourceOf, TypeChanged, Has, Definition
<1>4. field'[f] = r /\ \A g \in Active : g # f => field'[g] = field[g]
  BY DEF PlanInv, PlanTypesOK
<1>5. PolicyDefinition' = PolicyDefinition
  BY <1>1, <1>2 DEF PolicyDefinition
<1>6. PolicySource' = PolicySource
  BY <1>2, <1>3 DEF PolicySource
<1>7. \A g \in Fields : ~Foreign(g) => g \in Active
  BY DEF Foreign
<1>8. CASE Foreign(f)
  <2>1. \A g \in Fields : ~Foreign(g) => field'[g] = field[g]
    BY <1>4, <1>7, <1>8
  <2>2. PolicyCandidate' = PolicyCandidate
    BY <1>2, <2>1 DEF PolicyCandidate
  <2>3. PolicyAnswered' = PolicyAnswered
    BY <1>2, <2>1 DEF PolicyAnswered
  <2>4. PolicyConfirmed' = PolicyConfirmed
    BY <1>2, <2>1 DEF PolicyConfirmed
  <2>5. QED
    BY <1>5, <1>6, <1>8, <2>2, <2>3, <2>4
<1>9. CASE ~Foreign(f)
  <2>1. \A g \in Fields : ~Foreign(g) /\ g # f => field'[g] = field[g]
    BY <1>4, <1>7
  <2>2. PolicyCandidate' =
          [PolicyCandidate EXCEPT ![f] = IF r.answered THEN r.value ELSE NoValue]
    <3>1. PICK c : c = IF r.answered THEN r.value ELSE NoValue
      OBVIOUS
    <3>2. /\ PolicyCandidate' = [g \in Fields |-> PolicyCandidate'[g]]
          /\ PolicyCandidate = [g \in Fields |-> PolicyCandidate[g]]
      BY DEF PolicyCandidate
    <3>3. PolicyCandidate'[f] = c
      <4>1. ~Foreign(f)'
        BY <1>2, <1>9
      <4>2. f \in Fields /\ field'[f] = r
        BY <1>4 DEF Active
      <4>3. PolicyCandidate'[f] = IF ~r.answered THEN NoValue ELSE r.value
        BY <4>1, <4>2 DEF PolicyCandidate
      <4>4. QED
        BY <3>1, <4>3
    <3>4. ASSUME NEW g \in Fields, g # f PROVE PolicyCandidate'[g] = PolicyCandidate[g]
      BY <1>2, <1>4, <1>7, <3>4, <2>1 DEF PolicyCandidate
    <3>5. QED
      BY <3>1, <3>2, <3>3, <3>4
  <2>3. PolicyAnswered' =
          [PolicyAnswered EXCEPT ![f] = (r.answered \/ (r.policy = "copy" /\ r.value = NoValue))]
    BY <1>2, <1>4, <1>9, <2>1 DEF PolicyAnswered
  <2>4. PolicyConfirmed' = [PolicyConfirmed EXCEPT ![f] = (r.answered /\ r.confirmed)]
    BY <1>2, <1>4, <1>9, <2>1 DEF PolicyConfirmed
  <2>5. QED
    BY <1>5, <1>6, <1>9, <2>2, <2>3, <2>4
<1>10. QED
  BY <1>8, <1>9

LEMMA AnswerFollows ==
  ASSUME PlanConstants, PlanInv, NEW f \in Fields, Answer(f)
  PROVE  [Policy!Next]_(Policy!fieldVars)
<1>1. f \in Active /\ UNCHANGED <<template, sourceValue, version>>
  BY DEF Answer
<1>2. PICK d : d = Definition(version, f)
  OBVIOUS
<1>3. PICK value \in Answers(f) : field' = [field EXCEPT ![f] = FieldState(d, value, TRUE)]
  BY <1>2 DEF Answer, Answered
<1>4. PICK r : r = FieldState(d, value, TRUE)
  OBVIOUS
<1>5. r.value = value /\ r.answered = TRUE /\ r.confirmed = FALSE
  BY <1>4 DEF FieldState
<1>6. field' = [field EXCEPT ![f] = r]
  BY <1>3, <1>4
<1>7. CASE Foreign(f)
  BY <1>1, <1>6, <1>7, PolicySeesOne DEF Policy!fieldVars
<1>8. CASE ~Foreign(f)
  <2>1. PolicyDefinition[f] = d /\ PolicySource[f] = SourceOf(version, f)
    BY <1>2, <1>8, PolicySees
  <2>2. value \in Policy!Answers(f)
    <3>1. CASE value \in {v \in {sourceValue[f]} : CanCopy(f)}
      <4>1. /\ value = SourceOf(version, f) /\ value # NoValue /\ value \in d.accepts
        BY <1>2, <3>1 DEF CanCopy, SourceOf, Valid
      <4>2. QED
        BY <2>1, <4>1 DEF Policy!Answers, Policy!Accepts
    <3>2. CASE value \in {v \in {Generated} : d.kind = "secret" /\ Valid(d, Generated)}
      <4>1. value = Policy!Fresh /\ d.kind = "secret" /\ value \in d.accepts
        BY <3>2 DEF Generated, Policy!Fresh, Valid, PlanConstants
      <4>2. QED
        BY <2>1, <4>1 DEF Policy!Answers, Policy!Accepts, Policy!Secret
    <3>3. CASE value \in {v \in d.accepts \ {NoValue} : v = "source" => v = SourceOf(version, f)}
      BY <2>1, <3>3 DEF Policy!Answers
    <3>4. CASE value \in {v \in {NoValue} : ~d.required}
      BY <2>1, <3>4 DEF Policy!Answers
    <3>5. QED
      BY <1>2, <3>1, <3>2, <3>3, <3>4 DEF Answers
  <2>3. /\ PolicyDefinition' = PolicyDefinition /\ PolicySource' = PolicySource
        /\ PolicyCandidate' = [PolicyCandidate EXCEPT ![f] = value]
        /\ PolicyAnswered' = [PolicyAnswered EXCEPT ![f] = TRUE]
        /\ PolicyConfirmed' = [PolicyConfirmed EXCEPT ![f] = FALSE]
    BY <1>1, <1>5, <1>6, <1>8, PolicySeesOne
  <2>4. Policy!Answer(f)
    BY <2>2, <2>3 DEF Policy!Answer
  <2>5. QED
    BY <2>4 DEF Policy!Next
<1>9. QED
  BY <1>7, <1>8

LEMMA ConfirmFollows ==
  ASSUME PlanConstants, PlanInv, NEW f \in Fields, ConfirmSecret(f)
  PROVE  [Policy!Next]_(Policy!fieldVars)
<1>1. /\ f \in Active /\ CanConfirm(f) /\ UNCHANGED <<template, sourceValue, version>>
  BY DEF ConfirmSecret
<1>2. PICK r : r = [field[f] EXCEPT !.confirmed = TRUE]
  OBVIOUS
<1>3. field[f] \in States /\ FieldIsRight(f) /\ field' = [field EXCEPT ![f] = r]
  BY <1>1, <1>2 DEF PlanInv, PlanTypesOK, ConfirmSecret
<1>4. /\ r.value = field[f].value /\ r.answered = field[f].answered /\ r.policy = field[f].policy
      /\ r.confirmed = TRUE /\ r.answered \in BOOLEAN
  BY <1>2, <1>3 DEF States
<1>5. CASE Foreign(f)
  BY <1>1, <1>3, <1>5, PolicySeesOne DEF Policy!fieldVars
<1>6. CASE ~Foreign(f)
  <2>1. /\ PolicyDefinition' = PolicyDefinition /\ PolicySource' = PolicySource
        /\ PolicyCandidate' =
             [PolicyCandidate EXCEPT ![f] = IF r.answered THEN r.value ELSE NoValue]
        /\ PolicyAnswered' =
             [PolicyAnswered EXCEPT ![f] =
                (r.answered \/ (r.policy = "copy" /\ r.value = NoValue))]
        /\ PolicyConfirmed' = [PolicyConfirmed EXCEPT ![f] = (r.answered /\ r.confirmed)]
    BY <1>1, <1>3, <1>6, PolicySeesOne
  <2>2. /\ PolicyDefinition[f] = Definition(version, f) /\ PolicySource[f] = SourceOf(version, f)
        /\ PolicyCandidate[f] = (IF r.answered THEN r.value ELSE NoValue)
        /\ PolicyAnswered[f] = (r.answered \/ (r.policy = "copy" /\ r.value = NoValue))
        /\ PolicyConfirmed[f] = (field[f].answered /\ field[f].confirmed)
    BY <1>4, <1>6, PolicySees
  <2>3. UNCHANGED <<PolicyCandidate, PolicyAnswered>>
    <3>1. PICK c : c = IF r.answered THEN r.value ELSE NoValue
      OBVIOUS
    <3>2. PICK a : a = (r.answered \/ (r.policy = "copy" /\ r.value = NoValue))
      OBVIOUS
    <3>3. PolicyCandidate' = [PolicyCandidate EXCEPT ![f] = c] /\ PolicyCandidate[f] = c
      BY <2>1, <2>2, <3>1
    <3>4. PolicyAnswered' = [PolicyAnswered EXCEPT ![f] = a] /\ PolicyAnswered[f] = a
      BY <2>1, <2>2, <3>2
    <3>5. PolicyCandidate = [g \in Fields |-> PolicyCandidate[g]]
      BY DEF PolicyCandidate
    <3>6. PolicyAnswered = [g \in Fields |-> PolicyAnswered[g]]
      BY DEF PolicyAnswered
    <3>7. PolicyCandidate' = PolicyCandidate
      BY <3>3, <3>5
    <3>8. PolicyAnswered' = PolicyAnswered
      BY <3>4, <3>6
    <3>9. QED
      BY <3>7, <3>8
  <2>4. CASE r.answered
    <3>1. PolicyConfirmed' = [PolicyConfirmed EXCEPT ![f] = TRUE]
      BY <1>4, <2>1, <2>4
    <3>2. Policy!Inherits(f)
      <4>1. /\ field[f].value # NoValue /\ field[f].value = sourceValue[f]
            /\ Definition(version, f).kind = "secret"
        BY <1>1 DEF CanConfirm
      <4>2. sourceValue[f] = "source"
        BY <1>1, <4>1 DEF PlanInv, PlanTypesOK, Active
      <4>3. SourceOf(version, f) = "source"
        BY <1>3, <4>1, <4>2 DEF FieldIsRight
      <4>4. QED
        BY <1>4, <2>2, <2>4, <4>1, <4>2, <4>3 DEF Policy!Inherits, Policy!Secret
    <3>3. Policy!Confirm(f)
      BY <2>1, <2>3, <3>1, <3>2 DEF Policy!Confirm
    <3>4. QED
      BY <3>3 DEF Policy!Next
  <2>5. CASE ~r.answered
    <3>1. PolicyConfirmed' = PolicyConfirmed
      BY <1>4, <2>1, <2>2, <2>5 DEF PolicyConfirmed
    <3>2. QED
      BY <2>1, <2>3, <3>1 DEF Policy!fieldVars
  <2>6. QED
    BY <2>4, <2>5
<1>7. QED
  BY <1>5, <1>6

LEMMA ReadyFollows ==
  ASSUME PlanConstants, PlanInv
  PROVE  PolicyReady
<1>1. ASSUME Ready, NEW f \in Fields, ~Foreign(f)
      PROVE  Policy!ReadyField(f)
  <2>1. /\ f \in Active /\ PolicyDefinition[f] = Definition(version, f)
        /\ PolicySource[f] = SourceOf(version, f)
        /\ PolicyCandidate[f] = (IF field[f].answered THEN field[f].value ELSE NoValue)
        /\ PolicyAnswered[f] =
             (field[f].answered \/ (field[f].policy = "copy" /\ field[f].value = NoValue))
        /\ PolicyConfirmed[f] = (field[f].answered /\ field[f].confirmed)
    BY <1>1, PolicySees
  <2>2. /\ Valid(Definition(version, f), field[f].value) /\ field[f].answered
        /\ ~NeedsConfirmation(f)
    BY <1>1, <2>1 DEF Ready, Concern
  <2>3. Definition(version, f).required => PolicyCandidate[f] # NoValue
    BY <2>1, <2>2 DEF Valid
  <2>4. ASSUME Policy!Inherits(f) PROVE PolicyConfirmed[f]
    <3>1. /\ Definition(version, f).kind = "secret" /\ field[f].value # NoValue
          /\ field[f].value = SourceOf(version, f)
      BY <2>1, <2>2, <2>4 DEF Policy!Inherits, Policy!Secret
    <3>2. field[f].value = sourceValue[f]
      BY <3>1 DEF SourceOf
    <3>3. QED
      BY <2>1, <2>2, <3>1, <3>2 DEF NeedsConfirmation
  <2>5. QED
    BY <2>1, <2>2, <2>3, <2>4 DEF Policy!ReadyField
<1>2. QED
  BY <1>1 DEF PolicyReady

(* Within one version the plan does to its fields what EvaluatedField of     *)
(* clone_policy.rs allows, and is ready only when the policy is: the         *)
(* evaluation of clone_plan/evaluation.rs implements the policy that the     *)
(* domain states and tests.                                                  *)
THEOREM PolicyIsFollowed == PlanSpec => FollowsPolicy
<1>1. PlanInit => PlanInv
  BY PlanAssumption, PlanStart
<1>2. PlanInv /\ [PlanNext]_planVars => PlanInv'
  BY PlanAssumption, PlanStepKeeps
<1>3. PlanInit => PolicyStart
  BY PlanAssumption, PolicyStarts
<1>4. PlanInv /\ [PlanNext]_planVars => [PolicyStep]_planVars
  <2>1. ASSUME PlanInv, PlanNext, version' = version
        PROVE  [Policy!Next]_(Policy!fieldVars)
    BY PlanAssumption, <2>1, AnswerFollows, ConfirmFollows DEF PlanNext, Switch
  <2>2. QED
    BY <2>1 DEF PolicyStep
<1>5. PlanInv => PolicyReady
  BY PlanAssumption, ReadyFollows
<1>6. QED
  BY <1>1, <1>2, <1>3, <1>4, <1>5, PTL DEF FollowsPolicy, PlanSpec

-------------------------------------------------------------------------------
(***************************************************************************)
(* The search for host ports.  The invariant says what the cursor holds    *)
(* between two questions and between two calls: that a selection is one    *)
(* the plan could still make, what the call has found out about it, and    *)
(* that the ports behind the cursor were taken at some time or are some    *)
(* slot's.                                                                 *)
(***************************************************************************)

Cursors == [next : [Slots -> Nat], selected : [Slots -> Nat], checked : [Slots -> Nat]]
Searches == [at : {"returned", "explicit", "selected", "scan"}, used : SUBSET Nat,
             todo : SUBSET Slots, attempts : Nat, ledger : SUBSET Ports]
PortTypesOK ==
  /\ input \in [Slots -> SlotRecords]
  /\ taken \in [ledger : SUBSET Ports, host : SUBSET Ports]
  /\ cursor \in Cursors
  /\ search \in Searches
  /\ retyped \in BOOLEAN

HeldIsKnown == Held(taken) \subseteq ever /\ search.ledger \subseteq ever

\* What is selected is behind the cursor and, while nothing is retyped but
\* before a call, a port the plan could still select.
SelectionsStand ==
  /\ \A s \in Slots : cursor.selected[s] > 0 => cursor.selected[s] < cursor.next[s]
  /\ search.at # "returned" \/ ~retyped =>
       \A s \in Slots : cursor.selected[s] > 0 => StillSelected(s)
  /\ search.at # "returned" => \A s \in Slots \ Automatic : ValidExplicit(s)

\* What the call knows: selections it has looked at were free as it read them.
LookedAt ==
  /\ search.at = "selected" =>
       /\ \A s \in search.todo : cursor.selected[s] > 0
       /\ \A s \in Slots \ search.todo :
            cursor.selected[s] > 0 => cursor.selected[s] \notin search.ledger
  /\ search.at = "scan" =>
       /\ \A s \in Selections : cursor.selected[s] \notin search.ledger
       /\ search.used = Explicit \cup {cursor.selected[s] : s \in Selections}
       /\ \A s, t \in Selections : cursor.selected[s] = cursor.selected[t] => s = t

AccountedFor(s, p) ==
  \/ p = cursor.selected[s] \/ p \in ever \/ p \in Explicit
  \/ \E t \in Slots \ {s} : cursor.selected[t] = p
NothingPassedOver ==
  ~retyped => \A s \in Slots : \A p \in Candidates(s) : p < cursor.next[s] => AccountedFor(s, p)

\* The same of any cursor the next call may take up: the plan's own, which it
\* goes on with when a call is rejected or needs an input.
Stands(s, port) ==
  /\ s \in Automatic /\ port \in input[s].min..input[s].max /\ port > input[s].source
  /\ port \notin Explicit
AccountedBy(c, s, p) ==
  \/ p = c.selected[s] \/ p \in ever \/ p \in Explicit
  \/ \E t \in Slots \ {s} : c.selected[t] = p
MayGoOnWith(c) ==
  /\ c \in Cursors
  /\ \A s \in Slots : c.selected[s] > 0 => c.selected[s] < c.next[s]
  /\ ~retyped => \A s \in Slots :
       /\ c.selected[s] > 0 => Stands(s, c.selected[s])
       /\ \A p \in Candidates(s) : p < c.next[s] => AccountedBy(c, s, p)
StoredStands == MayGoOnWith(stored) /\ (search.at = "returned" => cursor = stored)

PortInv ==
  /\ PortTypesOK /\ HeldIsKnown /\ SelectionsStand /\ LookedAt /\ NothingPassedOver
  /\ StoredStands /\ PortSearchIsRight

LEMMA LeastExists ==
  ASSUME NEW S \in SUBSET Nat, S # {}
  PROVE  \E m \in S : \A k \in S : m <= k
<1> DEFINE R == OpToRel(<, Nat)
<1>1. IsWellFoundedOn(R, S)
  <2>1. IsWellFoundedOn(R, Nat)
    BY NatLessThanWellFounded, Zenon
  <2> HIDE DEF R
  <2>2. QED
    BY <2>1, IsWellFoundedOnSubset
<1>2. PICK m \in S : \A k \in S : ~(<<k, m>> \in R)
  <2> HIDE DEF R
  <2>1. QED
    BY <1>1, WFMin
<1>3. \A k \in S : ~(k < m)
  BY <1>2 DEF OpToRel
<1> HIDE DEF R
<1>4. \A k \in S : m <= k
  BY <1>3
<1>5. QED
  BY <1>4

LEMMA LeastIsIn ==
  ASSUME PortConstants, NEW S \in SUBSET Slots, S # {}
  PROVE  LeastSlot(S) \in S
BY LeastExists DEF LeastSlot, PortConstants

\* While the input stays, so does all that is read off it.
LEMMA SameInput ==
  ASSUME UNCHANGED input
  PROVE  /\ Automatic' = Automatic /\ Explicit' = Explicit
         /\ \A s : /\ FirstPort(s)' = FirstPort(s) /\ Candidates(s)' = Candidates(s)
                   /\ ValidExplicit(s)' = ValidExplicit(s)
BY DEF Automatic, Explicit, FirstPort, Candidates, ValidExplicit

\* A selection the cursor keeps stands as it stood.
LEMMA SelectionStays ==
  ASSUME UNCHANGED input, NEW s \in Slots, cursor'.selected[s] = cursor.selected[s],
         StillSelected(s)
  PROVE  StillSelected(s)'
BY SameInput DEF StillSelected

LEMMA FreshCursor ==
  ASSUME PortConstants
  PROVE  Fresh \in Cursors /\ \A s \in Slots : Fresh.next[s] = 0 /\ Fresh.selected[s] = 0
BY DEF Fresh, Cursors

LEMMA FreshIsKept ==
  ASSUME PortConstants
  PROVE  MayGoOnWith(Fresh)
BY FreshCursor DEF MayGoOnWith, Candidates, PortConstants

LEMMA ReturnedSearch ==
  /\ Returned \in Searches /\ Returned.at = "returned" /\ Returned.ledger = {}
  /\ Returned.todo = {} /\ Returned.used = {} /\ Returned.attempts = 0
BY DEF Returned, Searches

LEMMA CandidatesAreNumbers ==
  ASSUME PortConstants, NEW s \in Slots, NEW p \in Candidates(s)
  PROVE  p \in Nat /\ p > 0
BY DEF Candidates, PortConstants

LEMMA SlotFacts ==
  ASSUME PortTypesOK, NEW s \in Slots
  PROVE  /\ input[s].source \in Nat /\ input[s].recommended \in Nat /\ input[s].explicit \in Nat
         /\ input[s].min \in Nat /\ input[s].max \in Nat /\ FirstPort(s) \in Nat
         /\ cursor.next[s] \in Nat /\ cursor.selected[s] \in Nat /\ cursor.checked[s] \in Nat
<1>1. input[s] \in SlotRecords /\ cursor \in Cursors
  BY DEF PortTypesOK
<1>2. /\ input[s].source \in Nat /\ input[s].recommended \in Nat /\ input[s].explicit \in Nat
      /\ input[s].min \in Nat /\ input[s].max \in Nat
  BY <1>1 DEF SlotRecords
<1>3. QED
  BY <1>1, <1>2 DEF FirstPort, Cursors

(* The initial states. *)
LEMMA PortStart ==
  ASSUME PortConstants, PortInit
  PROVE  PortInv
<1>1. /\ cursor = Fresh /\ stored = Fresh /\ search = Returned /\ ever = Held(taken) /\ retyped = FALSE
      /\ plan.kind = "none"
  BY DEF PortInit
<1>2. PortTypesOK
  <2>1. input \in [Slots -> SlotRecords]
    BY DEF PortInit, PortConstants
  <2>2. taken \in [ledger : SUBSET Ports, host : SUBSET Ports]
    BY DEF PortInit
  <2>3. QED
    BY <1>1, <2>1, <2>2, FreshCursor, ReturnedSearch DEF PortTypesOK
<1>3. HeldIsKnown
  BY <1>1, ReturnedSearch DEF HeldIsKnown
<1>4. SelectionsStand
  BY <1>1, ReturnedSearch, FreshCursor DEF SelectionsStand
<1>5. LookedAt
  BY <1>1, ReturnedSearch DEF LookedAt
<1>6. NothingPassedOver
  BY <1>1, FreshCursor, CandidatesAreNumbers DEF NothingPassedOver
<1>7. PortSearchIsRight
  BY <1>1 DEF PortSearchIsRight, PlanIsSound, NoFreePortSkipped
<1>8. StoredStands
  BY <1>1, FreshIsKept DEF StoredStands
<1>9. QED
  BY <1>2, <1>3, <1>4, <1>5, <1>6, <1>7, <1>8 DEF PortInv

(* A call that ends, with its result right. *)
LEMMA FreshKept ==
  ASSUME PortConstants, PortInv, KeepCursor(Fresh), search' = Returned, UNCHANGED taken,
         input' \in [Slots -> SlotRecords], PortSearchIsRight'
  PROVE  PortInv'
<1>1. cursor' = Fresh /\ stored' = Fresh /\ ever' = Held(taken) /\ retyped' = FALSE
  BY DEF KeepCursor
<1>2. PortTypesOK'
  BY <1>1, ReturnedSearch, FreshCursor DEF PortInv, PortTypesOK
<1>3. HeldIsKnown'
  BY <1>1, ReturnedSearch DEF HeldIsKnown, Held
<1>4. SelectionsStand'
  BY <1>1, ReturnedSearch, FreshCursor DEF SelectionsStand
<1>5. LookedAt'
  BY ReturnedSearch DEF LookedAt
<1>6. ASSUME NEW s \in Slots, NEW q \in Candidates(s)' PROVE q > 0
  BY <1>6 DEF Candidates, PortConstants
<1>7. NothingPassedOver'
  BY <1>1, <1>6, FreshCursor DEF NothingPassedOver, PortConstants, Candidates
<1>8. StoredStands'
  <2>1. MayGoOnWith(Fresh)'
    BY <1>6, FreshCursor DEF MayGoOnWith, PortConstants, Candidates
  <2>2. QED
    BY <1>1, <2>1 DEF StoredStands, MayGoOnWith, Stands, AccountedBy
<1>9. QED
  BY <1>2, <1>3, <1>4, <1>5, <1>7, <1>8 DEF PortInv

LEMMA CursorKept ==
  ASSUME PortConstants, PortInv, NEW c, MayGoOnWith(c), KeepCursor(c), search' = Returned,
         UNCHANGED <<input, taken>>, PortSearchIsRight'
  PROVE  PortInv'
<1>1. CASE c = Fresh
  BY <1>1, FreshKept DEF PortInv, PortTypesOK
<1>2. CASE c # Fresh
  <2>1. cursor' = c /\ stored' = c /\ UNCHANGED <<ever, retyped>>
    BY <1>2 DEF KeepCursor
  <2>2. PortTypesOK'
    BY <2>1, ReturnedSearch DEF PortInv, PortTypesOK, MayGoOnWith
  <2>3. HeldIsKnown'
    BY <2>1, ReturnedSearch DEF PortInv, HeldIsKnown, Held
  <2>4. SelectionsStand'
    BY <2>1, ReturnedSearch, SameInput DEF SelectionsStand, MayGoOnWith, Stands, StillSelected
  <2>5. LookedAt'
    BY ReturnedSearch DEF LookedAt
  <2>6. NothingPassedOver'
    BY <2>1, SameInput DEF NothingPassedOver, AccountedFor, MayGoOnWith, AccountedBy
  <2>7. StoredStands'
    BY <2>1, SameInput DEF StoredStands, MayGoOnWith, Stands, AccountedBy
  <2>8. QED
    BY <2>2, <2>3, <2>4, <2>5, <2>6, <2>7 DEF PortInv
<1>3. QED
  BY <1>1, <1>2

LEMMA ReturnKeeps ==
  ASSUME PortConstants, PortInv, NEW result, ReturnPlan(result), UNCHANGED <<input, taken>>,
         result.kind = "incomplete" => search.at # "returned", PortSearchIsRight'
  PROVE  PortInv'
<1>1. search' = Returned
  BY DEF ReturnPlan
<1>2. CASE result.kind = "incomplete"
  <2>1. KeepCursor(cursor) /\ search.at # "returned"
    BY <1>2 DEF ReturnPlan
  <2>2. MayGoOnWith(cursor)
    BY <2>1 DEF PortInv, PortTypesOK, SelectionsStand, StillSelected, NothingPassedOver,
       AccountedFor, MayGoOnWith, Stands, AccountedBy
  <2>3. QED
    BY <1>1, <2>1, <2>2, CursorKept
<1>3. CASE result.kind = "complete"
  <2>1. KeepCursor(Fresh)
    BY <1>3 DEF ReturnPlan
  <2>2. QED
    BY <1>1, <2>1, FreshKept DEF PortInv, PortTypesOK
<1>4. CASE result.kind \notin {"incomplete", "complete"}
  <2>1. KeepCursor(stored)
    BY <1>4 DEF ReturnPlan
  <2>2. QED
    BY <1>1, <2>1, CursorKept DEF PortInv, StoredStands
<1>5. QED
  BY <1>2, <1>3, <1>4

\* During a call the plan's cursor rests.
LEMMA StoredStays ==
  ASSUME StoredStands, UNCHANGED <<input, stored, retyped>>, ever \subseteq ever',
         search'.at = "returned" => search' = search /\ cursor' = cursor
  PROVE  StoredStands'
BY SameInput DEF StoredStands, MayGoOnWith, Stands, AccountedBy

\* A rejection says nothing of ports.
LEMMA RejectedKeeps ==
  ASSUME PortConstants, PortInv, NEW slot, NEW reason, Rejected(slot, reason),
         UNCHANGED <<input, taken>>
  PROVE  PortInv'
<1>1. PICK result : result = [kind |-> "rejected", slot |-> slot, reason |-> reason]
  OBVIOUS
<1>2. ReturnPlan(result) /\ result.kind = "rejected"
  BY <1>1 DEF Rejected
<1>3. PortSearchIsRight'
  BY <1>2 DEF ReturnPlan, PortSearchIsRight, PlanIsSound, NoFreePortSkipped
<1>4. QED
  BY <1>2, <1>3, ReturnKeeps

\* The properties are of the answer and its input.
LEMMA AnswerStays ==
  ASSUME PortSearchIsRight, UNCHANGED <<input, plan>>
  PROVE  PortSearchIsRight'
<1>1. PlanIsSound'
  BY SameInput DEF PortSearchIsRight, PlanIsSound
<1>2. NoFreePortSkipped'
  <2>1. PICK left : left = Candidates(plan.slot) \ plan.ever
    OBVIOUS
  <2>2. PICK first : first = FirstPort(plan.slot)
    OBVIOUS
  <2>3. (Candidates(plan.slot) \ plan.ever)' = left /\ FirstPort(plan.slot)' = first
    BY <2>1, <2>2 DEF Candidates, FirstPort
  <2>4. NoFreePortSkipped =
          (plan.kind \in {"complete", "needs input"} /\ plan.same =>
             \/ /\ plan.kind = "complete"
                /\ \A s \in Automatic : \A p \in Candidates(s) :
                     \/ p >= plan.ports[s] \/ p \in plan.ever
                     \/ \E t \in Slots \ {s} : plan.ports[t] = p
             \/ /\ plan.kind = "needs input"
                /\ first = 0 \/ Cardinality(left) < Cardinality(Slots))
    BY <2>1, <2>2 DEF NoFreePortSkipped
  <2>5. CASE plan.kind = "complete"
    BY <2>5, SameInput DEF PortSearchIsRight, NoFreePortSkipped
  <2>6. CASE plan.kind = "needs input"
    BY <2>3, <2>4, <2>6 DEF PortSearchIsRight, NoFreePortSkipped
  <2>7. QED
    BY <2>5, <2>6 DEF NoFreePortSkipped
<1>3. QED
  BY <1>1, <1>2 DEF PortSearchIsRight

LEMMA BeginCallKeeps ==
  ASSUME PortConstants, PortInv, BeginCall
  PROVE  PortInv'
<1>1. search = Returned /\ UNCHANGED <<input, taken>>
  BY DEF BeginCall
<1>2. CASE \E s \in Slots \ Automatic : ~ValidExplicit(s)
  <2>1. PICK s \in Slots \ Automatic : Rejected(s, "input")
    BY <1>2 DEF BeginCall
  <2>2. QED
    BY <1>1, <2>1, RejectedKeeps
<1>3. CASE \A s \in Slots \ Automatic : ValidExplicit(s)
  <2>1. PICK checked : checked =
          [s \in Slots |-> IF cursor.checked[s] = input[s].explicit THEN cursor.checked[s] ELSE 0]
    OBVIOUS
  <2>2. PICK selected : selected =
          [s \in Slots |-> IF StillSelected(s) THEN cursor.selected[s] ELSE 0]
    OBVIOUS
  <2>3. PICK todo \in SUBSET Slots :
          todo = {s \in Slots \ Automatic : cursor.checked[s] # input[s].explicit}
    OBVIOUS
  <2>4. /\ cursor' = [cursor EXCEPT !.checked = checked, !.selected = selected]
        /\ search' = [Returned EXCEPT !.at = "explicit", !.ledger = LedgerSnapshot, !.todo = todo]
        /\ UNCHANGED <<plan, stored, ever, retyped>>
    BY <1>3, <2>1, <2>2, <2>3 DEF BeginCall
  <2>5. cursor \in Cursors /\ taken \in [ledger : SUBSET Ports, host : SUBSET Ports]
    BY DEF PortInv, PortTypesOK
  <2>6. checked \in [Slots -> Nat] /\ selected \in [Slots -> Nat]
    BY <2>1, <2>2, SlotFacts DEF PortInv
  <2>7. /\ cursor' \in Cursors /\ cursor'.next = cursor.next /\ cursor'.selected = selected
    BY <2>4, <2>5, <2>6 DEF Cursors
  <2>8. /\ search' \in Searches /\ search'.at = "explicit" /\ search'.ledger = taken.ledger
    BY <2>3, <2>4, <2>5, ReturnedSearch DEF Searches, LedgerSnapshot
  <2>9. PortTypesOK'
    BY <1>1, <2>4, <2>7, <2>8 DEF PortInv, PortTypesOK
  <2>10. HeldIsKnown'
    BY <1>1, <2>4, <2>8 DEF PortInv, HeldIsKnown, Held
  <2>11. SelectionsStand'
    <3>1. ASSUME NEW s \in Slots, selected[s] > 0
          PROVE  StillSelected(s) /\ selected[s] = cursor.selected[s]
      BY <3>1, <2>2
    <3>2. \A s \in Slots : cursor'.selected[s] > 0 => cursor'.selected[s] < cursor'.next[s]
      BY <3>1, <2>7 DEF PortInv, SelectionsStand
    <3>3. \A s \in Slots : cursor'.selected[s] > 0 => StillSelected(s)'
      BY <1>1, <3>1, <2>7, SelectionStays
    <3>4. \A s \in (Slots \ Automatic)' : ValidExplicit(s)'
      BY <1>1, <1>3, SameInput
    <3>5. QED
      BY <3>2, <3>3, <3>4 DEF SelectionsStand
  <2>12. LookedAt'
    BY <2>8 DEF LookedAt
  <2>13. NothingPassedOver'
    <3>1. ASSUME ~retyped, NEW s \in Slots PROVE selected[s] = cursor.selected[s]
      <4>1. cursor.selected[s] > 0 => StillSelected(s)
        BY <3>1 DEF PortInv, SelectionsStand
      <4>2. cursor.selected[s] \in Nat
        BY SlotFacts DEF PortInv
      <4>3. QED
        BY <2>2, <4>1, <4>2
    <3>2. QED
      BY <1>1, <2>4, <2>7, <3>1, SameInput DEF PortInv, NothingPassedOver, AccountedFor
  <2>14. QED
    BY <1>1, <2>4, <2>9, <2>10, <2>11, <2>12, <2>13, AnswerStays, StoredStays DEF PortInv
<1>4. QED
  BY <1>2, <1>3

LEMMA CheckExplicitKeeps ==
  ASSUME PortConstants, PortInv, CheckExplicit
  PROVE  PortInv'
<1>1. UNCHANGED <<input, taken>> /\ search.at = "explicit"
  BY DEF CheckExplicit
<1>2. PICK s : s = LeastSlot(search.todo)
  OBVIOUS
<1>3. PICK look \in PortLooks :
        IF look = "free"
        THEN /\ cursor' = [cursor EXCEPT !.checked[s] = input[s].explicit]
             /\ search' = [search EXCEPT !.todo = @ \ {s}]
             /\ UNCHANGED <<plan, stored, ever, retyped>>
        ELSE Rejected(s, look)
  BY <1>2 DEF CheckExplicit
<1>4. CASE look # "free"
  BY <1>1, <1>3, <1>4, RejectedKeeps
<1>5. CASE look = "free"
  <2>1. /\ cursor' = [cursor EXCEPT !.checked[s] = input[s].explicit]
        /\ search' = [search EXCEPT !.todo = @ \ {s}]
        /\ UNCHANGED <<plan, stored, ever, retyped>>
    BY <1>3, <1>5
  <2>2. cursor \in Cursors /\ search \in Searches /\ s \in Slots
    <3>1. cursor \in Cursors /\ search \in Searches /\ search.todo # {}
      BY DEF PortInv, PortTypesOK, CheckExplicit
    <3>2. search.todo \in SUBSET Slots
      BY <3>1 DEF Searches
    <3>3. QED
      BY <1>2, <3>1, <3>2, LeastIsIn
  <2>3. PICK port \in Nat : port = input[s].explicit
    BY <2>2, SlotFacts DEF PortInv
  <2>4. /\ cursor' \in Cursors /\ cursor'.next = cursor.next
        /\ cursor'.selected = cursor.selected
    BY <2>1, <2>2, <2>3 DEF Cursors
  <2>5. search' \in Searches /\ search'.at = "explicit" /\ search'.ledger = search.ledger
    BY <1>1, <2>1, <2>2 DEF Searches
  <2>6. PortTypesOK'
    BY <1>1, <2>1, <2>4, <2>5 DEF PortInv, PortTypesOK
  <2>7. HeldIsKnown'
    BY <1>1, <2>1, <2>5 DEF PortInv, HeldIsKnown, Held
  <2>8. SelectionsStand'
    BY <1>1, <2>1, <2>4, <2>5, SelectionStays, SameInput DEF PortInv, SelectionsStand
  <2>9. LookedAt'
    BY <2>5 DEF LookedAt
  <2>10. NothingPassedOver'
    BY <1>1, <2>1, <2>4, SameInput DEF PortInv, NothingPassedOver, AccountedFor
  <2>11. QED
    BY <1>1, <2>1, <2>6, <2>7, <2>8, <2>9, <2>10, AnswerStays, StoredStays DEF PortInv
<1>6. QED
  BY <1>4, <1>5

LEMMA StartRevalidationKeeps ==
  ASSUME PortConstants, PortInv, StartRevalidation
  PROVE  PortInv'
<1>1. UNCHANGED <<input, taken, cursor, plan, stored, ever, retyped>> /\ search.at = "explicit"
  BY DEF StartRevalidation
<1>2. PICK todo \in SUBSET Slots : todo = {s \in Slots : cursor.selected[s] > 0}
  OBVIOUS
<1>3. search' = [search EXCEPT !.at = "selected", !.todo = todo]
  BY <1>2 DEF StartRevalidation
<1>4. search \in Searches
  BY DEF PortInv, PortTypesOK
<1>5. /\ search' \in Searches /\ search'.at = "selected" /\ search'.todo = todo
      /\ search'.ledger = search.ledger
  BY <1>3, <1>4 DEF Searches
<1>6. PortTypesOK'
  BY <1>1, <1>5 DEF PortInv, PortTypesOK
<1>7. HeldIsKnown'
  BY <1>1, <1>5 DEF PortInv, HeldIsKnown, Held
<1>8. SelectionsStand'
  BY <1>1, <1>5, SelectionStays, SameInput DEF PortInv, SelectionsStand
<1>9. LookedAt'
  BY <1>1, <1>2, <1>5 DEF LookedAt
<1>10. NothingPassedOver'
  BY <1>1, SameInput DEF PortInv, NothingPassedOver, AccountedFor
<1>11. QED
  BY <1>1, <1>5, <1>6, <1>7, <1>8, <1>9, <1>10, AnswerStays, StoredStays DEF PortInv

LEMMA RevalidateKeeps ==
  ASSUME PortConstants, PortInv, Revalidate
  PROVE  PortInv'
<1>1. UNCHANGED <<input, taken>> /\ search.at = "selected"
  BY DEF Revalidate
<1>2. PICK s : s = LeastSlot(search.todo)
  OBVIOUS
<1>3. cursor \in Cursors /\ search \in Searches /\ s \in Slots
  <2>1. cursor \in Cursors /\ search \in Searches /\ search.todo # {}
    BY DEF PortInv, PortTypesOK, Revalidate
  <2>2. search.todo \in SUBSET Slots
    BY <2>1 DEF Searches
  <2>3. QED
    BY <1>2, <2>1, <2>2, LeastIsIn
<1>4. PICK port \in Nat : port = cursor.selected[s]
  BY <1>3, SlotFacts DEF PortInv
<1>5. PICK look \in PortLooks :
        /\ InspectPort(port, look)
        /\ IF look = "unavailable" THEN Rejected(s, look)
           ELSE /\ cursor' = IF look = "free" THEN cursor ELSE
                     [cursor EXCEPT !.selected[s] = 0, !.next[s] = Greater(@, port + 1)]
                /\ search' = [search EXCEPT !.todo = @ \ {s}]
                /\ UNCHANGED <<plan, stored, ever, retyped>>
  BY <1>2, <1>4 DEF Revalidate
<1>6. CASE look = "unavailable"
  BY <1>1, <1>5, <1>6, RejectedKeeps
<1>7. CASE look # "unavailable"
  <2>1. UNCHANGED <<plan, stored, ever, retyped>> /\ search' = [search EXCEPT !.todo = @ \ {s}]
    BY <1>5, <1>7
  <2>2. /\ search' \in Searches /\ search'.at = "selected" /\ search'.ledger = search.ledger
        /\ search'.todo = search.todo \ {s}
    BY <1>1, <1>3, <2>1 DEF Searches
  <2>3. HeldIsKnown'
    BY <1>1, <2>1, <2>2 DEF PortInv, HeldIsKnown, Held
  <2>4. CASE look = "free"
    <3>1. cursor' = cursor /\ port \notin search.ledger
      BY <1>5, <1>7, <2>4 DEF InspectPort
    <3>2. PortTypesOK'
      BY <1>1, <2>1, <2>2, <3>1 DEF PortInv, PortTypesOK
    <3>3. SelectionsStand'
      BY <1>1, <2>2, <3>1, SelectionStays, SameInput DEF PortInv, SelectionsStand
    <3>4. LookedAt'
      BY <1>1, <1>4, <2>2, <3>1 DEF PortInv, LookedAt
    <3>5. NothingPassedOver'
      BY <1>1, <2>1, <3>1, SameInput DEF PortInv, NothingPassedOver, AccountedFor
    <3>6. QED
      BY <1>1, <2>1, <2>3, <3>2, <3>3, <3>4, <3>5, AnswerStays, StoredStays DEF PortInv
  <2>5. CASE look # "free"
    <3>1. PICK n : n = Greater(cursor.next[s], port + 1)
      OBVIOUS
    <3>2. cursor' = [cursor EXCEPT !.selected[s] = 0, !.next[s] = n]
      BY <1>3, <1>5, <1>7, <2>5, <3>1 DEF Cursors
    <3>3. n \in Nat /\ n >= cursor.next[s] /\ n >= port + 1
      BY <1>3, <1>4, <3>1, SlotFacts DEF Greater, PortInv
    <3>4. /\ cursor' \in Cursors /\ cursor'.next[s] = n /\ cursor'.selected[s] = 0
          /\ \A t \in Slots : t # s => /\ cursor'.next[t] = cursor.next[t]
                                       /\ cursor'.selected[t] = cursor.selected[t]
      BY <1>3, <3>2, <3>3 DEF Cursors
    <3>5. PortTypesOK'
      BY <1>1, <2>1, <2>2, <3>4 DEF PortInv, PortTypesOK
    <3>6. SelectionsStand'
      BY <1>1, <2>2, <3>4, SelectionStays, SameInput DEF PortInv, SelectionsStand
    <3>7. LookedAt'
      <4>1. search.todo \subseteq Slots
        BY <1>3 DEF Searches
      <4>2. QED
        BY <1>1, <2>2, <3>4, <4>1 DEF PortInv, LookedAt
    <3>8. port \in ever
      <4>1. look = "taken"
        BY <1>7, <2>5 DEF PortLooks
      <4>2. port \in search.ledger \cup taken.host
        BY <1>5, <4>1 DEF InspectPort
      <4>3. QED
        BY <4>2 DEF PortInv, HeldIsKnown, Held
    <3>9. port > 0 => n = cursor.next[s]
      BY <1>1, <1>3, <1>4, <3>1, SlotFacts DEF PortInv, SelectionsStand, Greater
    <3>10. NothingPassedOver'
      <4>1. SUFFICES ASSUME ~retyped, NEW t \in Slots, NEW p \in Candidates(t), p < cursor'.next[t]
                     PROVE  AccountedFor(t, p)'
        BY <1>1, <2>1, SameInput DEF NothingPassedOver
      <4>2. p \in Nat /\ p > 0
        BY CandidatesAreNumbers
      <4>3. port > 0
        <5>1. s \in search.todo
          <6>1. search.todo # {} /\ search.todo \in SUBSET Slots
            BY <1>3 DEF Revalidate, Searches
          <6>2. QED
            BY <1>2, <6>1, LeastIsIn
        <5>2. QED
          BY <1>1, <1>4, <5>1 DEF PortInv, LookedAt
      <4>4. p < cursor.next[t]
        BY <3>4, <3>9, <4>1, <4>3
      <4>5. AccountedFor(t, p)
        BY <4>1, <4>4 DEF PortInv, NothingPassedOver
      <4>6. p = port \/ \A u \in Slots : cursor.selected[u] = p => cursor'.selected[u] = p
        BY <1>4, <3>4
      <4>7. QED
        BY <1>1, <2>1, <3>8, <4>5, <4>6, SameInput DEF AccountedFor
    <3>11. QED
      BY <1>1, <2>1, <2>3, <3>5, <3>6, <3>7, <3>10, AnswerStays, StoredStays DEF PortInv
  <2>6. QED
    BY <2>4, <2>5
<1>8. QED
  BY <1>6, <1>7

LEMMA StartScanKeeps ==
  ASSUME PortConstants, PortInv, StartScan
  PROVE  PortInv'
<1>1. UNCHANGED <<input, taken>> /\ search.at = "selected" /\ search.todo = {}
  BY DEF StartScan
<1>2. PICK clash : clash = \E s \in Selections :
        \/ cursor.selected[s] \in Explicit
        \/ \E t \in Selections \ {s} : cursor.selected[s] = cursor.selected[t]
  OBVIOUS
<1>3. CASE clash
  <2>1. PICK s : Rejected(s, "planned")
    BY <1>2, <1>3 DEF StartScan
  <2>2. QED
    BY <1>1, <2>1, RejectedKeeps
<1>4. CASE ~clash
  <2>1. PICK used : used = Explicit \cup {cursor.selected[s] : s \in Selections}
    OBVIOUS
  <2>2. search' = [search EXCEPT !.at = "scan", !.used = used]
        /\ UNCHANGED <<cursor, plan, stored, ever, retyped>>
    BY <1>2, <1>4, <2>1 DEF StartScan
  <2>3. used \in SUBSET Nat
    BY <2>1, SlotFacts DEF PortInv, Explicit, Selections
  <2>4. search \in Searches
    BY DEF PortInv, PortTypesOK
  <2>5. /\ search' \in Searches /\ search'.at = "scan" /\ search'.ledger = search.ledger
        /\ search'.used = used
    BY <2>2, <2>3, <2>4 DEF Searches
  <2>6. PortTypesOK'
    BY <1>1, <2>2, <2>5 DEF PortInv, PortTypesOK
  <2>7. HeldIsKnown'
    BY <1>1, <2>2, <2>5 DEF PortInv, HeldIsKnown, Held
  <2>8. SelectionsStand'
    BY <1>1, <2>2, <2>5, SelectionStays, SameInput DEF PortInv, SelectionsStand
  <2>9. LookedAt'
    <3>1. Selections' = Selections /\ Explicit' = Explicit
      BY <1>1, <2>2, SameInput DEF Selections
    <3>2. \A s \in Selections : cursor.selected[s] \notin search.ledger
      BY <1>1 DEF PortInv, LookedAt, Selections
    <3>3. \A s, t \in Selections : cursor.selected[s] = cursor.selected[t] => s = t
      BY <1>2, <1>4
    <3>4. QED
      BY <2>1, <2>2, <2>5, <3>1, <3>2, <3>3 DEF LookedAt
  <2>10. NothingPassedOver'
    BY <1>1, <2>2, SameInput DEF PortInv, NothingPassedOver, AccountedFor
  <2>11. QED
    BY <1>1, <2>2, <2>6, <2>7, <2>8, <2>9, <2>10, AnswerStays, StoredStays DEF PortInv
<1>5. QED
  BY <1>2, <1>3, <1>4

LEMMA OutOfTimeKeeps ==
  ASSUME PortConstants, PortInv, OutOfTime
  PROVE  PortInv'
<1>1. PICK result : result = [kind |-> "incomplete"]
  OBVIOUS
<1>2. /\ ReturnPlan(result) /\ UNCHANGED <<input, taken>> /\ search.at # "returned"
      /\ result.kind = "incomplete"
  BY <1>1 DEF OutOfTime
<1>3. PortSearchIsRight'
  BY <1>2 DEF ReturnPlan, PortSearchIsRight, PlanIsSound, NoFreePortSkipped
<1>4. QED
  BY <1>2, <1>3, ReturnKeeps

LEMMA WorldKeeps ==
  ASSUME PortConstants, PortInv, World
  PROVE  PortInv'
<1>1. UNCHANGED <<input, cursor, stored, search, plan, retyped>> /\ ever' = ever \cup Held(taken')
  BY DEF World
<1>2. PICK port \in Ports, where \in {"ledger", "host"} :
        taken' = [taken EXCEPT ![where] = IF port \in @ THEN @ \ {port} ELSE @ \cup {port}]
  BY DEF World
<1>3. taken \in [ledger : SUBSET Ports, host : SUBSET Ports]
  BY DEF PortInv, PortTypesOK
<1>4. taken' \in [ledger : SUBSET Ports, host : SUBSET Ports]
  BY <1>2, <1>3
<1>5. PortTypesOK'
  BY <1>1, <1>4 DEF PortInv, PortTypesOK
<1>6. HeldIsKnown'
  BY <1>1 DEF PortInv, HeldIsKnown, Held
<1>7. SelectionsStand'
  BY <1>1, SelectionStays, SameInput DEF PortInv, SelectionsStand
<1>8. LookedAt'
  BY <1>1, SameInput DEF PortInv, LookedAt, Selections
<1>9. NothingPassedOver'
  BY <1>1, SameInput DEF PortInv, NothingPassedOver, AccountedFor
<1>10. QED
  BY <1>1, <1>5, <1>6, <1>7, <1>8, <1>9, AnswerStays, StoredStays DEF PortInv

LEMMA RetypeKeeps ==
  ASSUME PortConstants, PortInv, Retype
  PROVE  PortInv'
<1>1. UNCHANGED <<taken, search>> /\ search = Returned /\ plan' = [kind |-> "none"]
  BY DEF Retype
<1>2. PICK s \in Slots, port \in Ports \cup {0} : input' = [input EXCEPT ![s].explicit = port]
  BY DEF Retype
<1>3. input' \in [Slots -> SlotRecords]
  BY <1>2 DEF PortInv, PortTypesOK, SlotRecords, PortConstants
<1>4. PortSearchIsRight'
  BY <1>1 DEF PortSearchIsRight, PlanIsSound, NoFreePortSkipped
<1>5. CASE KeepCursor(Fresh)
  BY <1>1, <1>3, <1>4, <1>5, FreshKept
<1>6. CASE retyped' = TRUE /\ UNCHANGED <<cursor, stored, ever>>
  <2>1. PortTypesOK'
    BY <1>1, <1>3, <1>6 DEF PortInv, PortTypesOK
  <2>2. HeldIsKnown'
    BY <1>1, <1>6 DEF PortInv, HeldIsKnown, Held
  <2>3. SelectionsStand'
    BY <1>1, <1>6, ReturnedSearch DEF PortInv, SelectionsStand
  <2>4. LookedAt'
    BY <1>1, ReturnedSearch DEF LookedAt
  <2>5. NothingPassedOver'
    BY <1>6 DEF NothingPassedOver
  <2>6. StoredStands'
    BY <1>1, <1>6 DEF PortInv, StoredStands, MayGoOnWith
  <2>7. QED
    BY <1>4, <2>1, <2>2, <2>3, <2>4, <2>5, <2>6 DEF PortInv
<1>7. QED
  BY <1>5, <1>6 DEF Retype

\* A candidate is a number above 0, and no candidate of the slot is between
\* the cursor and it.
LEMMA CandidateIsNext ==
  ASSUME PortConstants, PortInv, NEW s \in Slots, HasCandidate(s)
  PROVE  /\ Candidate(s) \in Nat /\ Candidate(s) > 0 /\ Candidate(s) <= input[s].max
         /\ Candidate(s) > input[s].source /\ Candidate(s) >= cursor.next[s]
         /\ \A p \in Candidates(s) : p < Candidate(s) => p < cursor.next[s]
<1>1. /\ FirstPort(s) \in Nat /\ cursor.next[s] \in Nat /\ FirstPort(s) > 0
      /\ input[s].source \in Nat /\ FirstPort(s) > input[s].source
  BY SlotFacts DEF PortInv, HasCandidate, FirstPort
<1>2. /\ Candidate(s) \in Nat /\ Candidate(s) >= FirstPort(s) /\ Candidate(s) >= cursor.next[s]
      /\ Candidate(s) = FirstPort(s) \/ Candidate(s) = cursor.next[s]
  BY <1>1 DEF Candidate, Greater
<1>3. \A p \in Candidates(s) : p \in Nat /\ p >= FirstPort(s)
  BY CandidatesAreNumbers DEF Candidates
<1>4. QED
  BY <1>1, <1>2, <1>3 DEF HasCandidate

\* The cursor of a slot moves behind its candidate, and the candidate is
\* selected or accounted for: nothing is passed over.
LEMMA CursorPasses ==
  ASSUME PortConstants, PortInv, NEW s \in Slots, HasCandidate(s), cursor.selected[s] = 0,
         UNCHANGED <<input, ever, retyped>>, NEW port, port = Candidate(s),
         cursor'.next[s] = port + 1, cursor'.selected[s] \in {0, port},
         \A t \in Slots \ {s} : /\ cursor'.next[t] = cursor.next[t]
                                /\ cursor'.selected[t] = cursor.selected[t],
         \/ cursor'.selected[s] = port \/ port < input[s].min \/ port \in ever
         \/ port \in Explicit \/ \E t \in Slots \ {s} : cursor.selected[t] = port
  PROVE  NothingPassedOver'
<1>1. SUFFICES ASSUME ~retyped, NEW t \in Slots, NEW p \in Candidates(t), p < cursor'.next[t]
               PROVE  AccountedFor(t, p)'
  BY SameInput DEF NothingPassedOver
<1>2. p \in Nat /\ p > 0
  BY CandidatesAreNumbers
<1>3. port \in Nat /\ \A q \in Candidates(s) : q < port => q < cursor.next[s]
  BY CandidateIsNext
<1>4. \A u \in Slots : cursor.selected[u] = p => cursor'.selected[u] = p
  BY <1>2
<1>5. CASE p < cursor.next[t]
  <2>1. AccountedFor(t, p)
    BY <1>1, <1>5 DEF PortInv, NothingPassedOver
  <2>2. QED
    BY <1>4, <2>1, SameInput DEF AccountedFor
<1>6. CASE ~(p < cursor.next[t])
  <2>1. t = s
    BY <1>1, <1>6
  <2>2. p = port
    BY <1>1, <1>2, <1>3, <1>6, <2>1
  <2>3. ~(port < input[s].min)
    <3>1. p \in input[s].min..input[s].max
      BY <2>1 DEF Candidates
    <3>2. input[s].min \in Nat /\ input[s].max \in Nat
      BY SlotFacts, SMTT(30) DEF PortInv
    <3>3. QED
      BY <1>2, <2>2, <3>1, <3>2, SMTT(30)
  <2>4. QED
    BY <1>4, <2>1, <2>2, <2>3, SameInput DEF AccountedFor
<1>7. QED
  BY <1>5, <1>6

LEMMA TryKeeps ==
  ASSUME PortConstants, PortInv, Try
  PROVE  PortInv'
<1>1. UNCHANGED <<input, taken>> /\ search.at = "scan" /\ OpenSlots # {}
  BY DEF Try
<1>2. PICK s : s = LeastSlot(OpenSlots)
  OBVIOUS
<1>3. s \in Slots /\ s \in Automatic /\ cursor.selected[s] = 0
  BY <1>1, <1>2, LeastIsIn, SMTT(30) DEF OpenSlots, Automatic
<1>4. HasCandidate(s)
  BY <1>2 DEF Try
<1>5. PICK port : port = Candidate(s)
  OBVIOUS
<1>6. /\ port \in Nat /\ port > 0 /\ port <= input[s].max /\ port > input[s].source
      /\ port >= cursor.next[s]
  BY <1>3, <1>4, <1>5, CandidateIsNext
<1>7. cursor \in Cursors /\ search \in Searches
  BY DEF PortInv, PortTypesOK
<1>8. \A t \in Slots : ~(cursor.selected[t] = port /\ t = s)
  BY <1>3, <1>6
<1>9. CASE /\ Skip(s, port)
           /\ cursor' = [cursor EXCEPT !.next[s] = port + 1]
           /\ search' = [search EXCEPT !.attempts = @ + 1]
           /\ UNCHANGED <<plan, stored, ever, retyped>>
  <2>1. /\ cursor' \in Cursors /\ cursor'.next[s] = port + 1
        /\ cursor'.selected = cursor.selected
        /\ \A t \in Slots \ {s} : cursor'.next[t] = cursor.next[t]
    BY <1>3, <1>6, <1>7, <1>9 DEF Cursors
  <2>2. /\ search' \in Searches /\ search'.at = "scan" /\ search'.ledger = search.ledger
        /\ search'.used = search.used
    BY <1>1, <1>7, <1>9 DEF Searches
  <2>3. PortTypesOK'
    BY <1>1, <1>9, <2>1, <2>2 DEF PortInv, PortTypesOK
  <2>4. HeldIsKnown'
    BY <1>1, <1>9, <2>2 DEF PortInv, HeldIsKnown, Held
  <2>5. SelectionsStand'
    BY <1>1, <1>3, <2>1, <2>2, SelectionStays, SameInput DEF PortInv, SelectionsStand
  <2>6. LookedAt'
    BY <1>1, <2>1, <2>2, SameInput DEF PortInv, LookedAt, Selections
  <2>7. \/ port < input[s].min \/ port \in Explicit
        \/ \E t \in Slots \ {s} : cursor.selected[t] = port
    BY <1>1, <1>3, <1>6, <1>9 DEF Skip, PortInv, LookedAt, Selections
  <2>8. NothingPassedOver'
    BY <1>1, <1>3, <1>4, <1>5, <1>9, <2>1, <2>7, CursorPasses
  <2>9. QED
    BY <1>1, <1>9, <2>3, <2>4, <2>5, <2>6, <2>8, AnswerStays, StoredStays DEF PortInv
<1>10. CASE ~Skip(s, port) /\ \E look \in PortLooks :
              /\ InspectPort(port, look)
              /\ IF look = "unavailable" THEN Rejected(s, look)
                 ELSE /\ cursor' = [cursor EXCEPT !.next[s] = port + 1,
                           !.selected[s] = IF look = "free" THEN port ELSE 0]
                      /\ search' = [search EXCEPT !.attempts = @ + 1,
                           !.used = IF look = "free" THEN @ \cup {port} ELSE @]
                      /\ UNCHANGED <<plan, stored, ever, retyped>>
  <2>1. PICK look \in PortLooks :
              /\ InspectPort(port, look)
              /\ IF look = "unavailable" THEN Rejected(s, look)
                 ELSE /\ cursor' = [cursor EXCEPT !.next[s] = port + 1,
                           !.selected[s] = IF look = "free" THEN port ELSE 0]
                      /\ search' = [search EXCEPT !.attempts = @ + 1,
                           !.used = IF look = "free" THEN @ \cup {port} ELSE @]
                      /\ UNCHANGED <<plan, stored, ever, retyped>>
    BY <1>10
  <2>2. CASE look = "unavailable"
    BY <1>1, <2>1, <2>2, RejectedKeeps
  <2>3. CASE look # "unavailable"
    <3>1. PICK chosen : chosen = IF look = "free" THEN port ELSE 0
      OBVIOUS
    <3>2. PICK used : used = IF look = "free" THEN search.used \cup {port} ELSE search.used
      OBVIOUS
    <3>3. /\ cursor' = [cursor EXCEPT !.next[s] = port + 1, !.selected[s] = chosen]
          /\ UNCHANGED <<plan, stored, ever, retyped>>
      BY <2>1, <2>3, <3>1
    <3>4. search' = [search EXCEPT !.attempts = @ + 1, !.used = used]
      BY <1>7, <2>1, <2>3, <3>2 DEF Searches
    <3>5. chosen \in Nat /\ used \in SUBSET Nat
      BY <1>6, <1>7, <3>1, <3>2 DEF Searches
    <3>6. /\ cursor' \in Cursors /\ cursor'.next[s] = port + 1 /\ cursor'.selected[s] = chosen
          /\ \A t \in Slots \ {s} : /\ cursor'.next[t] = cursor.next[t]
                                    /\ cursor'.selected[t] = cursor.selected[t]
      <4>1. PICK n \in Nat : n = port + 1
        BY <1>6
      <4>2. cursor' = [cursor EXCEPT !.next[s] = n, !.selected[s] = chosen]
        BY <3>3, <4>1
      <4>3. cursor' \in Cursors
        BY <1>3, <1>7, <3>5, <4>2 DEF Cursors
      <4>4. /\ cursor'.next = [cursor.next EXCEPT ![s] = n]
            /\ cursor'.selected = [cursor.selected EXCEPT ![s] = chosen]
        BY <1>7, <4>2 DEF Cursors
      <4>5. QED
        BY <1>3, <1>7, <4>1, <4>3, <4>4 DEF Cursors
    <3>7. /\ search' \in Searches /\ search'.at = "scan" /\ search'.ledger = search.ledger
          /\ search'.used = used
      <4>1. PICK attempts \in Nat : attempts = search.attempts + 1
        BY <1>7 DEF Searches
      <4>2. search' = [search EXCEPT !.attempts = attempts, !.used = used]
        BY <3>4, <4>1
      <4>3. QED
        BY <1>1, <1>7, <3>5, <4>2 DEF Searches
    <3>8. PortTypesOK'
      BY <1>1, <3>3, <3>6, <3>7 DEF PortInv, PortTypesOK
    <3>9. HeldIsKnown'
      BY <1>1, <3>3, <3>7 DEF PortInv, HeldIsKnown, Held
    <3>10. /\ port >= input[s].min /\ port \notin search.used
      BY <1>3, <1>6, <1>10, SlotFacts DEF Skip, PortInv
    <3>11. port \notin Explicit /\ \A t \in Selections : cursor.selected[t] # port
      BY <1>1, <3>10 DEF PortInv, LookedAt
    <3>12. SelectionsStand'
      <4>1. ASSUME NEW t \in Slots, cursor'.selected[t] > 0
            PROVE  cursor'.selected[t] < cursor'.next[t] /\ StillSelected(t)'
        <5>1. CASE t # s
          BY <1>1, <3>6, <4>1, <5>1, SelectionStays DEF PortInv, SelectionsStand
        <5>2. CASE t = s
          <6>1. cursor'.selected[t] = port
            BY <3>1, <3>6, <4>1, <5>2
          <6>2. port \in input[s].min..input[s].max
            BY <1>3, <1>6, <3>10, SlotFacts DEF PortInv
          <6>3. QED
            BY <1>1, <1>3, <1>6, <3>6, <3>11, <5>2, <6>1, <6>2, SameInput DEF StillSelected
        <5>3. QED
          BY <5>1, <5>2
      <4>2. QED
        BY <1>1, <3>7, <4>1, SameInput DEF PortInv, SelectionsStand
    <3>13. LookedAt'
      <4>1. CASE look = "free"
        <5>1. chosen = port /\ used = search.used \cup {port} /\ port \notin search.ledger
          BY <2>1, <3>1, <3>2, <4>1 DEF InspectPort
        <5>2. Selections' = Selections \cup {s}
          BY <1>3, <1>6, <3>6, <5>1 DEF Selections
        <5>3. s \notin Selections
          BY <1>3 DEF Selections
        <5>4. \A t \in Selections : cursor'.selected[t] = cursor.selected[t]
          BY <3>6, <5>3 DEF Selections
        <5>5. {cursor'.selected[t] : t \in Selections'} =
                {cursor.selected[t] : t \in Selections} \cup {port}
          BY <3>6, <5>1, <5>2, <5>4
        <5>6. \A t \in Selections' : cursor'.selected[t] \notin search'.ledger
          BY <1>1, <3>6, <3>7, <5>1, <5>2, <5>4 DEF PortInv, LookedAt
        <5>7. \A t, u \in Selections' : cursor'.selected[t] = cursor'.selected[u] => t = u
          BY <1>1, <3>6, <3>11, <5>1, <5>2, <5>4 DEF PortInv, LookedAt
        <5>8. search'.used = Explicit' \cup {cursor'.selected[t] : t \in Selections'}
          BY <1>1, <3>7, <5>1, <5>5, SameInput DEF PortInv, LookedAt
        <5>9. QED
          BY <3>7, <5>6, <5>7, <5>8 DEF LookedAt
      <4>2. CASE look # "free"
        <5>1. \A t \in Slots : cursor'.selected[t] = cursor.selected[t]
          BY <1>3, <3>1, <3>6, <4>2
        <5>2. Selections' = Selections /\ used = search.used
          BY <3>2, <4>2, <5>1 DEF Selections
        <5>3. {cursor'.selected[t] : t \in Selections'} = {cursor.selected[t] : t \in Selections}
          BY <5>1, <5>2 DEF Selections
        <5>4. QED
          BY <1>1, <3>7, <5>1, <5>2, <5>3, SameInput DEF PortInv, LookedAt, Selections
      <4>3. QED
        BY <4>1, <4>2
    <3>14. cursor'.selected[s] = port \/ port \in ever
      <4>1. CASE look = "free"
        BY <3>1, <3>6, <4>1
      <4>2. CASE look = "taken"
        <5>1. port \in search.ledger \cup taken.host
          BY <2>1, <4>2 DEF InspectPort
        <5>2. QED
          BY <5>1 DEF PortInv, HeldIsKnown, Held
      <4>3. QED
        BY <2>3, <4>1, <4>2 DEF PortLooks
    <3>15. NothingPassedOver'
      BY <1>1, <1>3, <1>4, <1>5, <3>1, <3>3, <3>6, <3>14, CursorPasses
    <3>16. QED
      BY <1>1, <3>3, <3>7, <3>8, <3>9, <3>12, <3>13, <3>15, AnswerStays, StoredStays DEF PortInv
  <2>4. QED
    BY <2>2, <2>3
<1>11. QED
  BY <1>2, <1>5, <1>9, <1>10, ZenonT(30) DEF Try

\* Other slots cannot account for as many ports as there are slots.
LEMMA FewAreLeft ==
  ASSUME PortConstants, NEW s \in Slots, NEW left, NEW g \in [Slots \ {s} -> Nat],
         \A p \in left : \E t \in Slots \ {s} : g[t] = p
  PROVE  Cardinality(left) < Cardinality(Slots)
<1>1. PICK others : others = Slots \ {s}
  OBVIOUS
<1>2. IsFiniteSet(Slots) /\ Cardinality(Slots) \in Nat
  BY FS_CardinalityType DEF PortConstants
<1>3. IsFiniteSet(others) /\ Cardinality(others) = Cardinality(Slots) - 1
  BY <1>1, <1>2, FS_RemoveElement
<1>4. PICK image : image = {g[t] : t \in others}
  OBVIOUS
<1>5. g \in Surjection(others, image)
  BY <1>1, <1>4 DEF Surjection
<1>6. /\ IsFiniteSet(image) /\ Cardinality(image) <= Cardinality(others)
      /\ Cardinality(image) \in Nat
  BY <1>3, <1>5, FS_Surjection, FS_CardinalityType
<1>7. left \in SUBSET image
  BY <1>1, <1>4
<1>8. IsFiniteSet(left) /\ Cardinality(left) <= Cardinality(image)
  BY <1>6, <1>7, FS_Subset
<1>9. Cardinality(left) \in Nat
  BY <1>8, FS_CardinalityType
<1>10. QED
  BY <1>2, <1>3, <1>6, <1>8, <1>9

LEMMA NeedsInputKeeps ==
  ASSUME PortConstants, PortInv, NeedsInput
  PROVE  PortInv'
<1>1. PICK s : s = LeastSlot(OpenSlots)
  OBVIOUS
<1>2. PICK result :
        result = [kind |-> "needs input", slot |-> s, ever |-> ever, same |-> ~retyped]
  OBVIOUS
<1>3. /\ ReturnPlan(result) /\ UNCHANGED <<input, taken>> /\ plan' = result
      /\ search.at = "scan" /\ OpenSlots # {} /\ ~HasCandidate(s)
  BY <1>1, <1>2 DEF NeedsInput, ReturnPlan
<1>4. s \in Slots /\ s \in Automatic /\ cursor.selected[s] = 0
  BY <1>1, <1>3, LeastIsIn DEF OpenSlots, Automatic
<1>5. result.kind = "needs input" /\ result.slot = s /\ result.ever = ever
      /\ result.same = ~retyped
  BY <1>2
<1>6. ASSUME ~retyped, FirstPort(s) # 0
      PROVE  Cardinality(Candidates(s) \ ever) < Cardinality(Slots)
  <2>1. PICK left : left = Candidates(s) \ ever
    OBVIOUS
  <2>2. PICK g : g = [t \in Slots \ {s} |->
                       IF cursor.selected[t] > 0 THEN cursor.selected[t] ELSE input[t].explicit]
    OBVIOUS
  <2>3. g \in [Slots \ {s} -> Nat]
    BY <2>2, SlotFacts DEF PortInv
  <2>4. ASSUME NEW p \in left PROVE \E t \in Slots \ {s} : g[t] = p
    <3>1. p \in Candidates(s) /\ p \notin ever
      BY <2>1
    <3>2. p \in Nat /\ p > 0 /\ p <= input[s].max /\ p >= FirstPort(s)
      BY <3>1, CandidatesAreNumbers, <1>4, SlotFacts DEF Candidates, PortInv
    <3>3. p < cursor.next[s]
      BY <1>3, <1>4, <1>6, <3>2, SlotFacts DEF HasCandidate, Candidate, Greater, PortInv
    <3>4. AccountedFor(s, p)
      BY <1>4, <1>6, <3>1, <3>3 DEF PortInv, NothingPassedOver
    <3>5. CASE \E t \in Slots \ {s} : cursor.selected[t] = p
      BY <2>2, <3>2, <3>5
    <3>6. CASE p \in Explicit
      <4>1. PICK t \in Slots \ Automatic : p = input[t].explicit
        BY <3>6 DEF Explicit
      <4>2. ~(cursor.selected[t] > 0)
        BY <1>3, <4>1 DEF PortInv, SelectionsStand, StillSelected
      <4>3. QED
        BY <1>4, <2>2, <4>1, <4>2
    <3>7. QED
      BY <1>4, <3>1, <3>2, <3>4, <3>5, <3>6 DEF AccountedFor
  <2>5. QED
    BY <1>4, <2>1, <2>3, <2>4, FewAreLeft
<1>7. PlanIsSound'
  BY <1>3, <1>5 DEF PlanIsSound
<1>8. NoFreePortSkipped'
  <2>1. FirstPort(s)' = FirstPort(s) /\ Candidates(s)' = Candidates(s)
    BY <1>3, SameInput
  <2>2. FirstPort(plan.slot)' = FirstPort(s) /\ Candidates(plan.slot)' = Candidates(s)
    BY <1>3, <1>5, <2>1 DEF FirstPort, Candidates
  <2>3. QED
    BY <1>3, <1>5, <1>6, <2>2 DEF NoFreePortSkipped
<1>9. QED
  BY <1>3, <1>5, <1>7, <1>8, ReturnKeeps DEF PortSearchIsRight

LEMMA CompleteKeeps ==
  ASSUME PortConstants, PortInv, Complete
  PROVE  PortInv'
<1>1. PICK ports : ports = [s \in Slots |-> IF cursor.selected[s] > 0 THEN cursor.selected[s]
                                                                  ELSE input[s].explicit]
  OBVIOUS
<1>2. PICK result : result = [kind |-> "complete", ever |-> ever, same |-> ~retyped,
                              ledger |-> search.ledger, ports |-> ports]
  OBVIOUS
<1>3. /\ ReturnPlan(result) /\ UNCHANGED <<input, taken>> /\ plan' = result
      /\ search.at = "scan" /\ OpenSlots = {}
  BY <1>1, <1>2 DEF Complete, ReturnPlan
<1>4. /\ result.kind = "complete" /\ result.ports = ports /\ result.ever = ever
      /\ result.same = ~retyped /\ result.ledger = search.ledger
  BY <1>2
<1>5. ASSUME NEW s \in Automatic
      PROVE  /\ s \in Slots /\ s \in Selections /\ ports[s] = cursor.selected[s]
             /\ StillSelected(s) /\ cursor.selected[s] < cursor.next[s]
  <2>1. s \in Slots /\ cursor.selected[s] > 0
    BY <1>3, SlotFacts DEF PortInv, OpenSlots, Automatic
  <2>2. QED
    BY <1>1, <1>3, <2>1 DEF PortInv, SelectionsStand, Selections
<1>6. ASSUME NEW s \in Slots \ Automatic
      PROVE  ports[s] = input[s].explicit /\ ValidExplicit(s) /\ ports[s] \in Explicit
  <2>1. ~(cursor.selected[s] > 0)
    BY <1>3 DEF PortInv, SelectionsStand, StillSelected
  <2>2. QED
    BY <1>1, <1>3, <2>1 DEF PortInv, SelectionsStand, Explicit
<1>7. PlanIsSound'
  <2>1. \A s \in Slots : ports[s] \in input[s].min..input[s].max
    BY <1>5, <1>6 DEF StillSelected, ValidExplicit
  <2>2. ASSUME NEW s \in Slots, NEW t \in Slots, ports[s] = ports[t] PROVE s = t
    <3>1. CASE s \in Automatic /\ t \in Automatic
      BY <1>3, <1>5, <2>2, <3>1 DEF PortInv, LookedAt
    <3>2. CASE s \notin Automatic /\ t \notin Automatic
      BY <1>6, <2>2, <3>2 DEF ValidExplicit
    <3>3. CASE s \in Automatic /\ t \notin Automatic
      BY <1>5, <1>6, <2>2, <3>3 DEF StillSelected
    <3>4. CASE s \notin Automatic /\ t \in Automatic
      BY <1>5, <1>6, <2>2, <3>4 DEF StillSelected
    <3>5. QED
      BY <3>1, <3>2, <3>3, <3>4
  <2>3. \A s \in Automatic : ports[s] > input[s].source /\ ports[s] \notin search.ledger
    BY <1>3, <1>5 DEF StillSelected, PortInv, LookedAt
  <2>4. QED
    BY <1>3, <1>4, <1>6, <2>1, <2>2, <2>3, SameInput DEF PlanIsSound
<1>8. NoFreePortSkipped'
  <2>1. ASSUME ~retyped, NEW s \in Automatic, NEW p \in Candidates(s), ~(p >= ports[s]),
               p \notin ever
        PROVE  \E t \in Slots \ {s} : ports[t] = p
    <3>1. p \in Nat /\ p > 0 /\ s \in Slots
      BY <1>5, CandidatesAreNumbers
    <3>2. ports[s] \in Nat /\ p < ports[s] /\ cursor.next[s] \in Nat
      BY <1>5, <2>1, <3>1, SlotFacts DEF PortInv
    <3>3. p < cursor.next[s] /\ p # cursor.selected[s]
      BY <1>5, <3>1, <3>2
    <3>4. AccountedFor(s, p)
      BY <2>1, <3>1, <3>3 DEF PortInv, NothingPassedOver
    <3>5. CASE \E t \in Slots \ {s} : cursor.selected[t] = p
      BY <1>1, <3>1, <3>5
    <3>6. CASE p \in Explicit
      <4>1. PICK t \in Slots \ Automatic : p = input[t].explicit
        BY <3>6 DEF Explicit
      <4>2. QED
        BY <1>6, <4>1
    <3>7. QED
      BY <2>1, <3>3, <3>4, <3>5, <3>6 DEF AccountedFor
  <2>2. QED
    <3>1. \A s \in Automatic' : \A p \in Candidates(s)' :
            ~retyped => \/ p >= ports[s] \/ p \in ever
                        \/ \E t \in Slots \ {s} : ports[t] = p
      BY <1>3, <2>1, SameInput
    <3>2. /\ plan'.kind = "complete" /\ plan'.ports = ports /\ plan'.ever = ever
          /\ plan'.same = ~retyped
      BY <1>3, <1>4
    <3>3. QED
      BY <3>1, <3>2, ZenonT(30) DEF NoFreePortSkipped
<1>9. QED
  BY <1>3, <1>4, <1>7, <1>8, ReturnKeeps DEF PortSearchIsRight

LEMMA PortStepKeeps ==
  ASSUME PortConstants, PortInv, [PortNext]_portVars
  PROVE  PortInv'
<1>1. CASE ObserveFails
  BY <1>1, RejectedKeeps DEF ObserveFails
<1>2. CASE UNCHANGED portVars
  <2>1. PortTypesOK' /\ HeldIsKnown'
    BY <1>2 DEF portVars, PortInv, PortTypesOK, HeldIsKnown, Held
  <2>2. SelectionsStand' /\ LookedAt'
    BY <1>2, SelectionStays, SameInput DEF portVars, PortInv, SelectionsStand, LookedAt, Selections
  <2>3. NothingPassedOver'
    BY <1>2, SameInput DEF portVars, PortInv, NothingPassedOver, AccountedFor
  <2>4. QED
    BY <1>2, <2>1, <2>2, <2>3, AnswerStays, StoredStays DEF portVars, PortInv
<1>3. QED
  BY <1>1, <1>2, BeginCallKeeps, OutOfTimeKeeps, CheckExplicitKeeps, StartRevalidationKeeps,
     RevalidateKeeps, StartScanKeeps, TryKeeps, NeedsInputKeeps, CompleteKeeps, WorldKeeps,
     RetypeKeeps DEF PortNext

(* A complete plan is sound for its input and for the ledger and Docker as   *)
(* its call read them, and a search spread over any number of calls passes   *)
(* over no port that was free all the time: plan_ports of host_ports.rs.     *)
THEOREM PortSearch == PortSpec => []PortSearchIsRight
<1>1. PortInit => PortInv
  BY PortAssumption, PortStart
<1>2. PortInv /\ [PortNext]_portVars => PortInv'
  BY PortAssumption, PortStepKeeps
<1>3. PortInv => PortSearchIsRight
  BY DEF PortInv
<1>4. QED
  BY <1>1, <1>2, <1>3, PTL DEF PortSpec
================================================================================
