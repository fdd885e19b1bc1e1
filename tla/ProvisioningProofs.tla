--------------------------- MODULE ProvisioningProofs ---------------------------
(***************************************************************************)
(* Proofs about PortLedger and Provisioning, for every number of           *)
(* operations, ports, restarts and faults.                                 *)
(*                                                                         *)
(* What is shown first of the ledger's transactions holds of everything    *)
(* that creates, edits and recovers an instance: each step of Provisioning *)
(* is one transaction of the ledger or leaves the ports alone, and an      *)
(* instance found managed satisfies the ledger's invariant.                *)
(*                                                                         *)
(* PInv adds the task, the journal, the change CLIs and the container.  A  *)
(* CLI that has not ended has its step in doubt in the journal (CliOK), so *)
(* that whoever could change the instance besides it is refused: an        *)
(* acceptance by the unresolved operation, a recovery by the blocked       *)
(* supervisor or by the step another process left in doubt.  The container *)
(* is of a reserved revision (BoxOK), and once a task has inspected it, of *)
(* the one the task is after (InspectedOK), which is the one its           *)
(* completion applies (GoalOK).  None of these is inductive by itself: a   *)
(* completion needs the last two, and all but CliOK need it, since nothing *)
(* else keeps a CLI away from a container that was inspected.              *)
(***************************************************************************)
EXTENDS Provisioning, TLAPS, FiniteSetTheorems

-------------------------------------------------------------------------------
(***************************************************************************)
(* The ledger, for every set of slots, ports and revisions.  The argument: *)
(* while a change is unresolved the ports of the original revision stay    *)
(* committed, those of the candidate are the instance's, and no port moves *)
(* from one slot to another between the two (NoSwap).  With a move,        *)
(* finish_change would release the port under its old slot and have        *)
(* nothing left to commit under the new one.                               *)
(***************************************************************************)

\* The revision whose ports stay committed whatever becomes of a change.
Base == IF applied = 0 THEN 1 ELSE applied

NoSwap(old, new) == \A s, t \in Slots : old[s] = new[t] => s = t

\* The candidate's ports are reserved, and those only held are listed for it.
HeldForChange ==
  \A s \in Slots :
    LET p == bindings[change.new][s] IN Own(p) /\ (reservation[p] = "held" => p \in change.listed)

LedgerInv ==
  /\ bindings # <<>> => Committed(bindings[Base])
  /\ bindings = <<>> => change = NoChange
  /\ change # NoChange =>
       /\ change.old = Base
       /\ change.new \in DOMAIN bindings
       /\ HeldForChange
       /\ NoSwap(bindings[change.old], bindings[change.new])

-------------------------------------------------------------------------------
(* Types *)

LEMMA BindingsAreInjective ==
  ASSUME NEW b \in Bindings
  PROVE  /\ b \in [Slots -> Ports]
         /\ \A s, t \in Slots : b[s] = b[t] => s = t
         /\ PortsOf(b) \subseteq Ports
  BY DEF Bindings, PortsOf

LEMMA BaseIsARevision ==
  ASSUME LedgerTypeOK, bindings # <<>>
  PROVE  Base \in DOMAIN bindings /\ bindings[Base] \in Bindings
  <1>1. Len(bindings) \in Nat \ {0} /\ DOMAIN bindings = 1..Len(bindings)
    BY DEF LedgerTypeOK
  <1>2. Base \in 1..Len(bindings)
    BY <1>1 DEF Base, LedgerTypeOK
  <1> QED
    BY <1>1, <1>2 DEF LedgerTypeOK

\* Type correctness is preserved by every transaction.
LEMMA LedgerTypeStep ==
  ASSUME LedgerTypeOK, LedgerInv, [LedgerNext]_ledgerVars
  PROVE  LedgerTypeOK'
  <1> USE DEF LedgerTypeOK
  <1>1. ASSUME NEW b \in Bindings, CommitBindings(b)
        PROVE  LedgerTypeOK'
    BY <1>1 DEF CommitBindings, ReservationStates
  <1>2. ASSUME NEW b \in Bindings, BeginPortEdit(b)
        PROVE  LedgerTypeOK'
    <2>1. PortsOf(b) \ PortsOf(bindings[applied]) \subseteq Ports
      BY BindingsAreInjective
    <2>2. change' \in Changes
      BY <1>2, <2>1 DEF BeginPortEdit, Changes
    <2>3. bindings' \in Seq(Bindings) /\ Len(bindings') = Len(bindings) + 1
      BY <1>2 DEF BeginPortEdit
    <2>4. reservation' \in [Ports -> ReservationStates]
      BY <1>2 DEF BeginPortEdit, ReservationStates
    <2> QED
      BY <1>2, <2>2, <2>3, <2>4 DEF BeginPortEdit
  <1>3. ASSUME NEW b \in Bindings, ConfirmPortRecovery(b)
        PROVE  LedgerTypeOK'
    <2>1. {p \in PortsOf(b) : ~Own(p)} \subseteq Ports
      BY BindingsAreInjective
    <2>2. change' \in Changes
      BY <1>3, <2>1 DEF ConfirmPortRecovery, Changes, Original
    <2>3. bindings' \in Seq(Bindings) /\ Len(bindings') = Len(bindings) + 1
      BY <1>3 DEF ConfirmPortRecovery
    <2>4. reservation' \in [Ports -> ReservationStates]
      BY <1>3 DEF ConfirmPortRecovery, ReservationStates
    <2> QED
      BY <1>3, <2>2, <2>3, <2>4 DEF ConfirmPortRecovery
  <1>4. ASSUME NEW target \in DOMAIN bindings, FinishChange(target)
        PROVE  LedgerTypeOK'
    <2>1. target \in 1..Len(bindings)
      <3>1. change.new \in 1..Len(bindings) /\ Base \in 1..Len(bindings) /\ change.old = Base
        BY <1>4, BaseIsARevision DEF FinishChange, LedgerInv
      <3> QED
        BY <1>4, <3>1 DEF FinishChange
    <2>2. reservation' \in [Ports -> ReservationStates]
      BY <1>4 DEF FinishChange, ReleaseMoved, CommitListed, ReleaseUnbound, ReservationStates
    <2> QED
      BY <1>4, <2>1, <2>2 DEF FinishChange
  <1>5. ASSUME ApplyFirst
        PROVE  LedgerTypeOK'
    BY <1>5 DEF ApplyFirst
  <1>6. ASSUME GiveUpChange
        PROVE  LedgerTypeOK'
    BY <1>6 DEF GiveUpChange
  <1>7. ASSUME NEW p \in Ports, OtherInstance(p)
        PROVE  LedgerTypeOK'
    BY <1>7 DEF OtherInstance, ReservationStates
  <1>8. CASE UNCHANGED ledgerVars
    BY <1>8 DEF ledgerVars
  <1> QED
    BY <1>1, <1>2, <1>3, <1>4, <1>5, <1>6, <1>7, <1>8 DEF LedgerNext

-------------------------------------------------------------------------------
(* The inductive invariant *)

\* finish_change commits every port of the revision it settles on.
LEMMA FinishCommits ==
  ASSUME LedgerTypeOK, LedgerInv, NEW target, FinishChange(target), NEW s \in Slots
  PROVE  reservation'[bindings[target][s]] = "committed"
  <1> DEFINE old == bindings[change.old]
             new == bindings[target]
             p == new[s]
  <1>1. /\ bindings # <<>>
        /\ change.old \in DOMAIN bindings /\ old \in Bindings
        /\ change.old = Base
    BY BaseIsARevision DEF FinishChange, LedgerInv
  <1>2. target \in DOMAIN bindings /\ new \in Bindings
    BY <1>1 DEF FinishChange, LedgerInv, LedgerTypeOK
  <1>3. p \in Ports /\ p \in PortsOf(new)
    BY <1>2, BindingsAreInjective DEF PortsOf
  <1>4. ~ \E t \in Slots : old[t] = p /\ new[t] # p
    <2>1. CASE target = change.old
      BY <2>1, <1>1, BindingsAreInjective
    <2>2. CASE target = change.new
      BY <2>2 DEF FinishChange, LedgerInv, NoSwap
    <2> QED
      BY <2>1, <2>2 DEF FinishChange
  <1>5. reservation[p] = "committed" \/ (reservation[p] = "held" /\ p \in change.listed)
    <2>1. CASE target = change.old
      BY <2>1, <1>1 DEF LedgerInv, Committed
    <2>2. CASE target = change.new
      BY <2>2 DEF FinishChange, LedgerInv, HeldForChange, Own
    <2> QED
      BY <2>1, <2>2 DEF FinishChange
  <1>6. ReleaseMoved(reservation, old, new)[p] = reservation[p]
    BY <1>3, <1>4 DEF ReleaseMoved
  <1>7. CommitListed(ReleaseMoved(reservation, old, new), change.listed)[p] = "committed"
    BY <1>3, <1>5, <1>6 DEF CommitListed
  <1> QED
    BY <1>3, <1>7 DEF FinishChange, ReleaseUnbound

\* The invariant is preserved by every transaction.
LEMMA LedgerInvStep ==
  ASSUME LedgerTypeOK, LedgerTypeOK', LedgerInv, [LedgerNext]_ledgerVars
  PROVE  LedgerInv'
  <1>1. ASSUME NEW b \in Bindings, CommitBindings(b)
        PROVE  LedgerInv'
    <2>1. applied = 0 /\ Base' = 1 /\ change' = NoChange /\ bindings' = <<b>>
      BY <1>1 DEF CommitBindings, LedgerTypeOK, LedgerInv, Base
    <2>2. Committed(b)'
      BY <1>1, BindingsAreInjective DEF CommitBindings, Committed, PortsOf
    <2> QED
      BY <2>1, <2>2 DEF LedgerInv
  <1>2. ASSUME NEW b \in Bindings, BeginPortEdit(b)
        PROVE  LedgerInv'
    <2> DEFINE old == bindings[applied]
    <2>1. /\ bindings # <<>> /\ applied \in DOMAIN bindings /\ Base = applied /\ Base' = applied
          /\ old \in Bindings
      BY <1>2 DEF BeginPortEdit, LedgerTypeOK, Base
    <2>2. /\ bindings'[applied] = old /\ bindings'[change'.new] = b
          /\ change'.old = applied /\ change'.new \in DOMAIN bindings'
          /\ change'.listed = PortsOf(b) \ PortsOf(old)
          /\ bindings' # <<>>
      BY <1>2, <2>1 DEF BeginPortEdit, LedgerTypeOK
    <2>3. \A p \in Ports : p \notin PortsOf(b) \ PortsOf(old) => reservation'[p] = reservation[p]
      BY <1>2 DEF BeginPortEdit
    <2>4. \A s \in Slots : reservation'[old[s]] = "committed"
      BY <1>2, <2>1, <2>3, BindingsAreInjective DEF BeginPortEdit, Committed, PortsOf
    <2>5. \A s \in Slots : b[s] \in Ports /\
            (b[s] \in PortsOf(old) => reservation'[b[s]] = "committed") /\
            (b[s] \notin PortsOf(old) => reservation'[b[s]] = "held" /\ b[s] \in change'.listed)
      BY <1>2, <2>1, <2>2, <2>4, BindingsAreInjective DEF BeginPortEdit, Committed, PortsOf
    <2>6. NoSwap(old, b)
      BY <1>2, <2>1, BindingsAreInjective DEF BeginPortEdit, Proposed, Committed, NoSwap
    <2>7. HeldForChange'
      BY <2>2, <2>5 DEF HeldForChange, Own
    <2> QED
      BY <2>1, <2>2, <2>4, <2>6, <2>7 DEF LedgerInv, Committed
  <1>3. ASSUME NEW b \in Bindings, ConfirmPortRecovery(b)
        PROVE  LedgerInv'
    <2> DEFINE old == bindings[Base]
               previous == bindings[Candidate]
               taken == {p \in PortsOf(b) : ~Own(p)}
    <2>1. /\ bindings # <<>> /\ Base \in DOMAIN bindings /\ old \in Bindings
          /\ Candidate \in DOMAIN bindings /\ previous \in Bindings
          /\ Original = Base /\ Base' = Base
      <3>1. bindings # <<>>
        BY <1>3 DEF ConfirmPortRecovery, Candidate, LedgerInv, LedgerTypeOK
      <3>2. Candidate \in DOMAIN bindings
        BY <1>3, <3>1 DEF ConfirmPortRecovery, LedgerTypeOK
      <3>3. Original = Base
        BY <1>3 DEF ConfirmPortRecovery, Original, Base, LedgerInv
      <3> QED
        BY <1>3, <3>1, <3>2, <3>3, BaseIsARevision DEF ConfirmPortRecovery, LedgerTypeOK, Base
    <2>2. /\ bindings'[Base] = old /\ bindings'[change'.new] = b
          /\ change'.old = Base /\ change'.new \in DOMAIN bindings'
          /\ bindings' # <<>>
      BY <1>3, <2>1 DEF ConfirmPortRecovery, LedgerTypeOK
    <2>3. taken \subseteq change'.listed /\ (change # NoChange => change.listed \subseteq change'.listed)
      BY <1>3 DEF ConfirmPortRecovery
    <2>4. \A p \in Ports : reservation'[p] = IF p \in taken THEN "held" ELSE reservation[p]
      BY <1>3 DEF ConfirmPortRecovery
    <2>5. \A s \in Slots : reservation'[old[s]] = "committed"
      BY <2>1, <2>4, BindingsAreInjective DEF LedgerInv, Committed, Own
    <2>6. NoSwap(old, b)
      <3>1. NoSwap(old, previous)
        BY <1>3, <2>1, BindingsAreInjective
           DEF ConfirmPortRecovery, LedgerInv, Candidate, Base, NoSwap
      <3>2. SUFFICES ASSUME NEW s \in Slots, NEW t \in Slots, old[s] = b[t]
                     PROVE  s = t
        BY DEF NoSwap
      <3>3. reservation[b[t]] = "committed"
        BY <2>1, <3>2 DEF LedgerInv, Committed
      <3>4. b[t] = previous[t]
        BY <1>3, <3>3 DEF ConfirmPortRecovery, Proposed
      <3> QED
        BY <3>1, <3>2, <3>4 DEF NoSwap
    <2>7. HeldForChange'
      <3>1. SUFFICES ASSUME NEW s \in Slots
                     PROVE  /\ reservation'[b[s]] \in {"held", "committed"}
                            /\ reservation'[b[s]] = "held" => b[s] \in change'.listed
        BY <2>2 DEF HeldForChange, Own
      <3>2. b[s] \in Ports /\ b[s] \in PortsOf(b)
        BY BindingsAreInjective DEF PortsOf
      <3>3. CASE b[s] \in taken
        BY <3>2, <3>3, <2>3, <2>4
      <3>4. CASE b[s] \notin taken
        <4>1. Own(b[s]) /\ reservation'[b[s]] = reservation[b[s]]
          BY <3>2, <3>4, <2>4
        <4>2. b[s] = previous[s]
          BY <1>3, <4>1 DEF ConfirmPortRecovery, Proposed, Own
        <4>3. reservation[b[s]] = "held" => change # NoChange /\ b[s] \in change.listed
          BY <1>3, <2>1, <4>2 DEF ConfirmPortRecovery, LedgerInv, HeldForChange, Committed, Candidate, Base
        <4> QED
          BY <4>1, <4>3, <2>3 DEF Own
      <3> QED
        BY <3>3, <3>4
    <2> QED
      BY <2>1, <2>2, <2>5, <2>6, <2>7 DEF LedgerInv, Committed
  <1>4. ASSUME NEW target \in DOMAIN bindings, FinishChange(target)
        PROVE  LedgerInv'
    <2>1. bindings # <<>> /\ bindings' = bindings /\ change' = NoChange /\ Base' = target
      BY <1>4 DEF FinishChange, LedgerInv, Base
    <2>2. Committed(bindings[target])'
      BY <1>4, <2>1, FinishCommits DEF Committed
    <2> QED
      BY <2>1, <2>2 DEF LedgerInv
  <1>5. ASSUME ApplyFirst
        PROVE  LedgerInv'
    BY <1>5 DEF ApplyFirst, LedgerInv, Committed, Base
  <1>6. ASSUME GiveUpChange
        PROVE  LedgerInv'
    BY <1>6 DEF GiveUpChange, LedgerInv, Committed, Base
  <1>7. ASSUME NEW p \in Ports, OtherInstance(p)
        PROVE  LedgerInv'
    <2>1. UNCHANGED <<bindings, applied, change, Base>>
      BY <1>7 DEF OtherInstance, Base
    <2>2. \A q \in Ports : Own(q) => reservation'[q] = reservation[q]
      BY <1>7 DEF OtherInstance, LedgerTypeOK, Own
    <2>3. bindings # <<>> => Committed(bindings[Base])'
      BY <2>1, <2>2, BaseIsARevision, BindingsAreInjective DEF LedgerInv, Committed, Own
    <2>4. change # NoChange => HeldForChange'
      <3>1. SUFFICES ASSUME change # NoChange, NEW s \in Slots
                     PROVE  LET q == bindings[change.new][s] IN
                              /\ reservation'[q] \in {"held", "committed"}
                              /\ reservation'[q] = "held" => q \in change.listed
        BY <2>1 DEF HeldForChange, Own
      <3>2. bindings[change.new] \in Bindings
        BY <3>1 DEF LedgerInv, LedgerTypeOK
      <3>3. bindings[change.new][s] \in Ports
        BY <3>2, BindingsAreInjective
      <3> QED
        BY <3>1, <3>3, <2>2 DEF LedgerInv, HeldForChange, Own
    <2> QED
      BY <2>1, <2>3, <2>4 DEF LedgerInv
  <1>8. CASE UNCHANGED ledgerVars
    BY <1>8 DEF ledgerVars, LedgerInv, Committed, Base, HeldForChange, Own
  <1> QED
    BY <1>1, <1>2, <1>3, <1>4, <1>5, <1>6, <1>7, <1>8 DEF LedgerNext

-------------------------------------------------------------------------------
(* Theorems *)

\* The ledger's tables are well typed and satisfy the inductive invariant in
\* every reachable state.
THEOREM LedgerInvariant == LedgerSpec => [](LedgerTypeOK /\ LedgerInv)
  <1>1. LedgerInit => LedgerTypeOK /\ LedgerInv
    BY DEF LedgerInit, LedgerTypeOK, LedgerInv, ReservationStates
  <1>2. LedgerTypeOK /\ LedgerInv /\ [LedgerNext]_ledgerVars => (LedgerTypeOK /\ LedgerInv)'
    BY LedgerTypeStep, LedgerInvStep
  <1> QED
    BY <1>1, <1>2, PTL DEF LedgerSpec

\* port_bindings, port_reservations and pending_changes keep their types.
THEOREM LedgerTypeCorrect == LedgerSpec => []LedgerTypeOK
  BY LedgerInvariant, PTL

LEMMA AppliedFromInv ==
  ASSUME LedgerTypeOK, LedgerInv
  PROVE  AppliedIsCommitted
  BY DEF LedgerTypeOK, LedgerInv, AppliedIsCommitted, Base

\* Whatever edits, candidates, restorations and abandonments an instance goes
\* through, the ports of its applied revision are committed to it.
THEOREM AppliedStaysCommitted == LedgerSpec => []AppliedIsCommitted
  BY AppliedFromInv, LedgerInvariant, PTL

\* After a confirmation there is a row in pending_changes.
LEMMA ConfirmLeavesChange ==
  ASSUME LedgerTypeOK, NEW b \in Bindings, ConfirmPortRecovery(b)
  PROVE  change' # NoChange
  <1>1. {p \in PortsOf(b) : ~Own(p)} \subseteq Ports
    BY BindingsAreInjective
  <1>2. change' \in [old : Nat, new : Nat, listed : SUBSET Ports]
    BY <1>1 DEF ConfirmPortRecovery, LedgerTypeOK, Changes, Original
  <1> QED
    BY <1>2, LedgerAssumption

LEMMA SettlingStep ==
  ASSUME LedgerTypeOK, LedgerInv, [LedgerNext]_ledgerVars
  PROVE  [SettlesExactly]_ledgerVars
  <1>1. SUFFICES ASSUME change # NoChange, change' = NoChange,
                        applied' # applied \/ reservation' # reservation
                 PROVE  {p \in Ports : reservation'[p] \in {"held", "committed"}}
                          = PortsOf(bindings[applied'])
    BY DEF SettlesExactly
  <1>2. PICK target \in DOMAIN bindings : FinishChange(target)
    <2>1. ASSUME NEW b \in Bindings
          PROVE  ~CommitBindings(b) /\ ~BeginPortEdit(b) /\ ~ConfirmPortRecovery(b)
      BY <1>1, <2>1, ConfirmLeavesChange DEF CommitBindings, BeginPortEdit
    <2>2. ~ApplyFirst /\ ~GiveUpChange
      BY <1>1 DEF ApplyFirst, GiveUpChange
    <2>3. \A p \in Ports : ~OtherInstance(p)
      BY <1>1 DEF OtherInstance
    <2> QED
      BY <1>1, <2>1, <2>2, <2>3 DEF LedgerNext, ledgerVars
  <1>3. applied' = target /\ bindings[target] \in Bindings
    BY <1>2, BaseIsARevision DEF FinishChange, LedgerInv, LedgerTypeOK
  <1>4. \A p \in PortsOf(bindings[target]) : p \in Ports /\ reservation'[p] = "committed"
    BY <1>2, <1>3, FinishCommits, BindingsAreInjective DEF PortsOf
  <1>5. \A p \in Ports \ PortsOf(bindings[target]) : reservation'[p] \notin {"held", "committed"}
    BY <1>2 DEF FinishChange, ReleaseUnbound
  <1> QED
    BY <1>3, <1>4, <1>5

\* finish_change leaves the instance exactly the ports of the revision it
\* settles on: nothing tried on the way, and nothing abandoned before, stays.
THEOREM SettlingIsExact == LedgerSpec => ChangeSettlesExactly
  BY SettlingStep, LedgerInvariant, PTL DEF LedgerSpec, ChangeSettlesExactly

-------------------------------------------------------------------------------
(***************************************************************************)
(* What creates, edits and recovers an instance, over the ledger.          *)
(***************************************************************************)

LEMMA InitLedger ==
  Init => LedgerTypeOK /\ LedgerInv
  <1>1. LedgerInit => LedgerTypeOK /\ LedgerInv
    BY DEF LedgerInit, LedgerTypeOK, LedgerInv, ReservationStates
  <1>2. ASSUME bindings \in {<<b>> : b \in Bindings}, applied = 1, change = NoChange,
               reservation \in [Ports -> {"free", "other", "committed"}],
               \A p \in Ports : reservation[p] = "committed" <=> p \in PortsOf(bindings[1])
        PROVE  LedgerTypeOK /\ LedgerInv
    <2>1. PICK b \in Bindings : bindings = <<b>>
      BY <1>2
    <2>2. bindings[1] \in Bindings
      BY <2>1
    <2>3. Committed(bindings[1])
      BY <1>2, <2>2, BindingsAreInjective DEF Committed, PortsOf
    <2> QED
      BY <1>2, <2>1, <2>3 DEF LedgerTypeOK, LedgerInv, Base, ReservationStates
  <1> QED
    BY <1>1, <1>2 DEF Init

\* A step of the stages of a task.
LEMMA StagesStep ==
  ASSUME LedgerTypeOK, LedgerInv, Stages
  PROVE  [LedgerNext]_ledgerVars
  <1>1. CASE CannotBegin \/ BeginWork \/ RecordIntent \/ RecordFails \/ MarkExecuting
    BY <1>1 DEF CannotBegin, BeginWork, RecordIntent, RecordFails, MarkExecuting, JournalOnly, Fault
  <1>2. CASE Look \/ Initialize \/ Spawn \/ RefuseSpawn \/ CliEnds
    BY <1>2 DEF Look, Initialize, Spawn, RefuseSpawn, CliEnds, Fault
  <1>3. CASE Finish \/ Fail \/ Fallback
    BY <1>3 DEF Finish, Fail, Fallback, JournalOnly, SetPhase, Fault
  <1>4. CASE Complete
    <2>1. CASE CompleteChange(task.op)
      <3>1. PICK target \in {change.old, change.new} : FinishChange(target)
        BY <2>1 DEF CompleteChange
      <3>2. target \in DOMAIN bindings
        BY <3>1, BaseIsARevision DEF FinishChange, LedgerInv
      <3> QED
        BY <3>1, <3>2 DEF LedgerNext
    <2>2. CASE CompleteReady(task.op)
      BY <2>2 DEF CompleteReady, LedgerNext
    <2> QED
      BY <1>4, <2>1, <2>2 DEF Complete, Completed
  <1>5. CASE CompletionFails
    BY <1>5 DEF CompletionFails, Fault
  <1> QED
    BY <1>1, <1>2, <1>3, <1>4, <1>5 DEF Stages

LEMMA ProvisioningStep ==
  ASSUME LedgerTypeOK, LedgerInv, [Next]_vars
  PROVE  [LedgerNext]_ledgerVars
  <1>1. ASSUME NEW o \in Operations, NEW b \in Bindings, AcceptCreate(o, b) \/ AcceptEdit(o, b)
        PROVE  LedgerNext
    BY <1>1 DEF AcceptCreate, AcceptEdit, LedgerNext
  <1>2. ASSUME NEW o \in Operations, Abandon(o)
        PROVE  LedgerNext
    BY <1>2 DEF Abandon, LedgerNext
  <1>3. ASSUME NEW o \in Operations, NEW a \in Offers, Recover(o, a)
        PROVE  UNCHANGED ledgerVars
    BY <1>3 DEF Recover
  <1>4. CASE Recovering
    <2>1. ASSUME NEW b \in Bindings, ConfirmPorts(b)
          PROVE  LedgerNext
      BY <2>1 DEF ConfirmPorts, LedgerNext
    <2>2. CASE Hold \/ ReportConflict \/ TryAgain \/ SettleStep \/ NextAttempt \/ SettleFails
      BY <2>2 DEF Hold, ReportConflict, TryAgain, SettleStep, NextAttempt, SettleFails,
                  SetPhase, JournalOnly, Fault
    <2> QED
      BY <1>4, <2>1, <2>2 DEF Recovering
  <1>5. CASE Restart \/ OtherUser \/ \E c \in live : Serve(c) \/ Vanish(c)
    BY <1>5 DEF Restart, OtherUser, Serve, Vanish
  <1>6. ASSUME NEW p \in Ports, Neighbour(p)
        PROVE  LedgerNext
    BY <1>6 DEF Neighbour, LedgerNext
  <1>7. CASE UNCHANGED vars
    BY <1>7 DEF vars
  <1> QED
    BY <1>1, <1>2, <1>3, <1>4, <1>5, <1>6, <1>7, StagesStep DEF Next, Requested

LEMMA ProvisioningInvariant == Spec => [](LedgerTypeOK /\ LedgerInv)
  <1>1. LedgerTypeOK /\ LedgerInv /\ [Next]_vars => (LedgerTypeOK /\ LedgerInv)'
    BY ProvisioningStep, LedgerTypeStep, LedgerInvStep
  <1> QED
    BY <1>1, InitLedger, PTL DEF Spec

\* Every step of a creation, an edit or a recovery writes the instance's ports
\* in one of the ledger's transactions or not at all.
THEOREM WritesAreTransactions == Spec => [][LedgerNext]_ledgerVars
  BY ProvisioningStep, ProvisioningInvariant, PTL DEF Spec

\* Through creation, edits and recoveries, with restarts, failed writes and
\* late change CLIs, the ports of the applied revision stay committed to the
\* instance, so that they are never given to another one.
THEOREM AppliedPortsAreKept == Spec => []AppliedIsCommitted
  BY AppliedFromInv, ProvisioningInvariant, PTL

\* A change that is carried out or taken back leaves the instance exactly the
\* ports of the revision it settled on.
THEOREM ChangesSettleExactly == Spec => ChangeSettlesExactly
  BY SettlingStep, ProvisioningStep, ProvisioningInvariant, PTL DEF Spec, ChangeSettlesExactly
-------------------------------------------------------------------------------
(* The task, its operation, the change CLIs and the container: what holds of  *)
(* them besides the ledger's invariant.                                        *)

StageNames ==
  {"storage", "image", "artifact", "config", "create", "inspect", "start", "initialize", "ready",
   "stored", "compose", "stopped", "recreate", "observe", "ports", "same"}
Working == {"settle", "record", "mark", "work", "waiting", "finish", "complete"}
Points == {"none", "begin", "look", "fail", "fallback"} \cup Working
Results == {"ok", "failed", "unknown", "conflict"}
TaskRows ==
  [op : Operations \cup {NoOperation}, flow : {"none", "create", "edit", "recover"},
   action : {"none"} \cup Offers, point : Points, todo : Seq(StageNames), result : Results,
   target : Nat, seen : Nat, pending : BOOLEAN]
BoxRows == [rev : Nat, running : BOOLEAN, recorded : BOOLEAN]
CliRows ==
  [op : Operations, at : Nat, command : {"create", "recreate", "start"}, rev : Nat,
   state : {"sent", "done", "broken"}]

TypesOK ==
  /\ lifecycle \in [{Subject} -> {"unregistered", "managed"}] /\ revision \in [{Subject} -> Nat]
  /\ operation \in [Operations -> Journal!OperationRows \cup {NoOperation}]
  /\ step \in [Operations -> Seq(Journal!StepRows)]
  /\ phase \in [Operations -> {"other", "restore", "reconcile", "ports"}]
  /\ box \in BoxRows \cup {NoBox}
  /\ live \subseteq CliRows
  /\ task \in TaskRows

\* An operation under way is the only one: a creation of an instance without
\* applied revision, or an edit with its change.
OperationsOK ==
  /\ \A o, p \in Operations : Journal!Unresolved(o) /\ Journal!Unresolved(p) => o = p
  /\ \A o \in Operations :
       /\ Journal!Recorded(o) => lifecycle[Subject] = "managed" /\ bindings # <<>>
       /\ ~Journal!Recorded(o) => phase[o] = "other"
       /\ Journal!Unresolved(o) => IF Ready(o) THEN applied = 0 ELSE change # NoChange

Has(todo, stage) == \E k \in DOMAIN todo : todo[k] = stage

\* A container is made before it is inspected, and storage is marked before
\* anything is started on it.
InspectedLater(todo) ==
  \A k \in DOMAIN todo :
    todo[k] \in {"create", "recreate"} => \E j \in DOMAIN todo : j > k /\ todo[j] = "inspect"
MarkedBefore(todo) ==
  \A k \in DOMAIN todo : todo[k] = "start" => \E j \in DOMAIN todo : j < k /\ todo[j] = "initialize"

\* A task works on an unresolved operation, with the intent of a recorded
\* stage on record.
TaskOK ==
  /\ task.point # "none" => task.op \in Operations /\ Journal!Unresolved(task.op)
  /\ task.point = "none" => task = Idle
  /\ InspectedLater(task.todo)
  /\ initialization = "not_attempted" => MarkedBefore(task.todo)
  /\ task.flow # "create" => ~Has(task.todo, "create")
  /\ task.point \in {"record", "mark", "work", "waiting", "finish"} => task.todo # <<>>
  /\ task.point \in {"waiting", "finish"} => Recorded(task.flow, Stage)
  /\ task.point = "waiting" => Spawns(Stage)
  /\ task.point = "fail" => task.result # "ok"
  /\ task.point = "complete" => task.todo = <<>>
  /\ task.point \in {"mark", "work", "waiting", "finish"} /\ Recorded(task.flow, Stage) =>
       /\ step[task.op] # <<>>
       /\ step[task.op][Len(step[task.op])].outcome = Journal!Open

\* It is after the candidate or the original, as the phase it has written says.
GoalOK ==
  task.point \in Working \cup {"begin"} =>
    /\ task.target = Goal
    /\ task.point # "settle" => (phase[task.op] = "restore" <=> Restoring)

\* Once inspected, the container is the target's or it is gone.
Left == IF task.point = "finish" THEN Tail(task.todo) ELSE task.todo
InspectedOK ==
  /\ task.point \in Working
  /\ task.point = "finish" => task.result = "ok"
  /\ ~Has(Left, "inspect")
  /\ box # NoBox
  => box.rev = task.target

\* A change CLI that has not ended is in doubt in the journal, and nothing goes
\* on beside it: its task waits for it or gives up with the supervisor
\* blocked, or it is inherited and its operation left alone.
CliOK(c) ==
  /\ Journal!Unresolved(c.op)
  /\ step[c.op] # <<>> /\ c.at = Len(step[c.op])
  /\ step[c.op][c.at].outcome \in {Journal!Open, "unknown"}
  /\ c.command = "start" => initialization # "not_attempted"
  /\ \/ task.point = "waiting" /\ task.op = c.op /\ c.command = Stage
     \/ /\ blocked /\ task.point \in {"none", "finish", "fail", "fallback"}
        /\ task.point = "finish" => task.result = "unknown"
     \/ c.op \in inherited /\ task.point = "none"

\* What the container is made of, or may be by a change CLI, is reserved; at
\* rest it is the applied revision.
BoxOK ==
  /\ box # NoBox => box.rev \in DOMAIN bindings /\ Owns(bindings[box.rev])
  /\ \A c \in live : c.rev \in DOMAIN bindings /\ Owns(bindings[c.rev])
  /\ IdleBoxIsApplied

PInv ==
  /\ LedgerTypeOK /\ LedgerInv
  /\ TypesOK /\ OperationsOK /\ TaskOK /\ GoalOK /\ InspectedOK /\ BoxOK
  /\ \A c, d \in live : c = d
  /\ \A c \in live : CliOK(c)

-------------------------------------------------------------------------------
(* Lists of stages *)

LEMMA Tails ==
  ASSUME NEW s \in Seq(StageNames), s # <<>>
  PROVE  /\ Tail(s) \in Seq(StageNames) /\ Head(s) \in StageNames
         /\ InspectedLater(s) => InspectedLater(Tail(s))
         /\ MarkedBefore(s) /\ Head(s) # "initialize" => MarkedBefore(Tail(s))
         /\ \A x : Has(Tail(s), x) => Has(s, x)
         /\ \A x : Has(s, x) /\ Head(s) # x => Has(Tail(s), x)
         /\ InspectedLater(s) /\ Head(s) \in {"create", "recreate"} => Has(Tail(s), "inspect")
         /\ MarkedBefore(s) => Head(s) # "start"
         /\ \A x : ~Has(s, x) => Head(s) # x
<1> DEFINE t == Tail(s)
<1>1. /\ t \in Seq(StageNames) /\ Head(s) \in StageNames /\ Head(s) = s[1]
      /\ Len(s) \in Nat \ {0} /\ DOMAIN s = 1..Len(s) /\ DOMAIN t = 1..(Len(s) - 1)
      /\ \A k \in DOMAIN t : t[k] = s[k + 1] /\ k + 1 \in DOMAIN s
  OBVIOUS
<1>2. \A k \in DOMAIN s : k # 1 => k - 1 \in DOMAIN t /\ t[k - 1] = s[k]
  BY <1>1
<1>3. 1 \in DOMAIN s
  BY <1>1
<1> HIDE DEF t
<1>4. ASSUME InspectedLater(s) PROVE InspectedLater(t)
  <2>1. SUFFICES ASSUME NEW k \in DOMAIN t, t[k] \in {"create", "recreate"}
                 PROVE  \E j \in DOMAIN t : j > k /\ t[j] = "inspect"
    BY DEF InspectedLater
  <2>2. PICK j \in DOMAIN s : j > k + 1 /\ s[j] = "inspect"
    BY <1>1, <1>4, <2>1 DEF InspectedLater
  <2>3. j - 1 \in DOMAIN t /\ t[j - 1] = "inspect" /\ j - 1 > k
    BY <1>1, <1>2, <2>2
  <2>4. QED
    BY <2>3
<1>5. ASSUME MarkedBefore(s), Head(s) # "initialize" PROVE MarkedBefore(t)
  <2>1. SUFFICES ASSUME NEW k \in DOMAIN t, t[k] = "start"
                 PROVE  \E j \in DOMAIN t : j < k /\ t[j] = "initialize"
    BY DEF MarkedBefore
  <2>2. PICK j \in DOMAIN s : j < k + 1 /\ s[j] = "initialize"
    BY <1>1, <1>5, <2>1 DEF MarkedBefore
  <2>3. j - 1 \in DOMAIN t /\ t[j - 1] = "initialize" /\ j - 1 < k
    BY <1>1, <1>2, <1>5, <2>2
  <2>4. QED
    BY <2>3
<1>6. \A x : Has(t, x) => Has(s, x)
  BY <1>1 DEF Has
<1>7. \A x : Has(s, x) /\ Head(s) # x => Has(t, x)
  BY <1>1, <1>2 DEF Has
<1>8. ASSUME InspectedLater(s), Head(s) \in {"create", "recreate"} PROVE Has(t, "inspect")
  <2>1. PICK j \in DOMAIN s : j > 1 /\ s[j] = "inspect"
    BY <1>1, <1>3, <1>8 DEF InspectedLater
  <2>2. QED
    BY <1>2, <2>1 DEF Has
<1>9. MarkedBefore(s) => Head(s) # "start"
  BY <1>1, <1>3 DEF MarkedBefore
<1>10. \A x : ~Has(s, x) => Head(s) # x
  BY <1>1, <1>3 DEF Has
<1>11. QED
  BY <1>1, <1>4, <1>5, <1>6, <1>7, <1>8, <1>9, <1>10 DEF t

\* A list of stages of any task but a creation.
Sound(s) == s \in Seq(StageNames) /\ InspectedLater(s) /\ MarkedBefore(s) /\ ~Has(s, "create")

LEMMA Concatenation ==
  ASSUME NEW s, Sound(s), NEW t, Sound(t)
  PROVE  Sound(s \o t) /\ \A x : Has(s \o t, x) <=> Has(s, x) \/ Has(t, x)
<1> DEFINE u == s \o t
<1>1. s \in Seq(StageNames) /\ t \in Seq(StageNames)
  BY DEF Sound
<1>2. /\ u \in Seq(StageNames) /\ Len(s) \in Nat /\ Len(t) \in Nat /\ DOMAIN s = 1..Len(s) /\ DOMAIN t = 1..Len(t)
      /\ DOMAIN u = 1..(Len(s) + Len(t))
      /\ \A k \in DOMAIN u : u[k] = IF k <= Len(s) THEN s[k] ELSE t[k - Len(s)]
  BY <1>1
<1>3. /\ \A k \in DOMAIN s : k \in DOMAIN u /\ u[k] = s[k]
      /\ \A k \in DOMAIN t : k + Len(s) \in DOMAIN u /\ u[k + Len(s)] = t[k]
      /\ \A k \in DOMAIN u : k \in DOMAIN s \/ (k > Len(s) /\ k - Len(s) \in DOMAIN t /\ u[k] = t[k - Len(s)])
  BY <1>2
<1> HIDE DEF u
<1>4. \A x : Has(u, x) <=> Has(s, x) \/ Has(t, x)
  BY <1>3 DEF Has
<1>5. InspectedLater(u)
  <2>1. SUFFICES ASSUME NEW k \in DOMAIN u, u[k] \in {"create", "recreate"}
                 PROVE  \E j \in DOMAIN u : j > k /\ u[j] = "inspect"
    BY DEF InspectedLater
  <2>2. CASE k \in DOMAIN s
    <3>1. PICK j \in DOMAIN s : j > k /\ s[j] = "inspect"
      BY <1>3, <2>1, <2>2 DEF Sound, InspectedLater
    <3>2. QED
      BY <1>3, <3>1
  <2>3. CASE k \notin DOMAIN s
    <3>1. k > Len(s) /\ k - Len(s) \in DOMAIN t /\ u[k] = t[k - Len(s)]
      BY <1>3, <2>3
    <3>2. PICK j \in DOMAIN t : j > k - Len(s) /\ t[j] = "inspect"
      BY <2>1, <3>1 DEF Sound, InspectedLater
    <3>3. j + Len(s) \in DOMAIN u /\ u[j + Len(s)] = "inspect" /\ j + Len(s) > k
      BY <1>2, <1>3, <3>2
    <3>4. QED
      BY <3>3
  <2>4. QED
    BY <2>2, <2>3
<1>6. MarkedBefore(u)
  <2>1. SUFFICES ASSUME NEW k \in DOMAIN u, u[k] = "start"
                 PROVE  \E j \in DOMAIN u : j < k /\ u[j] = "initialize"
    BY DEF MarkedBefore
  <2>2. CASE k \in DOMAIN s
    <3>1. PICK j \in DOMAIN s : j < k /\ s[j] = "initialize"
      BY <1>3, <2>1, <2>2 DEF Sound, MarkedBefore
    <3>2. QED
      BY <1>3, <3>1
  <2>3. CASE k \notin DOMAIN s
    <3>1. k > Len(s) /\ k - Len(s) \in DOMAIN t /\ u[k] = t[k - Len(s)]
      BY <1>3, <2>3
    <3>2. PICK j \in DOMAIN t : j < k - Len(s) /\ t[j] = "initialize"
      BY <2>1, <3>1 DEF Sound, MarkedBefore
    <3>3. j + Len(s) \in DOMAIN u /\ u[j + Len(s)] = "initialize" /\ j + Len(s) < k
      BY <1>2, <1>3, <3>2
    <3>4. QED
      BY <3>3
  <2>4. QED
    BY <2>2, <2>3
<1>7. QED
  BY <1>2, <1>4, <1>5, <1>6 DEF u, Sound

LEMMA RecoveryIsSound ==
  ASSUME NEW restore \in BOOLEAN, NEW ready \in BOOLEAN
  PROVE  LET s == RecoveryStages(restore, ready) IN Sound(s) /\ Has(s, "inspect") /\ s # <<>> /\ s # <<"observe">>
<1> DEFINE a == IF restore THEN <<"config">> ELSE <<"compose", "artifact">>
           b == <<"ports", "same", "recreate", "inspect">>
           c == IF ready THEN <<"ports", "initialize", "start", "ready">> ELSE <<>>
           d == <<"observe">>
<1>1. Sound(a)
  <2>1. CASE restore
    BY <2>1 DEF Sound, StageNames, InspectedLater, MarkedBefore, Has
  <2>2. CASE ~restore
    <3>1. a \in Seq(StageNames) /\ DOMAIN a = 1..2 /\ a[1] = "compose" /\ a[2] = "artifact"
      BY <2>2 DEF StageNames
    <3>2. QED
      BY <3>1 DEF Sound, InspectedLater, MarkedBefore, Has
  <2>3. QED
    BY <2>1, <2>2
<1>2. Sound(b) /\ Has(b, "inspect")
  <2>1. b \in Seq(StageNames) /\ DOMAIN b = 1..4
    BY DEF StageNames
  <2>2. QED
    BY <2>1 DEF Sound, InspectedLater, MarkedBefore, Has
<1>3. Sound(c)
  <2>1. CASE ready
    <3>1. c \in Seq(StageNames) /\ DOMAIN c = 1..4
      BY <2>1 DEF StageNames
    <3>2. c[1] = "ports" /\ c[2] = "initialize" /\ c[3] = "start" /\ c[4] = "ready"
      BY <2>1
    <3>3. QED
      BY <3>1, <3>2 DEF Sound, InspectedLater, MarkedBefore, Has
  <2>2. CASE ~ready
    BY <2>2 DEF Sound, InspectedLater, MarkedBefore, Has
  <2>3. QED
    BY <2>1, <2>2
<1>4. Sound(d) /\ ~Has(d, "inspect")
  BY DEF Sound, StageNames, InspectedLater, MarkedBefore, Has
<1> HIDE DEF a, b, c, d
<1>5. Sound(a \o b) /\ Has(a \o b, "inspect")
  BY <1>1, <1>2, Concatenation
<1>6. Sound(a \o b \o c) /\ Has(a \o b \o c, "inspect")
  BY <1>3, <1>5, Concatenation
<1>7. Sound(a \o b \o c \o d) /\ Has(a \o b \o c \o d, "inspect")
  BY <1>4, <1>6, Concatenation
<1>8. a \o b \o c \o d # <<>> /\ a \o b \o c \o d # d
  BY <1>4, <1>7 DEF Has
<1>9. RecoveryStages(restore, ready) = a \o b \o c \o d
  BY DEF RecoveryStages, a, b, c, d
<1>10. QED
  BY <1>7, <1>8, <1>9 DEF d

LEMMA Lists ==
  /\ Sound(EditStages) /\ Has(EditStages, "inspect") /\ EditStages # <<>>
  /\ Sound(<<"observe">>) /\ ~Has(<<"observe">>, "inspect")
  /\ CreateStages \in Seq(StageNames) /\ InspectedLater(CreateStages) /\ MarkedBefore(CreateStages)
  /\ Has(CreateStages, "inspect") /\ CreateStages # <<>>
<1>1. Sound(EditStages) /\ Has(EditStages, "inspect") /\ EditStages # <<>>
  <2>1. EditStages \in Seq(StageNames) /\ DOMAIN EditStages = 1..8
    BY DEF EditStages, StageNames
  <2>2. /\ InspectedLater(EditStages) /\ MarkedBefore(EditStages)
        /\ ~Has(EditStages, "create") /\ Has(EditStages, "inspect")
    BY <2>1 DEF EditStages, InspectedLater, MarkedBefore, Has
  <2>3. EditStages # <<>>
    BY DEF EditStages
  <2>4. QED
    BY <2>1, <2>2, <2>3 DEF Sound
<1>2. Sound(<<"observe">>) /\ ~Has(<<"observe">>, "inspect")
  BY DEF Sound, StageNames, InspectedLater, MarkedBefore, Has
<1>3. CreateStages \in Seq(StageNames) /\ DOMAIN CreateStages = 1..9
  BY DEF CreateStages, StageNames
<1>4. InspectedLater(CreateStages) /\ MarkedBefore(CreateStages) /\ Has(CreateStages, "inspect")
  BY <1>3 DEF CreateStages, InspectedLater, MarkedBefore, Has
<1>5. CreateStages # <<>>
  BY DEF CreateStages
<1>6. QED
  BY <1>1, <1>2, <1>3, <1>4, <1>5

-------------------------------------------------------------------------------
(* What becomes of the task's fields *)

SameJob == task'.op = task.op /\ task'.flow = task.flow /\ task'.action = task.action /\ task'.target = task.target

LEMMA Dropped == Idle \in TaskRows /\ Idle.point = "none" /\ Idle.todo = <<>> /\ Idle.flow = "none" /\ Idle.op = NoOperation
BY DEF Idle, TaskRows, Points, Results, StageNames

LEMMA Placed ==
  ASSUME task \in TaskRows, NEW p \in Points, GoTo(p)
  PROVE  /\ task' \in TaskRows /\ task'.point = p /\ SameJob
         /\ task'.todo = task.todo /\ task'.result = task.result
BY DEF GoTo, TaskRows, SameJob

LEMMA Resulted ==
  ASSUME task \in TaskRows, NEW p \in Points, NEW r \in Results, task' = [task EXCEPT !.point = p, !.result = r]
  PROVE  task' \in TaskRows /\ task'.point = p /\ task'.result = r /\ SameJob /\ task'.todo = task.todo
BY DEF TaskRows, SameJob

LEMMA Sent ==
  ASSUME task \in TaskRows, NEW todo \in Seq(StageNames), task' = Towards(task, todo)
  PROVE  /\ task' \in TaskRows /\ task'.result = "ok" /\ SameJob /\ task'.todo = todo
         /\ task'.point = IF todo = <<>> THEN "complete"
                          ELSE IF Recorded(task.flow, Head(todo)) THEN "record" ELSE "work"
<1> DEFINE p == IF todo = <<>> THEN "complete"
                ELSE IF Recorded(task.flow, Head(todo)) THEN "record" ELSE "work"
<1>1. p \in Points
  BY DEF Points, Working
<1>2. task' = [task EXCEPT !.todo = todo, !.result = "ok", !.point = p]
  BY DEF Towards
<1> HIDE DEF p
<1>3. task' \in TaskRows /\ task'.result = "ok" /\ SameJob /\ task'.todo = todo /\ task'.point = p
  BY <1>1, <1>2 DEF TaskRows, SameJob, Results
<1>4. QED
  BY <1>3 DEF p

-------------------------------------------------------------------------------
(* What a step leaves to be shown *)

JournalKept ==
  /\ lifecycle' = lifecycle /\ revision' = revision
  /\ operation' \in [Operations -> Journal!OperationRows \cup {NoOperation}]
  /\ step' \in [Operations -> Seq(Journal!StepRows)]
  /\ \A o \in Operations :
       /\ Journal!Recorded(o)' <=> Journal!Recorded(o)
       /\ Journal!Unresolved(o)' <=> Journal!Unresolved(o)
       /\ Journal!Recorded(o) => operation'[o].kind = operation[o].kind

\* A step that leaves the ledger and the container alone and starts no CLI.
LEMMA Step ==
  ASSUME PInv, JournalKept, UNCHANGED <<ledgerVars, box>>, live' \subseteq live,
         phase' \in [Operations -> {"other", "restore", "reconcile", "ports"}],
         \A o \in Operations : ~Journal!Recorded(o) => phase'[o] = phase[o],
         task' \in TaskRows, TaskOK', GoalOK', InspectedOK',
         \A c \in live' : CliOK(c)'
  PROVE  PInv'
<1>1. LedgerTypeOK' /\ LedgerInv'
  BY LedgerTypeStep, LedgerInvStep DEF PInv
<1>2. TypesOK'
  BY DEF PInv, TypesOK, JournalKept
<1>3. OperationsOK'
  BY DEF PInv, OperationsOK, JournalKept, ledgerVars, Ready, Journal!Unresolved
<1>4. Quiet' <=> Quiet
  BY DEF JournalKept, Quiet
<1>5. BoxOK'
  BY <1>4 DEF PInv, BoxOK, IdleBoxIsApplied, Owns, Own, ledgerVars
<1>6. QED
  BY <1>1, <1>2, <1>3, <1>5 DEF PInv

\* Nothing is on its way while the task is at work.
LEMMA Alone ==
  ASSUME PInv, task.point \notin {"none", "waiting", "fail", "fallback"}, task.point = "finish" => task.result # "unknown"
  PROVE  live = {}
BY DEF PInv, CliOK

\* Nothing is written to the journal.
LEMMA NothingWritten ==
  ASSUME PInv, UNCHANGED journalVars
  PROVE  JournalKept /\ operation' = operation /\ step' = step
BY DEF PInv, TypesOK, JournalKept, journalVars, Journal!Recorded, Journal!Unresolved

InitializationKept == initialization' = initialization \/ initialization' # "not_attempted"
PhaseKept ==
  /\ phase' \in [Operations -> {"other", "restore", "reconcile", "ports"}]
  /\ \A o \in Operations : ~Journal!Recorded(o) => phase'[o] = phase[o]

LEMMA PhaseUnchanged == ASSUME PInv, phase' = phase PROVE PhaseKept
BY DEF PInv, TypesOK, PhaseKept

\* The task gives up, or ends, while nothing is on its way but what the
\* supervisor is blocked for.
Aside ==
  \/ /\ SameJob /\ task'.todo = task.todo
     /\ task'.point \in {"fail", "fallback"} /\ (task'.point = "fail" => task'.result # "ok")
  \/ task' = Idle

LEMMA GivesUp ==
  ASSUME PInv, JournalKept, PhaseKept, InitializationKept,
         UNCHANGED <<ledgerVars, box>>, live' \subseteq live,
         \A c \in live' :
           \/ step'[c.op] = step[c.op]
           \/ /\ step'[c.op] # <<>> /\ Len(step'[c.op]) = Len(step[c.op])
              /\ step'[c.op][Len(step[c.op])].outcome \in {Journal!Open, "unknown"},
         task.point # "none", task' \in TaskRows, Aside,
         live' # {} => (task.point # "waiting" /\ blocked' = blocked) \/ blocked' = TRUE
  PROVE  PInv'
<1>1. TaskOK'
  <2>1. CASE task' = Idle
    <3>1. InspectedLater(<<>>) /\ MarkedBefore(<<>>) /\ ~Has(<<>>, "create")
      BY DEF InspectedLater, MarkedBefore, Has
    <3>2. QED
      BY <2>1, <3>1, Dropped DEF TaskOK, Idle
  <2>2. CASE task' # Idle
    BY <2>2 DEF PInv, TaskOK, SameJob, JournalKept, InitializationKept, Aside
  <2>3. QED
    BY <2>1, <2>2
<1>2. task'.point \in {"none", "fail", "fallback"}
  BY Dropped DEF Aside
<1>3. GoalOK' /\ InspectedOK'
  BY <1>2 DEF GoalOK, InspectedOK, Working
<1>4. ASSUME NEW c \in live' PROVE CliOK(c)'
  <2>1. CliOK(c) /\ blocked' /\ c.op \in Operations
    BY <1>4 DEF PInv, CliOK, TypesOK, CliRows
  <2>2. Journal!Unresolved(c.op)'
    BY <2>1 DEF CliOK, JournalKept
  <2>3. /\ step'[c.op] # <<>> /\ c.at = Len(step'[c.op])
        /\ step'[c.op][c.at].outcome \in {Journal!Open, "unknown"}
    BY <1>4, <2>1 DEF CliOK
  <2>4. QED
    BY <1>2, <2>1, <2>2, <2>3 DEF CliOK, InitializationKept
<1>5. QED
  BY <1>1, <1>3, <1>4, Step DEF PhaseKept

\* The task moves on and nothing is on its way.
LEMMA MovesOn ==
  ASSUME PInv, JournalKept, PhaseKept, UNCHANGED <<ledgerVars, box>>, live' \subseteq live, live' = {},
         task' \in TaskRows, TaskOK', GoalOK', InspectedOK'
  PROVE  PInv'
BY Step DEF PhaseKept

LEMMA GoalKept ==
  ASSUME GoalOK, UNCHANGED <<ledgerVars, phase>>, SameJob, task.point \in (Working \cup {"begin"}) \ {"settle"}
  PROVE  GoalOK'
<1>1. Restoring' <=> Restoring
  BY DEF Restoring, SameJob
<1>2. Goal' = Goal
  BY <1>1 DEF Goal, Original, Candidate, ledgerVars
<1>3. QED
  BY <1>1, <1>2 DEF GoalOK, SameJob, Working

-------------------------------------------------------------------------------
(* The end of a stage *)

Looked == Stage = "inspect" /\ box # NoBox => box.rev = task.target

LEMMA Advances ==
  ASSUME PInv, JournalKept, PhaseKept, phase' = phase, InitializationKept,
         UNCHANGED <<ledgerVars, box>>, live' \subseteq live, live' = {},
         task.point \in {"work", "waiting", "finish"}, task.point = "finish" => task.result = "ok",
         Stage = "initialize" => initialization' # "not_attempted",
         task.point # "finish" => Looked,
         Continue
  PROVE  PInv'
<1> DEFINE rest == Tail(task.todo)
<1>1. /\ task \in TaskRows /\ task.todo \in Seq(StageNames) /\ task.todo # <<>>
      /\ task.op \in Operations /\ Journal!Unresolved(task.op)
  BY DEF PInv, TypesOK, TaskOK, TaskRows
<1>2. /\ rest \in Seq(StageNames) /\ InspectedLater(rest)
      /\ MarkedBefore(task.todo) /\ Stage # "initialize" => MarkedBefore(rest)
      /\ ~Has(task.todo, "create") => ~Has(rest, "create")
      /\ Has(task.todo, "inspect") /\ Stage # "inspect" => Has(rest, "inspect")
  BY <1>1, Tails DEF PInv, TaskOK, Stage
<1>3. /\ task' \in TaskRows /\ SameJob /\ task'.todo = rest
      /\ task'.point = IF rest = <<>> THEN "complete"
                       ELSE IF Recorded(task.flow, Head(rest)) THEN "record" ELSE "work"
  BY <1>1, <1>2, Sent DEF Continue
<1>4. task'.point \in {"complete", "record", "work"}
  BY <1>3
<1>5. TaskOK'
  <2>1. task'.op \in Operations /\ Journal!Unresolved(task.op)'
    BY <1>1, <1>3 DEF SameJob, JournalKept, Journal!Unresolved, Journal!Recorded
  <2>2. initialization' = "not_attempted" => MarkedBefore(task'.todo)
    BY <1>2, <1>3 DEF PInv, TaskOK, InitializationKept
  <2>3. task'.flow # "create" => ~Has(task'.todo, "create")
    BY <1>2, <1>3 DEF PInv, TaskOK, SameJob
  <2>4. task'.point \in {"record", "work"} => task'.todo # <<>>
    BY <1>3
  <2>5. task'.point = "work" => ~Recorded(task'.flow, Stage')
    BY <1>3 DEF Stage, SameJob
  <2>6. QED
    BY <1>2, <1>3, <1>4, <2>1, <2>2, <2>3, <2>4, <2>5 DEF TaskOK
<1>6. GoalOK'
  BY <1>3, GoalKept DEF PInv, Working
<1>7. InspectedOK'
  <2>1. SUFFICES ASSUME ~Has(rest, "inspect"), box # NoBox PROVE box.rev = task.target
    BY <1>3, <1>4 DEF InspectedOK, Left, SameJob
  <2>2. CASE task.point = "finish"
    BY <2>1, <2>2 DEF PInv, InspectedOK, Left, Working
  <2>3. CASE task.point # "finish"
    <3>1. Stage = "inspect" \/ ~Has(task.todo, "inspect")
      BY <1>2, <2>1
    <3>2. QED
      BY <2>1, <2>3, <3>1 DEF PInv, InspectedOK, Left, Working, Looked
  <2>4. QED
    BY <2>2, <2>3
<1>8. QED
  BY <1>3, <1>5, <1>6, <1>7, MovesOn

LEMMA Finishes ==
  ASSUME PInv, JournalKept, PhaseKept, phase' = phase, InitializationKept, step' = step,
         UNCHANGED <<ledgerVars, box>>, live' \subseteq live,
         task.point \in {"work", "waiting"}, Recorded(task.flow, Stage),
         NEW r \in Results, task' = [task EXCEPT !.point = "finish", !.result = r],
         live' # {} => blocked' = TRUE /\ r = "unknown",
         r = "ok" => Looked
  PROVE  PInv'
<1>1. /\ task \in TaskRows /\ task.todo \in Seq(StageNames) /\ task.todo # <<>>
      /\ task.op \in Operations /\ Journal!Unresolved(task.op)
  BY DEF PInv, TypesOK, TaskOK, TaskRows
<1>2. task' \in TaskRows /\ SameJob /\ task'.todo = task.todo /\ task'.point = "finish" /\ task'.result = r
  BY <1>1, Resulted DEF Points, Working
<1>3. TaskOK'
  <2>1. task'.op \in Operations /\ Journal!Unresolved(task.op)'
    BY <1>1, <1>2 DEF SameJob, JournalKept, Journal!Unresolved, Journal!Recorded
  <2>2. Recorded(task'.flow, Stage')
    BY <1>2 DEF Stage, SameJob
  <2>3. step'[task'.op] # <<>> /\ step'[task'.op][Len(step'[task'.op])].outcome = Journal!Open
    BY <1>2 DEF PInv, TaskOK, SameJob
  <2>4. QED
    BY <1>1, <1>2, <2>1, <2>2, <2>3 DEF PInv, TaskOK, SameJob, InitializationKept
<1>4. GoalOK'
  BY <1>2, GoalKept DEF PInv, Working
<1>5. InspectedOK'
  <2>1. SUFFICES ASSUME r = "ok", ~Has(Tail(task.todo), "inspect"), box # NoBox PROVE box.rev = task.target
    BY <1>2 DEF InspectedOK, Left, SameJob
  <2>2. Stage = "inspect" \/ ~Has(task.todo, "inspect")
    BY <1>1, <2>1, Tails DEF Stage
  <2>3. QED
    BY <2>1, <2>2 DEF PInv, InspectedOK, Left, Working, Looked
<1>6. ASSUME NEW c \in live' PROVE CliOK(c)'
  <2>1. CliOK(c) /\ c.op \in Operations /\ Journal!Unresolved(c.op)'
    BY <1>6 DEF PInv, TypesOK, CliRows, CliOK, JournalKept
  <2>2. QED
    BY <1>2, <1>6, <2>1 DEF CliOK, InitializationKept
<1>7. QED
  BY <1>2, <1>3, <1>4, <1>5, <1>6, Step DEF PhaseKept

LEMMA Erred ==
  ASSUME task \in TaskRows, (\E r \in Results \ {"ok"} : Err(r)) \/ StoreError \/ GoTo("fallback") \/ Drop
  PROVE  task' \in TaskRows /\ Aside
<1>1. ASSUME NEW r \in Results \ {"ok"}, Err(r) PROVE task' \in TaskRows /\ Aside
  BY <1>1, Resulted DEF Err, Points, Aside
<1>2. ASSUME GoTo("fallback") PROVE task' \in TaskRows /\ Aside
  BY <1>2, Placed DEF Points, Aside
<1>3. ASSUME Drop PROVE task' \in TaskRows /\ Aside
  BY <1>3, Dropped DEF Drop, Aside
<1>4. QED
  BY <1>1, <1>2, <1>3 DEF StoreError, Results

LEMMA Concludes ==
  ASSUME PInv, UNCHANGED <<journalVars, ledgerVars, phase, initialization, box>>, live' \subseteq live,
         task.point \in {"work", "waiting"}, Stage # "initialize",
         NEW r \in Results, Conclude(r),
         live' # {} => blocked' = TRUE /\ r = "unknown",
         r = "ok" => Looked
  PROVE  PInv'
<1>1. JournalKept /\ step' = step /\ PhaseKept /\ InitializationKept
  BY NothingWritten, PhaseUnchanged DEF InitializationKept
<1>2. CASE Recorded(task.flow, Stage) /\ (Stage = "storage" => r = "ok")
  BY <1>1, <1>2, Finishes DEF Conclude
<1>3. CASE ~(Recorded(task.flow, Stage) /\ (Stage = "storage" => r = "ok"))
  <2>1. CASE r = "ok"
    <3>1. Continue
      BY <1>3, <2>1 DEF Conclude
    <3>2. QED
      BY <1>1, <2>1, <3>1, Advances
  <2>2. CASE r # "ok"
    <3>1. Err(r)
      BY <1>3, <2>2 DEF Conclude
    <3>2. task' \in TaskRows /\ Aside
      BY <2>2, <3>1, Erred DEF PInv, TypesOK
    <3>3. QED
      BY <1>1, <3>2, GivesUp
  <2>3. QED
    BY <2>1, <2>2
<1>4. QED
  BY <1>2, <1>3

-------------------------------------------------------------------------------
(* The stages: what writes nothing to the journal *)

LEMMA AsideKeeps ==
  ASSUME PInv, UNCHANGED <<journalVars, ledgerVars, recordVars, dockerVars>>,
         task.point \notin {"none", "waiting"},
         (\E r \in Results \ {"ok"} : Err(r)) \/ StoreError \/ GoTo("fallback") \/ Drop
  PROVE  PInv'
<1>1. task' \in TaskRows /\ Aside
  BY Erred DEF PInv, TypesOK
<1>2. JournalKept /\ step' = step
  BY NothingWritten
<1>3. PhaseKept /\ InitializationKept /\ UNCHANGED <<box, live, blocked>>
  BY PhaseUnchanged DEF recordVars, dockerVars, InitializationKept
<1>4. QED
  BY <1>1, <1>2, <1>3, GivesUp

LEMMA FaultsKeep ==
  ASSUME PInv, CannotBegin \/ RecordFails \/ CompletionFails \/ Hold \/ SettleFails
  PROVE  PInv'
<1>1. UNCHANGED <<journalVars, ledgerVars, recordVars, dockerVars>>
  BY DEF CannotBegin, RecordFails, CompletionFails, Hold, SettleFails, Fault
<1>2. task.point \notin {"none", "waiting"}
  BY DEF CannotBegin, RecordFails, CompletionFails, Hold, SettleFails
<1>3. (\E r \in Results \ {"ok"} : Err(r)) \/ StoreError \/ GoTo("fallback") \/ Drop
  BY DEF CannotBegin, RecordFails, CompletionFails, Hold, SettleFails, Results
<1>4. QED
  BY <1>1, <1>2, <1>3, AsideKeeps

LEMMA LookKeeps ==
  ASSUME PInv, Look
  PROVE  PInv'
<1>1. /\ task.point = "work" /\ Stage # "initialize"
      /\ UNCHANGED <<journalVars, ledgerVars, phase, initialization, box, live>>
  BY DEF Look, dockerVars
<1>2. live = {}
  BY <1>1, Alone
<1>3. CASE Holds(Stage) /\ Conclude("ok")
  <2>1. Looked
    BY <1>3 DEF Looked, Holds, Seen
  <2>2. QED
    BY <1>1, <1>2, <1>3, <2>1, Concludes DEF Results
<1>4. ASSUME NEW r \in Failures(Stage), Conclude(r) PROVE PInv'
  <2>1. r \in Results /\ r # "ok"
    BY <1>4 DEF Failures, Results
  <2>2. QED
    BY <1>1, <1>2, <1>4, <2>1, Concludes
<1>5. QED
  BY <1>3, <1>4 DEF Look

LEMMA InitializeKeeps ==
  ASSUME PInv, Initialize
  PROVE  PInv'
<1>1. task.point = "work" /\ Stage = "initialize"
  BY DEF Initialize
<1>2. live = {}
  BY <1>1, Alone
<1>3. CASE Continue /\ initialization' = "may_have_initialized" /\
           UNCHANGED <<journalVars, ledgerVars, command, phase, storage, published, dockerVars, limits>>
  <2>1. JournalKept /\ PhaseKept
    BY <1>3, NothingWritten, PhaseUnchanged
  <2>2. UNCHANGED <<ledgerVars, box, live, phase>> /\ InitializationKept /\ initialization' # "not_attempted"
    BY <1>3 DEF dockerVars, InitializationKept
  <2>3. Looked
    BY <1>1 DEF Looked
  <2>4. QED
    BY <1>1, <1>2, <1>3, <2>1, <2>2, <2>3, Advances
<1>4. CASE Fault /\ StoreError
  BY <1>1, <1>4, AsideKeeps DEF Fault
<1>5. QED
  BY <1>3, <1>4 DEF Initialize

LEMMA RefuseSpawnKeeps ==
  ASSUME PInv, RefuseSpawn
  PROVE  PInv'
<1>1. /\ task.point = "work" /\ Spawns(Stage)
      /\ UNCHANGED <<journalVars, ledgerVars, phase, initialization, box, live>>
  BY DEF RefuseSpawn, recordVars, dockerVars
<1>2. live = {} /\ Stage # "initialize"
  BY <1>1, Alone DEF Spawns
<1>3. PICK r \in {"failed", "unknown"} : Conclude(r)
  BY DEF RefuseSpawn
<1>4. QED
  BY <1>1, <1>2, <1>3, Concludes DEF Results

\* A CLI of another name than the one waited for is none of the task's.
LEMMA CliEndsKeeps ==
  ASSUME PInv, CliEnds
  PROVE  PInv'
<1>1. /\ task.point = "waiting"
      /\ UNCHANGED <<journalVars, ledgerVars, phase, initialization, box>>
  BY DEF CliEnds, recordVars
<1>2. Spawns(Stage) /\ Stage # "initialize" /\ Stage # "inspect"
  BY <1>1 DEF PInv, TaskOK, Spawns
<1>3. PICK c \in live :
        \/ live' = live \ {c} /\ Conclude("ok")
        \/ live' = live \ {c} /\ Conclude("unknown")
        \/ live' = live /\ Conclude("unknown") /\ blocked' = TRUE
  BY DEF CliEnds
<1>4. live = {c}
  BY DEF PInv
<1>5. Looked
  BY <1>2 DEF Looked
<1>6. CASE live' = live \ {c} /\ Conclude("ok")
  BY <1>1, <1>2, <1>4, <1>5, <1>6, Concludes DEF Results
<1>7. CASE live' = live \ {c} /\ Conclude("unknown")
  BY <1>1, <1>2, <1>4, <1>7, Concludes DEF Results
<1>8. CASE live' = live /\ Conclude("unknown") /\ blocked' = TRUE
  BY <1>1, <1>2, <1>8, Concludes DEF Results
<1>9. QED
  BY <1>3, <1>6, <1>7, <1>8

\* The revisions a change may be about have their ports reserved.
LEMMA GoalsAreReserved ==
  ASSUME PInv, NEW o \in Operations, Journal!Unresolved(o)
  PROVE  /\ Candidate \in DOMAIN bindings /\ Owns(bindings[Candidate])
         /\ Original \in DOMAIN bindings /\ Owns(bindings[Original])
         /\ Goal \in {Candidate, Original}
<1>1. bindings # <<>> /\ (IF Ready(o) THEN applied = 0 ELSE change # NoChange)
  BY DEF PInv, OperationsOK, Journal!Unresolved
<1>2. Base \in DOMAIN bindings /\ Committed(bindings[Base])
  BY <1>1, BaseIsARevision DEF PInv, LedgerInv
<1>3. Owns(bindings[Base])
  BY <1>2 DEF Committed, Owns, Own
<1>4. change = NoChange => Base = 1
  BY <1>1 DEF Base
<1>5. change # NoChange => change.old = Base /\ change.new \in DOMAIN bindings /\ Owns(bindings[change.new])
  BY DEF PInv, LedgerInv, HeldForChange, Owns
<1>6. QED
  BY <1>2, <1>3, <1>4, <1>5 DEF Candidate, Original, Goal

LEMMA SpawnKeeps ==
  ASSUME PInv, Spawn
  PROVE  PInv'
<1> DEFINE new == [op |-> task.op, at |-> Len(step[task.op]), command |-> Stage, rev |-> task.target, state |-> "sent"]
<1>1. /\ task.point = "work" /\ Spawns(Stage) /\ live' = live \cup {new} /\ GoTo("waiting")
      /\ UNCHANGED <<journalVars, ledgerVars, phase, initialization, box, blocked>>
  BY DEF Spawn, recordVars
<1>2. live = {}
  BY <1>1, Alone
<1>3. /\ task \in TaskRows /\ task.todo \in Seq(StageNames) /\ task.todo # <<>> /\ task.op \in Operations
      /\ Journal!Unresolved(task.op) /\ task.target \in Nat
  BY <1>1 DEF PInv, TypesOK, TaskOK, TaskRows
<1>4. Recorded(task.flow, Stage)
  BY <1>1, <1>3, Tails DEF PInv, TaskOK, Spawns, Recorded, Stage
<1>5. /\ step[task.op] # <<>> /\ step[task.op][Len(step[task.op])].outcome = Journal!Open
      /\ Len(step[task.op]) \in Nat
  BY <1>1, <1>3, <1>4 DEF PInv, TaskOK, TypesOK
<1>6. JournalKept /\ operation' = operation /\ step' = step
  BY <1>1, NothingWritten
<1>7. task' \in TaskRows /\ task'.point = "waiting" /\ SameJob /\ task'.todo = task.todo
  BY <1>1, <1>3, Placed DEF Points, Working
<1>8. LedgerTypeOK' /\ LedgerInv'
  BY <1>1, LedgerTypeStep, LedgerInvStep DEF PInv
<1>9. PICK c : c = new
  OBVIOUS
<1>10. /\ live' = {c} /\ c.op = task.op /\ c.at = Len(step[task.op]) /\ c.command = Stage /\ c.rev = task.target
       /\ c = [op |-> task.op, at |-> Len(step[task.op]), command |-> Stage, rev |-> task.target, state |-> "sent"]
  BY <1>1, <1>2, <1>9
<1> HIDE DEF new
<1>11. TypesOK'
  <2>1. c \in CliRows
    BY <1>1, <1>3, <1>5, <1>10 DEF CliRows, Spawns
  <2>2. QED
    BY <1>1, <1>10, <1>6, <1>7, <2>1 DEF PInv, TypesOK, JournalKept
<1>12. OperationsOK'
  BY <1>1, <1>6 DEF PInv, OperationsOK, JournalKept, ledgerVars, Ready, Journal!Unresolved
<1>13. TaskOK'
  <2>1. Stage' = Stage /\ Journal!Unresolved(task.op)'
    BY <1>3, <1>6, <1>7 DEF Stage, SameJob, JournalKept, Journal!Unresolved, Journal!Recorded
  <2>2. QED
    BY <1>1, <1>3, <1>4, <1>5, <1>6, <1>7, <2>1 DEF PInv, TaskOK, SameJob
<1>14. GoalOK'
  BY <1>1, <1>7, GoalKept DEF PInv, Working
<1>15. InspectedOK'
  BY <1>1, <1>7 DEF PInv, InspectedOK, Left, SameJob, Working
<1>16. BoxOK'
  <2>1. task.target \in DOMAIN bindings /\ Owns(bindings[task.target])
    BY <1>1, <1>3, GoalsAreReserved DEF PInv, GoalOK, Working
  <2>2. Quiet' <=> Quiet
    BY <1>6 DEF JournalKept, Quiet
  <2>3. QED
    BY <1>1, <1>10, <2>1, <2>2 DEF PInv, BoxOK, IdleBoxIsApplied, Owns, Own, ledgerVars
<1>17. CliOK(c)'
  <2>1. Stage = "start" => initialization # "not_attempted"
    BY <1>3, Tails DEF PInv, TaskOK, Stage
  <2>2. Stage' = Stage /\ Journal!Unresolved(task.op)'
    BY <1>3, <1>6, <1>7 DEF Stage, SameJob, JournalKept, Journal!Unresolved, Journal!Recorded
  <2>3. QED
    BY <1>1, <1>3, <1>5, <1>6, <1>7, <1>10, <2>1, <2>2 DEF CliOK, SameJob, Journal!Unresolved, Journal!Recorded
<1>18. QED
  BY <1>10, <1>8, <1>11, <1>12, <1>13, <1>14, <1>15, <1>16, <1>17 DEF PInv

-------------------------------------------------------------------------------
(* What the journal's actions leave *)

LEMMA Row ==
  ASSUME TypesOK, NEW o \in Operations, Journal!Recorded(o)
  PROVE  operation[o] \in Journal!OperationRows
BY DEF TypesOK, Journal!Recorded

LEMMA RowWritten ==
  ASSUME TypesOK, NEW o \in Operations, NEW row \in Journal!OperationRows,
         operation' = [operation EXCEPT ![o] = row]
  PROVE  /\ operation' \in [Operations -> Journal!OperationRows \cup {NoOperation}]
         /\ operation'[o] = row /\ Journal!Recorded(o)'
         /\ Journal!Unresolved(o)' <=> row.status \notin Journal!Closed
         /\ \A p \in Operations \ {o} :
              /\ operation'[p] = operation[p]
              /\ Journal!Recorded(p)' <=> Journal!Recorded(p)
              /\ Journal!Unresolved(p)' <=> Journal!Unresolved(p)
<1>1. operation' \in [Operations -> Journal!OperationRows \cup {NoOperation}]
  BY DEF TypesOK
<1>2. operation'[o] = row /\ \A p \in Operations \ {o} : operation'[p] = operation[p]
  BY DEF TypesOK
<1>3. row # NoOperation
  BY ProvisioningAssumption
<1> HIDE DEF Journal!OperationRows
<1>4. QED
  BY <1>1, <1>2, <1>3 DEF Journal!Recorded, Journal!Unresolved, Journal!Closed

\* A status is one field of a row; so is an attempt, which comes with one.
LEMMA StatusRow ==
  ASSUME TypesOK, NEW o \in Operations, Journal!Recorded(o), NEW status \in Journal!Statuses,
         Journal!WriteStatus(o, status)
  PROVE  \E row \in Journal!OperationRows :
           /\ operation' = [operation EXCEPT ![o] = row]
           /\ row.status = status /\ row.kind = operation[o].kind
<1>1. PICK row \in Journal!OperationRows : operation[o] = row
  BY Row
<1>2. PICK new \in Journal!OperationRows : new = [row EXCEPT !.status = status]
  BY DEF Journal!OperationRows
<1>3. new.status = status /\ new.kind = row.kind
  BY <1>2 DEF Journal!OperationRows
<1>4. operation' = [operation EXCEPT ![o] = new]
  BY <1>1, <1>2 DEF TypesOK, Journal!WriteStatus
<1>5. QED
  BY <1>1, <1>3, <1>4

LEMMA AttemptRow ==
  ASSUME TypesOK, NEW o \in Operations, Journal!Retry(o)
  PROVE  \E row \in Journal!OperationRows :
           /\ operation' = [operation EXCEPT ![o] = row]
           /\ row.status = "Executing" /\ row.kind = operation[o].kind
<1>1. PICK row \in Journal!OperationRows : operation[o] = row
  BY Row DEF Journal!Retry, Journal!Is
<1>2. row.attempt + 1 \in Nat
  BY DEF Journal!OperationRows
<1>3. PICK new \in Journal!OperationRows : new = [row EXCEPT !.attempt = row.attempt + 1, !.status = "Executing"]
  BY <1>2 DEF Journal!OperationRows, Journal!Statuses
<1>4. new.status = "Executing" /\ new.kind = row.kind
  BY <1>3 DEF Journal!OperationRows
<1>5. operation' = [operation EXCEPT ![o] = new]
  BY <1>1, <1>3 DEF TypesOK, Journal!Retry
<1>6. QED
  BY <1>1, <1>4, <1>5

\* What stays unresolved is all the journal's writes tell the other steps.
LEMMA RowKept ==
  ASSUME PInv, NEW o \in Operations, Journal!Unresolved(o), UNCHANGED <<lifecycle, revision, step>>,
         NEW row \in Journal!OperationRows, operation' = [operation EXCEPT ![o] = row],
         row.status \notin Journal!Closed, row.kind = operation[o].kind
  PROVE  JournalKept
<1>1. TypesOK /\ Journal!Recorded(o)
  BY DEF PInv, Journal!Unresolved
<1>2. /\ operation' \in [Operations -> Journal!OperationRows \cup {NoOperation}]
      /\ operation'[o] = row /\ Journal!Recorded(o)' /\ Journal!Unresolved(o)'
      /\ \A p \in Operations \ {o} :
              /\ operation'[p] = operation[p]
              /\ Journal!Recorded(p)' <=> Journal!Recorded(p)
              /\ Journal!Unresolved(p)' <=> Journal!Unresolved(p)
  BY <1>1, RowWritten
<1>3. step' \in [Operations -> Seq(Journal!StepRows)]
  BY <1>1 DEF TypesOK
<1> HIDE DEF Journal!OperationRows, Journal!StepRows
<1>4. ASSUME NEW p \in Operations
      PROVE  /\ Journal!Recorded(p)' <=> Journal!Recorded(p)
             /\ Journal!Unresolved(p)' <=> Journal!Unresolved(p)
             /\ Journal!Recorded(p) => operation'[p].kind = operation[p].kind
  BY <1>1, <1>2
<1>5. QED
  BY <1>2, <1>3, <1>4 DEF JournalKept

LEMMA WriteKept ==
  ASSUME PInv, NEW o \in Operations, Journal!Unresolved(o), UNCHANGED <<lifecycle, revision, step>>,
         NEW status \in Journal!Statuses \ Journal!Closed, Journal!WriteStatus(o, status)
  PROVE  JournalKept
<1>1. TypesOK /\ Journal!Recorded(o)
  BY DEF PInv, Journal!Unresolved
<1>2. PICK row \in Journal!OperationRows :
        operation' = [operation EXCEPT ![o] = row] /\ row.status = status /\ row.kind = operation[o].kind
  BY <1>1, StatusRow
<1>3. QED
  BY <1>2, RowKept

LEMMA StatusKept ==
  ASSUME PInv, NEW o \in Operations, NEW status \in Journal!Statuses \ Journal!Closed, Journal!SetStatus(o, status)
  PROVE  JournalKept /\ step' = step
<1>1. Journal!Unresolved(o) /\ UNCHANGED <<lifecycle, revision, step>> /\ Journal!WriteStatus(o, status)
  BY DEF Journal!SetStatus, Journal!instanceVars
<1>2. QED
  BY <1>1, WriteKept

LEMMA RetryKept ==
  ASSUME PInv, NEW o \in Operations, Journal!Retry(o)
  PROVE  JournalKept /\ step' = step
<1>1. UNCHANGED <<lifecycle, revision, step>>
  BY DEF Journal!Retry, Journal!instanceVars
<1>2. Journal!Unresolved(o)
  BY DEF Journal!Retry, Journal!Is, Journal!Unresolved, Journal!Paused, Journal!Closed
<1>3. PICK row \in Journal!OperationRows :
        operation' = [operation EXCEPT ![o] = row] /\ row.status = "Executing" /\ row.kind = operation[o].kind
  BY AttemptRow DEF PInv
<1>4. QED
  BY <1>1, <1>2, <1>3, RowKept DEF Journal!Closed

LEMMA StartupKept ==
  ASSUME PInv, Journal!RecoverOnStartup
  PROVE  JournalKept /\ step' = step
<1>1. UNCHANGED <<lifecycle, revision, step>>
  BY DEF Journal!RecoverOnStartup, Journal!instanceVars
<1>2. ASSUME NEW p \in Operations
      PROVE  /\ operation'[p] \in Journal!OperationRows \cup {NoOperation}
             /\ Journal!Recorded(p)' <=> Journal!Recorded(p)
             /\ Journal!Unresolved(p)' <=> Journal!Unresolved(p)
             /\ Journal!Recorded(p) => operation'[p].kind = operation[p].kind
  <2>1. CASE Journal!Is(p, {"Executing"})
    <3>1. PICK row \in Journal!OperationRows : operation[p] = row
      BY <2>1, Row DEF PInv, Journal!Is
    <3>2. PICK new \in Journal!OperationRows : new = [row EXCEPT !.status = "OutcomeUnknown"]
      BY DEF Journal!OperationRows, Journal!Statuses, Journal!Paused
    <3>3. new.status = "OutcomeUnknown" /\ new.kind = row.kind
      BY <3>2 DEF Journal!OperationRows
    <3>4. operation'[p] = new
      BY <2>1, <3>1, <3>2 DEF Journal!RecoverOnStartup
    <3>5. new # NoOperation
      BY ProvisioningAssumption
    <3> HIDE DEF Journal!OperationRows
    <3>6. QED
      BY <2>1, <3>1, <3>3, <3>4, <3>5 DEF Journal!Recorded, Journal!Unresolved, Journal!Is, Journal!Closed
  <2>2. CASE ~Journal!Is(p, {"Executing"})
    <3>1. operation'[p] = operation[p]
      BY <2>2 DEF Journal!RecoverOnStartup
    <3>2. QED
      BY <3>1 DEF PInv, TypesOK, Journal!Recorded, Journal!Unresolved
  <2>3. QED
    BY <2>1, <2>2
<1>3. operation' = [o \in Operations |-> operation'[o]]
  BY DEF Journal!RecoverOnStartup
<1>4. step' \in [Operations -> Seq(Journal!StepRows)]
  BY <1>1 DEF PInv, TypesOK
<1> HIDE DEF Journal!OperationRows, Journal!StepRows
<1>5. QED
  BY <1>1, <1>2, <1>3, <1>4 DEF JournalKept

\* Steps are written beside the operations.
LEMMA StepsKept ==
  ASSUME PInv, UNCHANGED <<lifecycle, revision, operation>>, step' \in [Operations -> Seq(Journal!StepRows)]
  PROVE  JournalKept
BY DEF PInv, TypesOK, JournalKept, Journal!Recorded, Journal!Unresolved

LEMMA OutcomeWritten ==
  ASSUME PInv, NEW o \in Operations, NEW n \in DOMAIN step[o], NEW outcome \in Journal!Outcomes,
         UNCHANGED <<lifecycle, revision, operation>>, step' = [step EXCEPT ![o][n].outcome = outcome]
  PROVE  /\ JournalKept
         /\ Len(step'[o]) = Len(step[o]) /\ step'[o] # <<>>
         /\ step'[o][n].outcome = outcome
<1>1. TypesOK
  BY DEF PInv
<1>2. PICK rows \in Seq(Journal!StepRows) : step[o] = rows
  BY <1>1 DEF TypesOK
<1>3. PICK row \in Journal!StepRows : rows[n] = row
  BY <1>2
<1>4. PICK new \in Journal!StepRows : new = [row EXCEPT !.outcome = outcome] /\ new.outcome = outcome
  <2>1. /\ [row EXCEPT !.outcome = outcome] \in Journal!StepRows
        /\ [row EXCEPT !.outcome = outcome].outcome = outcome
    BY DEF Journal!StepRows
  <2>2. QED
    BY <2>1
<1>5. step' = [step EXCEPT ![o] = [rows EXCEPT ![n] = new]]
  BY <1>1, <1>2, <1>3, <1>4 DEF TypesOK
<1>6. /\ [rows EXCEPT ![n] = new] \in Seq(Journal!StepRows)
      /\ Len([rows EXCEPT ![n] = new]) = Len(rows)
      /\ [rows EXCEPT ![n] = new][n] = new
      /\ [rows EXCEPT ![n] = new] # <<>>
  BY <1>2, <1>4
<1>7. PICK list \in Seq(Journal!StepRows) : list = [rows EXCEPT ![n] = new]
  BY <1>6
<1> HIDE DEF Journal!StepRows
<1>8. step' \in [Operations -> Seq(Journal!StepRows)] /\ step'[o] = list
  BY <1>1, <1>5, <1>7 DEF TypesOK
<1>9. QED
  BY <1>2, <1>4, <1>6, <1>7, <1>8, StepsKept

LEMMA StepAppended ==
  ASSUME PInv, NEW o \in Operations, Journal!RecordStep(o, Len(step[o]) + 1, operation[o].attempt)
  PROVE  /\ JournalKept
         /\ step'[o] # <<>> /\ step'[o][Len(step'[o])].outcome = Journal!Open
<1>1. TypesOK /\ UNCHANGED <<lifecycle, revision, operation>> /\ Journal!Recorded(o)
  BY DEF PInv, Journal!RecordStep, Journal!instanceVars, Journal!Is
<1>2. PICK rows \in Seq(Journal!StepRows) : step[o] = rows
  BY <1>1 DEF TypesOK
<1>3. operation[o].attempt \in Nat
  BY <1>1, Row DEF Journal!OperationRows
<1>4. PICK new \in Journal!StepRows : new = [attempt |-> operation[o].attempt, outcome |-> Journal!Open]
  BY <1>3 DEF Journal!StepRows
<1>5. new.outcome = Journal!Open
  BY <1>4
<1>6. step' = [step EXCEPT ![o] = Append(rows, new)]
  BY <1>1, <1>2, <1>4 DEF TypesOK, Journal!RecordStep
<1> HIDE DEF Journal!StepRows
<1>7. PICK list : list = Append(rows, new)
  OBVIOUS
<1>8. list \in Seq(Journal!StepRows) /\ list # <<>> /\ list[Len(list)] = new
  BY <1>2, <1>4, <1>7
<1>9. step' \in [Operations -> Seq(Journal!StepRows)] /\ step'[o] = list
  BY <1>1, <1>6, <1>7, <1>8 DEF TypesOK
<1>10. QED
  BY <1>1, <1>5, <1>8, <1>9, StepsKept

-------------------------------------------------------------------------------
(* The stages: what is written to the journal *)

\* The work of a stage is taken up with its intent on record.
LEMMA Proceeds ==
  ASSUME PInv, JournalKept, UNCHANGED <<ledgerVars, phase, initialization, box, live>>,
         task.point \in {"record", "mark"}, NEW p \in {"mark", "work"}, GoTo(p),
         Recorded(task.flow, Stage) =>
           step'[task.op] # <<>> /\ step'[task.op][Len(step'[task.op])].outcome = Journal!Open
  PROVE  PInv'
<1>1. live' = {}
  BY Alone
<1>2. /\ task \in TaskRows /\ task.todo # <<>> /\ task.op \in Operations /\ Journal!Unresolved(task.op)
  BY DEF PInv, TypesOK, TaskOK
<1>3. task' \in TaskRows /\ task'.point = p /\ SameJob /\ task'.todo = task.todo
  BY <1>2, Placed DEF Points, Working
<1>4. Stage' = Stage /\ Journal!Unresolved(task.op)'
  BY <1>2, <1>3 DEF Stage, SameJob, JournalKept, Journal!Unresolved, Journal!Recorded
<1>5. TaskOK'
  BY <1>2, <1>3, <1>4 DEF PInv, TaskOK, SameJob
<1>6. GoalOK'
  BY <1>3, GoalKept DEF PInv, Working
<1>7. InspectedOK'
  BY <1>3 DEF PInv, InspectedOK, Left, SameJob, Working
<1>8. PhaseKept
  BY PhaseUnchanged
<1>9. QED
  BY <1>1, <1>3, <1>5, <1>6, <1>7, <1>8, MovesOn

LEMMA RecordIntentKeeps ==
  ASSUME PInv, RecordIntent
  PROVE  PInv'
<1>1. /\ task.point = "record" /\ UNCHANGED <<ledgerVars, phase, initialization, box, live>>
      /\ Journal!RecordStep(task.op, Len(step[task.op]) + 1, operation[task.op].attempt)
  BY DEF RecordIntent, dockerVars
<1>2. \E p \in {"mark", "work"} : GoTo(p)
  BY DEF RecordIntent
<1>3. task.op \in Operations
  BY <1>1 DEF PInv, TaskOK
<1>4. JournalKept /\ step'[task.op] # <<>> /\ step'[task.op][Len(step'[task.op])].outcome = Journal!Open
  BY <1>1, <1>3, StepAppended
<1>5. QED
  BY <1>1, <1>2, <1>4, Proceeds

LEMMA MarkExecutingKeeps ==
  ASSUME PInv, MarkExecuting
  PROVE  PInv'
<1>1. task.point = "mark"
  BY DEF MarkExecuting
<1>2. task.op \in Operations
  BY <1>1 DEF PInv, TaskOK
<1>3. CASE Journal!SetStatus(task.op, "Executing") /\ GoTo("work") /\ JournalOnly
  <2>1. JournalKept /\ step' = step
    BY <1>2, <1>3, StatusKept DEF Journal!Statuses, Journal!Closed
  <2>2. UNCHANGED <<ledgerVars, phase, initialization, box, live>>
    BY <1>3 DEF JournalOnly, recordVars, dockerVars
  <2>3. QED
    BY <1>1, <1>3, <2>1, <2>2, Proceeds DEF PInv, TaskOK
<1>4. CASE Fault /\ StoreError
  BY <1>1, <1>4, AsideKeeps DEF Fault
<1>5. QED
  BY <1>3, <1>4 DEF MarkExecuting

\* The whole list is ahead of a creation or an edit that begins.
LEMMA BeginWorkKeeps ==
  ASSUME PInv, BeginWork
  PROVE  PInv'
<1> DEFINE list == IF task.flow = "create" THEN CreateStages ELSE EditStages
<1>1. /\ task.point = "begin" /\ UNCHANGED <<ledgerVars, phase, initialization, box, live>>
      /\ Journal!SetStatus(task.op, "Executing") /\ task' = Towards(task, list)
  BY DEF BeginWork, JournalOnly, recordVars, dockerVars
<1>2. task \in TaskRows /\ task.op \in Operations /\ Journal!Unresolved(task.op)
  BY <1>1 DEF PInv, TypesOK, TaskOK
<1>3. JournalKept /\ PhaseKept /\ live' = {}
  BY <1>1, <1>2, StatusKept, PhaseUnchanged, Alone DEF Journal!Statuses, Journal!Closed
<1>4. /\ list \in Seq(StageNames) /\ InspectedLater(list) /\ MarkedBefore(list) /\ list # <<>>
      /\ Has(list, "inspect") /\ (task.flow # "create" => ~Has(list, "create"))
  BY Lists DEF Sound
<1> HIDE DEF list
<1>5. /\ task' \in TaskRows /\ SameJob /\ task'.todo = list
      /\ task'.point = IF Recorded(task.flow, Head(list)) THEN "record" ELSE "work"
  BY <1>1, <1>2, <1>4, Sent
<1>6. task'.point \in {"record", "work"}
  BY <1>5
<1>7. TaskOK'
  <2>1. Journal!Unresolved(task.op)'
    BY <1>2, <1>3, <1>5 DEF SameJob, JournalKept, Journal!Unresolved, Journal!Recorded
  <2>2. task'.point = "work" => ~Recorded(task'.flow, Stage')
    BY <1>5 DEF Stage, SameJob
  <2>3. QED
    BY <1>2, <1>4, <1>5, <1>6, <2>1, <2>2 DEF TaskOK, SameJob
<1>8. GoalOK'
  BY <1>1, <1>5, GoalKept DEF PInv
<1>9. InspectedOK'
  BY <1>4, <1>5, <1>6 DEF InspectedOK, Left
<1>10. QED
  BY <1>1, <1>3, <1>5, <1>7, <1>8, <1>9, MovesOn

\* What is in doubt in the journal stays so when a step is finished over a CLI.
LEMMA FinishKeeps ==
  ASSUME PInv, Finish
  PROVE  PInv'
<1> DEFINE n == Len(step[task.op])
           outcome == IF task.result = "ok" THEN "succeeded"
                      ELSE IF task.flow = "create" /\ task.result = "failed" THEN "failed" ELSE "unknown"
<1>1. task.point = "finish"
  BY DEF Finish
<1>2. /\ task \in TaskRows /\ task.result \in Results /\ task.op \in Operations /\ task.todo # <<>>
      /\ Recorded(task.flow, Stage)
  BY <1>1 DEF PInv, TypesOK, TaskOK, TaskRows
<1>3. outcome \in Journal!Outcomes /\ (task.result = "unknown" => outcome = "unknown")
  BY DEF Journal!Outcomes
<1>4. \/ /\ Journal!FinishStep(task.op, n, outcome) /\ JournalOnly
         /\ IF task.result = "ok" THEN Continue ELSE Err(task.result)
      \/ Fault /\ (IF Stage = "storage" THEN Err("unknown") ELSE StoreError)
  BY DEF Finish
<1> HIDE DEF outcome, n
<1>5. CASE /\ Journal!FinishStep(task.op, n, outcome) /\ JournalOnly
           /\ IF task.result = "ok" THEN Continue ELSE Err(task.result)
  <2>1. /\ UNCHANGED <<ledgerVars, phase, initialization, box, live, blocked>>
        /\ UNCHANGED <<lifecycle, revision, operation>> /\ n \in DOMAIN step[task.op]
        /\ step' = [step EXCEPT ![task.op][n].outcome = outcome]
    BY <1>5 DEF JournalOnly, recordVars, dockerVars, Journal!FinishStep, Journal!instanceVars
  <2>2. /\ JournalKept /\ step'[task.op] # <<>> /\ Len(step'[task.op]) = Len(step[task.op])
        /\ step'[task.op][n].outcome = outcome
    BY <1>2, <1>3, <2>1, OutcomeWritten
  <2>3. /\ JournalKept /\ step'[task.op] # <<>> /\ Len(step'[task.op]) = Len(step[task.op])
        /\ step'[task.op][Len(step[task.op])].outcome = outcome
    BY <2>2 DEF n
  <2>4. PhaseKept /\ InitializationKept
    BY <2>1, PhaseUnchanged DEF InitializationKept
  <2>5. CASE task.result = "ok"
    <3>1. live' = {} /\ Continue
      BY <1>1, <1>5, <2>1, <2>5, Alone
    <3>2. Stage # "initialize"
      BY <1>2 DEF Recorded
    <3>3. QED
      BY <1>1, <2>1, <2>3, <2>4, <2>5, <3>1, <3>2, Advances
  <2>6. CASE task.result # "ok"
    <3>1. Err(task.result)
      BY <1>5, <2>6
    <3>2. task' \in TaskRows /\ Aside
      BY <1>2, <2>6, <3>1, Erred
    <3>3. ASSUME NEW c \in live'
          PROVE  /\ step'[c.op] # <<>> /\ Len(step'[c.op]) = Len(step[c.op])
                 /\ step'[c.op][Len(step[c.op])].outcome \in {Journal!Open, "unknown"}
      <4>1. task.result = "unknown"
        BY <1>1, <2>1, <3>3, Alone
      <4>2. CliOK(c) /\ c.op \in Operations
        BY <2>1, <3>3 DEF PInv, TypesOK, CliRows
      <4>3. c.op = task.op
        BY <1>1, <1>2, <4>2 DEF PInv, OperationsOK, TaskOK, CliOK
      <4>4. QED
        BY <1>3, <2>3, <4>1, <4>3
    <3>4. QED
      BY <1>1, <2>1, <2>3, <2>4, <3>2, <3>3, GivesUp
  <2>7. QED
    BY <2>5, <2>6
<1>6. CASE Fault /\ (IF Stage = "storage" THEN Err("unknown") ELSE StoreError)
  BY <1>1, <1>6, AsideKeeps DEF Fault, Results
<1>7. QED
  BY <1>5, <1>6, <1>4

LEMMA FailKeeps ==
  ASSUME PInv, Fail
  PROVE  PInv'
<1>1. task.point = "fail"
  BY DEF Fail
<1>2. /\ task \in TaskRows /\ task.op \in Operations /\ task.result \in Results \ {"ok"}
  BY <1>1 DEF PInv, TypesOK, TaskOK, TaskRows
<1>3. CASE Journal!SetStatus(task.op, StatusOf(task.result)) /\ Drop /\ JournalOnly
  <2>1. StatusOf(task.result) \in Journal!Statuses \ Journal!Closed
    BY <1>2 DEF StatusOf, Results, Journal!Statuses, Journal!Paused, Journal!Closed
  <2>2. JournalKept /\ step' = step
    BY <1>2, <1>3, <2>1, StatusKept
  <2>3. UNCHANGED <<ledgerVars, phase, initialization, box, live, blocked>>
    BY <1>3 DEF JournalOnly, recordVars, dockerVars
  <2>4. PhaseKept /\ InitializationKept
    BY <2>3, PhaseUnchanged DEF InitializationKept
  <2>5. task' \in TaskRows /\ Aside
    BY <1>2, <1>3, Erred
  <2>6. QED
    BY <1>1, <2>2, <2>3, <2>4, <2>5, GivesUp
<1>4. CASE Fault /\ (IF task.flow = "edit" THEN GoTo("fallback") ELSE Drop)
  BY <1>1, <1>4, AsideKeeps DEF Fault
<1>5. QED
  BY <1>3, <1>4 DEF Fail

\* A status and a phase are written for a task that ends.
LEMMA PhaseWritten ==
  ASSUME PInv, task.point \notin {"none", "waiting"},
         NEW status \in Journal!Statuses \ Journal!Closed, Journal!SetStatus(task.op, status),
         NEW p \in {"other", "restore", "reconcile", "ports"}, SetPhase(task.op, p), Drop
  PROVE  PInv'
<1>1. task \in TaskRows /\ task.op \in Operations /\ Journal!Unresolved(task.op)
  BY DEF PInv, TypesOK, TaskOK
<1>2. JournalKept /\ step' = step
  BY <1>1, StatusKept
<1>3. UNCHANGED <<ledgerVars, initialization, box, live, blocked>> /\ InitializationKept
  BY DEF SetPhase, dockerVars, InitializationKept
<1>4. PhaseKept
  BY <1>1 DEF SetPhase, PhaseKept, PInv, TypesOK, Journal!Unresolved
<1>5. task' \in TaskRows /\ Aside
  BY <1>1, Erred
<1>6. QED
  BY <1>2, <1>3, <1>4, <1>5, GivesUp

LEMMA FallbackKeeps ==
  ASSUME PInv, Fallback
  PROVE  PInv'
<1>1. task.point = "fallback"
  BY DEF Fallback
<1>2. CASE Journal!SetStatus(task.op, "OutcomeUnknown") /\ SetPhase(task.op, "reconcile") /\ Drop
  BY <1>1, <1>2, PhaseWritten DEF Journal!Statuses, Journal!Paused, Journal!Closed
<1>3. CASE Fault /\ Drop
  BY <1>1, <1>3, AsideKeeps DEF Fault
<1>4. CASE Drop /\ UNCHANGED <<journalVars, ledgerVars, recordVars, dockerVars, limits>>
  BY <1>1, <1>4, AsideKeeps
<1>5. QED
  BY <1>2, <1>3, <1>4 DEF Fallback

LEMMA ReportConflictKeeps ==
  ASSUME PInv, ReportConflict
  PROVE  PInv'
BY PhaseWritten DEF ReportConflict, Journal!Statuses, Journal!Paused, Journal!Closed

\* A restart leaves the CLIs to their operation, which is now inherited.
LEMMA RestartKeeps ==
  ASSUME PInv, Restart
  PROVE  PInv'
<1>1. /\ UNCHANGED <<ledgerVars, phase, initialization, box, live>> /\ Journal!RecoverOnStartup
      /\ inherited' = {o \in Operations : Journal!Unresolved(o)} /\ task' = Idle
  BY DEF Restart, recordVars, Drop
<1>2. JournalKept /\ step' = step /\ PhaseKept
  BY <1>1, StartupKept, PhaseUnchanged
<1>3. task' \in TaskRows /\ TaskOK' /\ GoalOK' /\ InspectedOK'
  <2>1. InspectedLater(<<>>) /\ MarkedBefore(<<>>) /\ ~Has(<<>>, "create")
    BY DEF InspectedLater, MarkedBefore, Has
  <2>2. QED
    BY <1>1, <2>1, Dropped DEF TaskOK, Idle, GoalOK, InspectedOK, Working
<1>4. ASSUME NEW c \in live' PROVE CliOK(c)'
  <2>1. CliOK(c) /\ c.op \in Operations
    BY <1>1, <1>4 DEF PInv, TypesOK, CliRows
  <2>2. Journal!Unresolved(c.op) /\ Journal!Unresolved(c.op)'
    BY <1>2, <2>1 DEF CliOK, JournalKept
  <2>3. QED
    BY <1>1, <1>2, <2>1, <2>2, Dropped DEF CliOK
<1>5. QED
  BY <1>1, <1>2, <1>3, <1>4, Step DEF PhaseKept

-------------------------------------------------------------------------------
(* Docker, its users and the neighbours *)

\* A step of the daemon or of its users changes the container and what has
\* become of the CLI on its way.
LEMMA DockerKeeps ==
  ASSUME PInv, UNCHANGED <<journalVars, ledgerVars, recordVars, blocked, inherited, task>>,
         box' \in BoxRows \cup {NoBox}, BoxOK', InspectedOK',
         live' \subseteq CliRows, \A c, d \in live' : c = d,
         \A c \in live' : \E d \in live : c.op = d.op /\ c.at = d.at /\ c.command = d.command
  PROVE  PInv'
<1>1. JournalKept /\ operation' = operation /\ step' = step
  BY NothingWritten
<1>2. LedgerTypeOK' /\ LedgerInv'
  BY LedgerTypeStep, LedgerInvStep DEF PInv
<1>3. phase' = phase /\ initialization' = initialization
  BY DEF recordVars
<1>4. TypesOK'
  BY <1>1, <1>3 DEF PInv, TypesOK, JournalKept
<1>5. OperationsOK'
  BY <1>1, <1>3 DEF PInv, OperationsOK, JournalKept, ledgerVars, Ready, Journal!Unresolved
<1>6. TaskOK'
  BY <1>1, <1>3 DEF PInv, TaskOK, Stage, Journal!Unresolved, Journal!Recorded
<1>7. GoalOK'
  BY <1>3 DEF PInv, GoalOK, Goal, Restoring, Original, Candidate, ledgerVars
<1>8. ASSUME NEW c \in live' PROVE CliOK(c)'
  <2>1. PICK d \in live : c.op = d.op /\ c.at = d.at /\ c.command = d.command
    BY <1>8
  <2>2. CliOK(d)
    BY <2>1 DEF PInv
  <2>3. QED
    BY <1>1, <1>3, <2>1, <2>2 DEF CliOK, Stage, Journal!Unresolved, Journal!Recorded
<1>9. QED
  BY <1>2, <1>4, <1>5, <1>6, <1>7, <1>8 DEF PInv

\* A project's container that anybody makes is the applied revision's.
LEMMA AppliedIsOwned ==
  ASSUME PInv, applied # 0
  PROVE  applied \in DOMAIN bindings /\ Owns(bindings[applied])
<1>1. applied \in DOMAIN bindings /\ bindings # <<>>
  BY DEF PInv, LedgerTypeOK
<1>2. Committed(bindings[applied])
  BY <1>1 DEF PInv, LedgerInv, Base
<1>3. QED
  BY <1>1, <1>2 DEF Committed, Owns, Own

LEMMA OtherUserKeeps ==
  ASSUME PInv, OtherUser
  PROVE  PInv'
<1>1. UNCHANGED <<journalVars, ledgerVars, recordVars, live, blocked, inherited, task>>
  BY DEF OtherUser, limits
<1>2. Quiet' <=> Quiet
  BY <1>1, NothingWritten DEF JournalKept, Quiet
<1>3. \/ /\ box # NoBox
         /\ box' \in {NoBox, [box EXCEPT !.running = ~@]}
      \/ /\ box = NoBox /\ Quiet /\ applied # 0
         /\ box' = [Box(applied, TRUE) EXCEPT !.recorded = TRUE]
  BY DEF OtherUser
<1>4. /\ box' \in BoxRows \cup {NoBox}
      /\ box' # NoBox => IF box # NoBox THEN box'.rev = box.rev ELSE Quiet /\ applied # 0 /\ box'.rev = applied
  <2>1. CASE box # NoBox
    <3>1. PICK b \in BoxRows : b = box
      BY <2>1 DEF PInv, TypesOK
    <3>2. [b EXCEPT !.running = ~@] \in BoxRows /\ [b EXCEPT !.running = ~@].rev = b.rev
      BY DEF BoxRows
    <3>3. QED
      BY <1>3, <2>1, <3>1, <3>2
  <2>2. CASE box = NoBox
    <3>1. applied \in Nat
      BY DEF PInv, LedgerTypeOK
    <3>2. box' = [rev |-> applied, running |-> TRUE, recorded |-> TRUE] /\ Quiet /\ applied # 0
      BY <1>3, <2>2 DEF Box
    <3>3. QED
      BY <2>2, <3>1, <3>2 DEF BoxRows
  <2>3. QED
    BY <2>1, <2>2
<1>5. BoxOK'
  BY <1>1, <1>2, <1>4, AppliedIsOwned DEF PInv, BoxOK, IdleBoxIsApplied, ledgerVars, Owns, Own
<1>6. InspectedOK'
  <2>1. task.point \in Working => ~Quiet
    BY DEF PInv, TaskOK, Working, Quiet
  <2>2. QED
    BY <1>1, <1>4, <2>1 DEF PInv, InspectedOK, Left
<1>7. live' \subseteq CliRows /\ \A c, d \in live' : c = d
  BY <1>1 DEF PInv, TypesOK
<1>8. QED
  BY <1>1, <1>4, <1>5, <1>6, <1>7, DockerKeeps

\* What a change CLI makes is of the revision it was sent for, and who waits
\* for a new container has yet to inspect it.
LEMMA ServeKeeps ==
  ASSUME PInv, NEW c \in live, Serve(c)
  PROVE  PInv'
<1>1. UNCHANGED <<journalVars, ledgerVars, recordVars, blocked, inherited, task>>
  BY DEF Serve, limits
<1>2. c \in CliRows /\ CliOK(c) /\ live = {c}
  BY DEF PInv, TypesOK
<1>3. PICK new : new \in CliRows /\ live' = {new} /\ new.op = c.op /\ new.at = c.at /\ new.command = c.command
                 /\ new.rev = c.rev
  <2>1. PICK end \in {"done", "broken"} : live' = (live \ {c}) \cup {[c EXCEPT !.state = end]}
    BY DEF Serve
  <2>2. PICK new : new = [c EXCEPT !.state = end]
    OBVIOUS
  <2>3. new \in CliRows /\ new.op = c.op /\ new.at = c.at /\ new.command = c.command /\ new.rev = c.rev
    BY <1>2, <2>2 DEF CliRows
  <2>4. live' = {new}
    BY <1>2, <2>1, <2>2
  <2>5. QED
    BY <2>3, <2>4
<1>4. /\ box' \in BoxRows \cup {NoBox}
      /\ box' # NoBox => \/ box # NoBox /\ box'.rev = box.rev
                         \/ c.command \in {"create", "recreate"} /\ box'.rev = c.rev
  <2>1. \/ box' \in {box, NoBox}
        \/ c.command \in {"create", "recreate"} /\ box' = Box(c.rev, FALSE)
        \/ box # NoBox /\ box' = [box EXCEPT !.running = TRUE]
    BY <1>2 DEF Serve, CliRows
  <2>2. CASE box' \in {box, NoBox}
    BY <2>2 DEF PInv, TypesOK
  <2>3. CASE c.command \in {"create", "recreate"} /\ box' = Box(c.rev, FALSE)
    BY <1>2, <2>3 DEF Box, BoxRows, CliRows
  <2>4. CASE box # NoBox /\ box' = [box EXCEPT !.running = TRUE]
    BY <2>4 DEF PInv, TypesOK, BoxRows
  <2>5. QED
    BY <2>1, <2>2, <2>3, <2>4
<1>5. ~Quiet /\ ~Quiet'
  <2>1. Journal!Unresolved(c.op) /\ c.op \in Operations
    BY <1>2 DEF CliOK, CliRows
  <2>2. QED
    BY <1>1, <2>1, NothingWritten DEF Quiet, JournalKept
<1>6. BoxOK'
  BY <1>1, <1>2, <1>3, <1>4, <1>5 DEF PInv, BoxOK, IdleBoxIsApplied, ledgerVars, Owns, Own
<1>7. InspectedOK'
  <2>1. SUFFICES ASSUME task.point \in Working, task.point = "finish" => task.result = "ok",
                        ~Has(Left, "inspect"), box' # NoBox
                 PROVE  box'.rev = task.target
    BY <1>1 DEF InspectedOK, Left
  <2>2. task.point = "waiting" /\ c.command = Stage
    BY <1>2, <2>1 DEF CliOK, Working
  <2>3. c.command \notin {"create", "recreate"}
    <3>1. task.todo \in Seq(StageNames) /\ task.todo # <<>> /\ InspectedLater(task.todo)
      BY <2>2 DEF PInv, TypesOK, TaskRows, TaskOK
    <3>2. QED
      BY <2>1, <2>2, <3>1, Tails DEF Stage, Left
  <2>4. QED
    BY <1>4, <2>1, <2>3 DEF PInv, InspectedOK
<1>8. QED
  BY <1>1, <1>2, <1>3, <1>4, <1>6, <1>7, DockerKeeps

LEMMA VanishKeeps ==
  ASSUME PInv, NEW c \in live, Vanish(c)
  PROVE  PInv'
<1>1. UNCHANGED <<journalVars, ledgerVars, recordVars, box, blocked, inherited, task>> /\ live' = live \ {c}
  BY DEF Vanish, limits
<1>2. Quiet' <=> Quiet
  BY <1>1, NothingWritten DEF JournalKept, Quiet
<1>3. live' = {}
  BY <1>1 DEF PInv
<1>4. BoxOK'
  BY <1>1, <1>2, <1>3 DEF PInv, BoxOK, IdleBoxIsApplied, ledgerVars, Owns, Own
<1>5. InspectedOK'
  BY <1>1 DEF PInv, InspectedOK, Left
<1>6. box' \in BoxRows \cup {NoBox}
  BY <1>1 DEF PInv, TypesOK
<1>7. QED
  BY <1>1, <1>3, <1>4, <1>5, <1>6, DockerKeeps

\* What another instance takes or releases is none of this one's.
LEMMA NeighbourKeeps ==
  ASSUME PInv, NEW p \in Ports, Neighbour(p)
  PROVE  PInv'
<1>1. /\ UNCHANGED <<journalVars, recordVars, box, live, blocked, inherited, task>>
      /\ OtherInstance(p) /\ UNCHANGED <<bindings, applied, change>>
  BY DEF Neighbour, OtherInstance, dockerVars, limits
<1>2. LedgerTypeOK' /\ LedgerInv'
  BY <1>1, LedgerTypeStep, LedgerInvStep DEF PInv, LedgerNext
<1>3. \A q \in Ports : Own(q) => Own(q)'
  BY <1>1 DEF PInv, LedgerTypeOK, OtherInstance, Own
<1>4. JournalKept /\ operation' = operation /\ step' = step
  BY <1>1, NothingWritten
<1>5. phase' = phase /\ initialization' = initialization
  BY <1>1 DEF recordVars
<1>6. TypesOK'
  BY <1>1, <1>4, <1>5 DEF PInv, TypesOK, JournalKept
<1>7. OperationsOK'
  BY <1>1, <1>4, <1>5 DEF PInv, OperationsOK, JournalKept, Ready, Journal!Unresolved
<1>8. TaskOK'
  BY <1>1, <1>4, <1>5 DEF PInv, TaskOK, Stage, Journal!Unresolved, Journal!Recorded
<1>9. GoalOK' /\ InspectedOK'
  BY <1>1, <1>5 DEF PInv, GoalOK, Goal, Restoring, Original, Candidate, InspectedOK, Left
<1>10. BoxOK'
  <2>1. \A r \in DOMAIN bindings : Owns(bindings[r]) => Owns(bindings[r])'
    <3>1. \A r \in DOMAIN bindings, s \in Slots : bindings[r][s] \in Ports
      BY DEF PInv, LedgerTypeOK, Bindings
    <3>2. QED
      BY <1>1, <1>3, <3>1 DEF Owns
  <2>2. Quiet' <=> Quiet
    BY <1>4 DEF JournalKept, Quiet
  <2>3. QED
    BY <1>1, <2>1, <2>2 DEF PInv, BoxOK, IdleBoxIsApplied
<1>11. \A c \in live' : CliOK(c)'
  BY <1>1, <1>4, <1>5 DEF PInv, CliOK, Stage, Journal!Unresolved, Journal!Recorded
<1>12. QED
  BY <1>1, <1>2, <1>6, <1>7, <1>8, <1>9, <1>10, <1>11 DEF PInv

LEMMA StutterKeeps ==
  ASSUME PInv, UNCHANGED vars
  PROVE  PInv'
<1>1. UNCHANGED <<journalVars, ledgerVars, recordVars, box, live, blocked, inherited, task>>
  BY DEF vars, dockerVars, limits
<1>2. Quiet' <=> Quiet
  BY <1>1, NothingWritten DEF JournalKept, Quiet
<1>3. BoxOK' /\ InspectedOK' /\ box' \in BoxRows \cup {NoBox} /\ live' \subseteq CliRows /\ \A c, d \in live' : c = d
  BY <1>1, <1>2 DEF PInv, TypesOK, BoxOK, IdleBoxIsApplied, ledgerVars, Owns, Own, InspectedOK, Left
<1>4. QED
  BY <1>1, <1>3, DockerKeeps

-------------------------------------------------------------------------------
(* Recovery *)

\* Evidence is complete only when no CLI is on its way: one that outlives its
\* task blocks the supervisor or leaves a step in doubt to another process.
LEMMA VerifiedAlone ==
  ASSUME PInv, task = Idle, NEW o \in Operations, Verified(o)
  PROVE  live = {} /\ Journal!Unresolved(o)
<1>1. /\ Journal!Unresolved(o) /\ ~blocked
      /\ o \in inherited => ~Journal!HasStep(o, {Journal!Open, "unknown"})
  BY DEF Verified, Journal!Is, Journal!Unresolved, Journal!Paused, Journal!Closed, Permits, Settled
<1>2. ASSUME NEW c \in live PROVE FALSE
  <2>1. CliOK(c) /\ c.op \in Operations
    BY DEF PInv, TypesOK, CliRows
  <2>2. c.op = o
    BY <1>1, <2>1 DEF PInv, OperationsOK, CliOK
  <2>3. o \in inherited
    BY <1>1, <2>1, <2>2, Dropped DEF CliOK
  <2>4. step[o] \in Seq(Journal!StepRows) /\ step[o] # <<>>
    BY <2>1, <2>2 DEF PInv, TypesOK, CliOK
  <2>5. Len(step[o]) \in DOMAIN step[o]
    BY <2>4
  <2>6. step[o][Len(step[o])].outcome \in {Journal!Open, "unknown"}
    BY <2>1, <2>2 DEF CliOK
  <2>7. QED
    BY <1>1, <2>3, <2>5, <2>6 DEF Journal!HasStep
<1>3. QED
  BY <1>1, <1>2

LEMMA RecoverKeeps ==
  ASSUME PInv, NEW o \in Operations, NEW a \in Offers, Recover(o, a)
  PROVE  PInv'
<1>1. /\ task = Idle /\ a \in Offered(o)
      /\ UNCHANGED <<journalVars, ledgerVars, recordVars, box, live, blocked, inherited>>
      /\ task' = [Idle EXCEPT !.op = o, !.flow = "recover", !.action = a, !.point = "look"]
  BY DEF Recover, dockerVars, limits
<1>2. Verified(o)
  BY <1>1 DEF Offered
<1>3. live' = {} /\ Journal!Unresolved(o)
  BY <1>1, <1>2, VerifiedAlone
<1>4. JournalKept /\ PhaseKept /\ initialization' = initialization
  BY <1>1, NothingWritten, PhaseUnchanged DEF recordVars
<1>5. /\ task' \in TaskRows /\ task'.op = o /\ task'.point = "look" /\ task'.todo = <<>> /\ task'.flow = "recover"
  BY <1>1, Dropped DEF TaskRows, Points, Working, Idle
<1>6. TaskOK'
  <2>1. InspectedLater(<<>>) /\ MarkedBefore(<<>>) /\ ~Has(<<>>, "create")
    BY DEF InspectedLater, MarkedBefore, Has
  <2>2. Journal!Unresolved(o)'
    BY <1>3, <1>4 DEF JournalKept
  <2>3. QED
    BY <1>5, <2>1, <2>2 DEF TaskOK, Journal!Unresolved, Journal!Recorded
<1>7. GoalOK' /\ InspectedOK'
  BY <1>5 DEF GoalOK, InspectedOK, Working
<1>8. QED
  BY <1>1, <1>3, <1>4, <1>5, <1>6, <1>7, MovesOn

\* An attempt that is taken up is after the intended revision, with the
\* container inspected on the way unless it is there.
LEMMA Attempts ==
  ASSUME PInv, JournalKept, PhaseKept, UNCHANGED <<ledgerVars, phase, initialization, box, live>>,
         task.point = "look", NEW pending \in BOOLEAN, NEW todo, Sound(todo),
         ~Has(todo, "inspect") => AtGoal,
         Attempt(Goal, pending, todo)
  PROVE  PInv'
<1>1. live' = {} /\ task \in TaskRows /\ task.op \in Operations /\ Journal!Unresolved(task.op)
  BY Alone DEF PInv, TypesOK, TaskOK
<1>2. Goal \in Nat
  BY <1>1, GoalsAreReserved DEF PInv, LedgerTypeOK
<1>3. (IF box = NoBox THEN 0 ELSE box.rev) \in Nat
  BY DEF PInv, TypesOK, BoxRows
<1>4. /\ task' \in TaskRows /\ task'.op = task.op /\ task'.action = task.action /\ task'.point = "settle"
      /\ task'.target = Goal /\ task'.todo = todo
  BY <1>1, <1>2, <1>3 DEF Attempt, TaskRows, Points, Working, Sound
<1>5. TaskOK'
  <2>1. Journal!Unresolved(task.op)'
    BY <1>1, <1>4 DEF JournalKept, Journal!Unresolved, Journal!Recorded
  <2>2. QED
    BY <1>1, <1>4, <2>1 DEF TaskOK, Sound
<1>6. GoalOK'
  BY <1>4 DEF GoalOK, Goal, Restoring, Original, Candidate, ledgerVars
<1>7. InspectedOK'
  BY <1>4 DEF InspectedOK, Left, AtGoal, Seen
<1>8. QED
  BY <1>1, <1>4, <1>5, <1>6, <1>7, MovesOn

LEMMA TryAgainKeeps ==
  ASSUME PInv, TryAgain
  PROVE  PInv'
<1> DEFINE todo == IF AtGoal THEN <<"observe">> ELSE RecoveryStages(Restoring, Ready(task.op))
<1>1. /\ task.point = "look" /\ Attempt(Goal, change # NoChange, todo) /\ UNCHANGED journalVars
      /\ UNCHANGED <<ledgerVars, phase, initialization, box, live>>
  BY DEF TryAgain, recordVars, dockerVars
<1>2. JournalKept /\ PhaseKept
  BY <1>1, NothingWritten, PhaseUnchanged
<1>3. Restoring \in BOOLEAN /\ Ready(task.op) \in BOOLEAN
  BY DEF Restoring, Ready
<1>4. Sound(todo) /\ (~Has(todo, "inspect") => AtGoal)
  BY <1>3, Lists, RecoveryIsSound
<1> HIDE DEF todo
<1>5. (change # NoChange) \in BOOLEAN
  OBVIOUS
<1>6. QED
  BY <1>1, <1>2, <1>4, <1>5, Attempts

LEMMA SettleStepKeeps ==
  ASSUME PInv, SettleStep
  PROVE  PInv'
<1>1. /\ task.point = "settle" /\ UNCHANGED <<task, ledgerVars, phase, initialization, box, live>>
      /\ Journal!ReconcileStep(task.op, Len(step[task.op]), "unknown")
  BY DEF SettleStep, JournalOnly, recordVars, dockerVars
<1>2. live' = {} /\ task \in TaskRows /\ task.op \in Operations /\ Journal!Unresolved(task.op)
  BY <1>1, Alone DEF PInv, TypesOK, TaskOK
<1>3. JournalKept /\ PhaseKept
  <2>1. UNCHANGED <<lifecycle, revision, operation>>
    BY <1>1 DEF Journal!ReconcileStep, Journal!instanceVars
  <2>2. Len(step[task.op]) \in DOMAIN step[task.op]
    BY <1>1 DEF Journal!ReconcileStep
  <2>3. step' = [step EXCEPT ![task.op][Len(step[task.op])].outcome = "unknown"]
    BY <1>1 DEF Journal!ReconcileStep
  <2>4. QED
    BY <1>1, <1>2, <2>1, <2>2, <2>3, OutcomeWritten, PhaseUnchanged DEF Journal!Outcomes
<1>4. TaskOK'
  <2>1. Journal!Unresolved(task.op)'
    BY <1>1, <1>2, <1>3 DEF JournalKept, Journal!Unresolved, Journal!Recorded
  <2>2. QED
    BY <1>1, <2>1 DEF PInv, TaskOK
<1>5. GoalOK' /\ InspectedOK'
  BY <1>1 DEF PInv, GoalOK, Goal, Restoring, Original, Candidate, ledgerVars, InspectedOK, Left
<1>6. QED
  BY <1>1, <1>2, <1>3, <1>4, <1>5, MovesOn

\* The phase says from now on what the attempt is after.
LEMMA NextAttemptKeeps ==
  ASSUME PInv, NextAttempt
  PROVE  PInv'
<1> DEFINE p == IF Restoring THEN "restore"
                ELSE IF task.todo = <<"observe">> /\ ~task.pending THEN "reconcile" ELSE "ports"
<1>1. /\ task.point = "settle" /\ Journal!Retry(task.op) /\ task' = Towards(task, task.todo)
      /\ phase' = [phase EXCEPT ![task.op] = p] /\ UNCHANGED <<ledgerVars, initialization, box, live>>
  BY DEF NextAttempt, SetPhase, dockerVars
<1>2. /\ live' = {} /\ task \in TaskRows /\ task.op \in Operations /\ Journal!Unresolved(task.op)
      /\ task.todo \in Seq(StageNames)
  BY <1>1, Alone DEF PInv, TypesOK, TaskOK, TaskRows
<1>3. JournalKept
  BY <1>1, <1>2, RetryKept
<1>4. PhaseKept /\ phase'[task.op] = p
  BY <1>1, <1>2 DEF PhaseKept, PInv, TypesOK, Journal!Unresolved
<1>5. /\ task' \in TaskRows /\ SameJob /\ task'.todo = task.todo
      /\ task'.point = IF task.todo = <<>> THEN "complete"
                       ELSE IF Recorded(task.flow, Stage) THEN "record" ELSE "work"
  BY <1>1, <1>2, Sent DEF Stage
<1>6. task'.point \in {"complete", "record", "work"}
  BY <1>5
<1>7. TaskOK'
  <2>1. Journal!Unresolved(task.op)'
    BY <1>2, <1>3, <1>5 DEF SameJob, JournalKept, Journal!Unresolved, Journal!Recorded
  <2>2. task'.point = "work" => ~Recorded(task'.flow, Stage')
    BY <1>5 DEF Stage, SameJob
  <2>3. (task'.point \in {"record", "work"} => task'.todo # <<>>) /\ (task'.point = "complete" => task'.todo = <<>>)
    BY <1>5
  <2>4. QED
    BY <1>1, <1>2, <1>5, <1>6, <2>1, <2>2, <2>3 DEF PInv, TaskOK, SameJob
<1>8. GoalOK'
  <2>1. p = "restore" <=> Restoring
    OBVIOUS
  <2>2. Restoring' <=> Restoring
    BY <1>4, <1>5, <2>1 DEF Restoring, SameJob
  <2>3. Goal' = Goal
    BY <1>1, <2>2 DEF Goal, Original, Candidate, ledgerVars
  <2>4. QED
    BY <1>1, <1>4, <1>5, <2>1, <2>2, <2>3 DEF PInv, GoalOK, SameJob, Working
<1>9. InspectedOK'
  BY <1>1, <1>5, <1>6 DEF PInv, InspectedOK, Left, SameJob, Working
<1>10. QED
  BY <1>1, <1>2, <1>3, <1>4, <1>5, <1>7, <1>8, <1>9, MovesOn

-------------------------------------------------------------------------------
(* The ledger moves on with the task *)

\* A further revision takes nothing from the earlier ones.
LEMMA RevisionAdded ==
  ASSUME LedgerTypeOK, LedgerInv, NEW b \in Bindings, BeginPortEdit(b) \/ ConfirmPortRecovery(b)
  PROVE  /\ LedgerTypeOK' /\ LedgerInv'
         /\ applied' = applied /\ bindings' # <<>>
         /\ \A r \in DOMAIN bindings : r \in DOMAIN bindings' /\ (Owns(bindings[r]) => Owns(bindings[r])')
         /\ change' # NoChange /\ change'.new = Len(bindings) + 1 /\ Candidate' = Len(bindings) + 1
<1>1. LedgerTypeOK' /\ LedgerInv'
  BY LedgerTypeStep, LedgerInvStep DEF LedgerNext
<1>2. applied' = applied /\ bindings' = Append(bindings, b)
  BY DEF BeginPortEdit, ConfirmPortRecovery
<1>3. \A r \in DOMAIN bindings : r \in DOMAIN bindings' /\ bindings'[r] = bindings[r] /\ bindings[r] \in Bindings
  BY <1>2 DEF LedgerTypeOK
<1>4. bindings' # <<>>
  BY <1>2 DEF LedgerTypeOK
<1>5. \A p \in Ports : Own(p) => Own(p)'
  BY DEF BeginPortEdit, ConfirmPortRecovery, Own
<1>6. \A r \in DOMAIN bindings : Owns(bindings[r]) => Owns(bindings[r])'
  BY <1>3, <1>5 DEF Owns, Bindings
<1>7. change' # NoChange
  <2>1. CASE BeginPortEdit(b)
    <3>1. PortsOf(b) \ PortsOf(bindings[applied]) \subseteq Ports
      BY BindingsAreInjective
    <3>2. change' \in [old : Nat, new : Nat, listed : SUBSET Ports]
      BY <2>1, <3>1 DEF BeginPortEdit, LedgerTypeOK
    <3>3. QED
      BY <3>2, LedgerAssumption
  <2>2. QED
    BY <2>1, ConfirmLeavesChange
<1>8. change'.new = Len(bindings) + 1
  BY DEF BeginPortEdit, ConfirmPortRecovery
<1>9. QED
  BY <1>1, <1>2, <1>3, <1>4, <1>6, <1>7, <1>8 DEF Candidate

LEMMA ConfirmPortsKeeps ==
  ASSUME PInv, NEW b \in Bindings, ConfirmPorts(b)
  PROVE  PInv'
<1> DEFINE todo == RecoveryStages(FALSE, Ready(task.op))
           seen == IF box = NoBox THEN 0 ELSE box.rev
<1>1. /\ task.point = "look" /\ task.action = "confirm" /\ ConfirmPortRecovery(b)
      /\ Journal!WriteStatus(task.op, "AwaitingDecision") /\ phase' = [phase EXCEPT ![task.op] = "other"]
      /\ UNCHANGED <<lifecycle, revision, step, initialization, box, live>>
      /\ task' = [task EXCEPT !.point = "settle", !.target = Len(bindings) + 1, !.pending = TRUE,
                              !.todo = todo, !.seen = seen]
  BY DEF ConfirmPorts, Attempt, dockerVars
<1>2. live = {} /\ task \in TaskRows /\ task.op \in Operations /\ Journal!Unresolved(task.op)
  BY <1>1, Alone DEF PInv, TypesOK, TaskOK
<1>3. JournalKept
  BY <1>1, <1>2, WriteKept DEF Journal!Statuses, Journal!Paused, Journal!Closed
<1>4. /\ LedgerTypeOK' /\ LedgerInv' /\ applied' = applied /\ bindings' # <<>>
      /\ \A r \in DOMAIN bindings : r \in DOMAIN bindings' /\ (Owns(bindings[r]) => Owns(bindings[r])')
      /\ change' # NoChange /\ Candidate' = Len(bindings) + 1
  BY <1>1, RevisionAdded DEF PInv
<1>5. Sound(todo) /\ Has(todo, "inspect")
  BY RecoveryIsSound DEF Ready
<1>6. seen \in Nat /\ Len(bindings) + 1 \in Nat
  BY DEF PInv, TypesOK, BoxRows, LedgerTypeOK
<1> HIDE DEF todo, seen
<1>7. /\ task' \in TaskRows /\ task'.op = task.op /\ task'.action = "confirm" /\ task'.point = "settle"
      /\ task'.target = Len(bindings) + 1 /\ task'.todo = todo
  BY <1>1, <1>2, <1>5, <1>6 DEF TaskRows, Points, Working, Sound
<1>8. TypesOK'
  BY <1>1, <1>2, <1>3, <1>7 DEF PInv, TypesOK, JournalKept
<1>9. OperationsOK'
  BY <1>1, <1>2, <1>3, <1>4 DEF PInv, OperationsOK, JournalKept, Ready, Journal!Unresolved
<1>10. TaskOK'
  <2>1. Journal!Unresolved(task.op)'
    BY <1>2, <1>3, <1>7 DEF JournalKept, Journal!Unresolved, Journal!Recorded
  <2>2. QED
    BY <1>2, <1>5, <1>7, <2>1 DEF TaskOK, Sound
<1>11. GoalOK'
  BY <1>4, <1>7 DEF GoalOK, Goal, Restoring
<1>12. InspectedOK'
  BY <1>5, <1>7 DEF InspectedOK, Left
<1>13. BoxOK'
  <2>1. Quiet' <=> Quiet
    BY <1>3 DEF JournalKept, Quiet
  <2>2. QED
    BY <1>1, <1>2, <1>4, <2>1 DEF PInv, BoxOK, IdleBoxIsApplied
<1>14. QED
  BY <1>1, <1>2, <1>4, <1>8, <1>9, <1>10, <1>11, <1>12, <1>13 DEF PInv

\* An acceptance starts from a quiet instance.
LEMMA Begins ==
  ASSUME PInv, task = Idle, NEW o \in Operations, ~Journal!Recorded(o), Quiet, live' = live,
         NEW row \in Journal!OperationRows, operation' = [operation EXCEPT ![o] = row],
         row.status = "Accepted", row.kind = "create" => applied' = 0, row.kind # "create" => change' # NoChange,
         UNCHANGED <<step, phase, initialization, box>>,
         lifecycle' \in [{Subject} -> {"unregistered", "managed"}], lifecycle'[Subject] = "managed",
         revision' \in [{Subject} -> Nat],
         LedgerTypeOK', LedgerInv', bindings' # <<>>,
         box # NoBox => box.rev \in DOMAIN bindings' /\ Owns(bindings[box.rev])',
         NEW flow \in {"create", "edit"}, NEW target \in Nat, target = Candidate', Begin(o, flow, target)
  PROVE  PInv'
<1>1. /\ operation' \in [Operations -> Journal!OperationRows \cup {NoOperation}]
      /\ operation'[o] = row /\ Journal!Recorded(o)'
      /\ Journal!Unresolved(o)' <=> row.status \notin Journal!Closed
      /\ \A p \in Operations \ {o} :
              /\ operation'[p] = operation[p]
              /\ Journal!Recorded(p)' <=> Journal!Recorded(p)
              /\ Journal!Unresolved(p)' <=> Journal!Unresolved(p)
  BY RowWritten DEF PInv
<1>2. Journal!Unresolved(o)' /\ \A p \in Operations \ {o} : ~Journal!Unresolved(p)'
  BY <1>1 DEF Quiet, Journal!Closed
<1>3. live = {}
  <2>1. \A c \in live : c.op \in Operations /\ Journal!Unresolved(c.op)
    BY DEF PInv, TypesOK, CliRows, CliOK
  <2>2. QED
    BY <2>1 DEF Quiet
<1>4. /\ task' \in TaskRows /\ task'.op = o /\ task'.point = "begin" /\ task'.target = target /\ task'.todo = <<>>
      /\ task'.action = "none"
  BY Dropped DEF Begin, TaskRows, Points, Idle
<1>5. phase'[o] = "other"
  BY DEF PInv, OperationsOK
<1>6. TypesOK'
  BY <1>1, <1>3, <1>4 DEF PInv, TypesOK
<1>7. OperationsOK'
  <2>1. \A p, q \in Operations : Journal!Unresolved(p)' /\ Journal!Unresolved(q)' => p = q
    BY <1>2
  <2>2. \A p \in Operations :
          /\ Journal!Recorded(p)' => lifecycle'[Subject] = "managed" /\ bindings' # <<>>
          /\ ~Journal!Recorded(p)' => phase'[p] = "other"
    BY <1>1 DEF PInv, OperationsOK
  <2>3. \A p \in Operations : Journal!Unresolved(p)' => IF Ready(p)' THEN applied' = 0 ELSE change' # NoChange
    BY <1>1, <1>2 DEF Ready
  <2>4. QED
    BY <2>1, <2>2, <2>3 DEF OperationsOK
<1>8. TaskOK'
  <2>1. InspectedLater(<<>>) /\ MarkedBefore(<<>>) /\ ~Has(<<>>, "create")
    BY DEF InspectedLater, MarkedBefore, Has
  <2>2. QED
    BY <1>2, <1>4, <2>1 DEF TaskOK, Journal!Unresolved, Journal!Recorded
<1>9. GoalOK' /\ InspectedOK'
  BY <1>4, <1>5 DEF GoalOK, Goal, Restoring, InspectedOK, Working
<1>10. BoxOK'
  BY <1>2, <1>3 DEF BoxOK, IdleBoxIsApplied, Quiet
<1>11. QED
  BY <1>3, <1>6, <1>7, <1>8, <1>9, <1>10 DEF PInv

LEMMA AcceptCreateKeeps ==
  ASSUME PInv, NEW o \in Operations, NEW b \in Bindings, AcceptCreate(o, b)
  PROVE  PInv'
<1>1. /\ task = Idle /\ Journal!CommitPlan(o, o, Subject, NoPlan, NoSource, 0) /\ CommitBindings(b)
      /\ Begin(o, "create", 1) /\ UNCHANGED <<phase, initialization, box, live>>
  BY DEF AcceptCreate, recordVars, dockerVars
<1>2. /\ lifecycle[Subject] = "unregistered" /\ ~Journal!Recorded(o) /\ step' = step
      /\ lifecycle' = [lifecycle EXCEPT ![Subject] = "managed"]
      /\ revision' = [revision EXCEPT ![Subject] = 1]
      /\ operation' = [operation EXCEPT ![o] = Journal!NewOperation(Subject, "create", 1)]
  BY <1>1 DEF Journal!CommitPlan
<1>3. PICK row \in Journal!OperationRows :
        row = Journal!NewOperation(Subject, "create", 1) /\ row.status = "Accepted" /\ row.kind = "create"
  <2>1. "create" \in Journal!Kinds /\ "Accepted" \in Journal!Statuses
    BY DEF Journal!Kinds, Journal!CreationKinds, Journal!Statuses
  <2>2. PICK new : new = Journal!NewOperation(Subject, "create", 1)
    OBVIOUS
  <2>3. new \in Journal!OperationRows /\ new.status = "Accepted" /\ new.kind = "create"
    BY <2>1, <2>2 DEF Journal!NewOperation, Journal!OperationRows
  <2>4. QED
    BY <2>2, <2>3
<1>4. Quiet
  BY <1>2 DEF PInv, OperationsOK, Quiet, Journal!Unresolved
<1>5. LedgerTypeOK' /\ LedgerInv'
  BY <1>1, LedgerTypeStep, LedgerInvStep DEF PInv, LedgerNext
<1>6. bindings = <<>> /\ bindings' = <<b>> /\ applied' = applied /\ change' = change
  BY <1>1 DEF CommitBindings
<1>7. applied' = 0 /\ change' = NoChange /\ bindings' # <<>> /\ Candidate' = 1
  BY <1>6 DEF PInv, LedgerTypeOK, LedgerInv, Candidate
<1>8. box = NoBox
  BY <1>6 DEF PInv, BoxOK
<1>9. /\ lifecycle' \in [{Subject} -> {"unregistered", "managed"}] /\ lifecycle'[Subject] = "managed"
      /\ revision' \in [{Subject} -> Nat]
  BY <1>2 DEF PInv, TypesOK
<1>10. operation' = [operation EXCEPT ![o] = row]
  BY <1>2, <1>3
<1> HIDE DEF Journal!OperationRows
<1>11. QED
  BY <1>1, <1>2, <1>3, <1>4, <1>5, <1>7, <1>8, <1>9, <1>10, Begins

LEMMA AcceptEditKeeps ==
  ASSUME PInv, NEW o \in Operations, NEW b \in Bindings, AcceptEdit(o, b)
  PROVE  PInv'
<1>1. /\ task = Idle /\ Journal!Accept(o, o, Subject, "edit_port", revision[Subject]) /\ BeginPortEdit(b)
      /\ Begin(o, "edit", Len(bindings) + 1) /\ UNCHANGED <<phase, initialization, box, live>>
  BY DEF AcceptEdit, recordVars, dockerVars
<1>2. /\ lifecycle[Subject] = "managed" /\ ~Journal!Recorded(o) /\ step' = step /\ ~Journal!Busy(Subject)
      /\ operation' = [operation EXCEPT ![o] = Journal!NewOperation(Subject, "edit_port", revision[Subject])]
  BY <1>1 DEF Journal!Accept
<1>3. /\ lifecycle' \in [{Subject} -> {"unregistered", "managed"}] /\ lifecycle'[Subject] = "managed"
      /\ revision' \in [{Subject} -> Nat] /\ revision[Subject] \in Nat
  BY <1>1, <1>2 DEF PInv, TypesOK, Journal!Accept
<1>4. PICK row \in Journal!OperationRows :
        row = Journal!NewOperation(Subject, "edit_port", revision[Subject])
          /\ row.status = "Accepted" /\ row.kind = "edit_port"
  <2>1. "edit_port" \in Journal!Kinds /\ "Accepted" \in Journal!Statuses
    BY DEF Journal!Kinds, Journal!Statuses
  <2>2. PICK new : new = Journal!NewOperation(Subject, "edit_port", revision[Subject])
    OBVIOUS
  <2>3. new \in Journal!OperationRows /\ new.status = "Accepted" /\ new.kind = "edit_port"
    BY <1>3, <2>1, <2>2 DEF Journal!NewOperation, Journal!OperationRows
  <2>4. QED
    BY <2>2, <2>3
<1>5. Quiet
  <2>1. ASSUME NEW p \in Operations, Journal!Unresolved(p) PROVE FALSE
    <3>1. PICK rowp \in Journal!OperationRows : rowp = operation[p]
      BY <2>1, Row DEF PInv, Journal!Unresolved
    <3>2. operation[p].instance = Subject
      BY <3>1 DEF Journal!OperationRows
    <3>3. QED
      BY <1>2, <2>1, <3>2 DEF Journal!Busy
  <2>2. QED
    BY <2>1 DEF Quiet
<1>6. /\ LedgerTypeOK' /\ LedgerInv' /\ applied' = applied /\ bindings' # <<>>
      /\ \A r \in DOMAIN bindings : r \in DOMAIN bindings' /\ (Owns(bindings[r]) => Owns(bindings[r])')
      /\ change' # NoChange /\ Candidate' = Len(bindings) + 1
  BY <1>1, RevisionAdded DEF PInv
<1>7. box # NoBox => box.rev \in DOMAIN bindings' /\ Owns(bindings[box.rev])'
  BY <1>1, <1>6 DEF PInv, BoxOK
<1>8. Len(bindings) + 1 \in Nat
  BY DEF PInv, LedgerTypeOK
<1>9. operation' = [operation EXCEPT ![o] = row]
  BY <1>2, <1>4
<1> HIDE DEF Journal!OperationRows
<1>10. QED
  BY <1>1, <1>2, <1>3, <1>4, <1>5, <1>6, <1>7, <1>8, <1>9, Begins

\* An operation is closed over the applied revision's container, with nothing
\* on its way.
LEMMA Closes ==
  ASSUME PInv, NEW o \in Operations, Journal!Unresolved(o), UNCHANGED <<lifecycle, step, phase, bindings, live>>,
         revision' \in [{Subject} -> Nat], NEW status \in Journal!Closed, Journal!WriteStatus(o, status),
         LedgerTypeOK', LedgerInv', live = {}, task' = Idle, box' \in BoxRows \cup {NoBox},
         box' # NoBox => box'.rev = applied' /\ applied' # 0
  PROVE  PInv'
<1>1. PICK row \in Journal!OperationRows : operation' = [operation EXCEPT ![o] = row] /\ row.status = status
  BY StatusRow DEF PInv, Journal!Unresolved, Journal!Statuses
<1>2. /\ operation' \in [Operations -> Journal!OperationRows \cup {NoOperation}]
      /\ operation'[o] = row /\ Journal!Recorded(o)'
      /\ Journal!Unresolved(o)' <=> row.status \notin Journal!Closed
      /\ \A p \in Operations \ {o} :
              /\ operation'[p] = operation[p]
              /\ Journal!Recorded(p)' <=> Journal!Recorded(p)
              /\ Journal!Unresolved(p)' <=> Journal!Unresolved(p)
  BY <1>1, RowWritten DEF PInv
<1>3. \A p \in Operations : ~Journal!Unresolved(p)'
  BY <1>1, <1>2 DEF PInv, OperationsOK
<1>4. task' \in TaskRows /\ TaskOK' /\ GoalOK' /\ InspectedOK'
  <2>1. InspectedLater(<<>>) /\ MarkedBefore(<<>>) /\ ~Has(<<>>, "create")
    BY DEF InspectedLater, MarkedBefore, Has
  <2>2. QED
    BY <2>1, Dropped DEF TaskOK, Idle, GoalOK, InspectedOK, Working
<1>5. TypesOK'
  BY <1>2, <1>4 DEF PInv, TypesOK
<1>6. OperationsOK'
  BY <1>2, <1>3 DEF PInv, OperationsOK, Journal!Unresolved
<1>7. BoxOK'
  <2>1. ASSUME box' # NoBox PROVE box'.rev \in DOMAIN bindings' /\ Owns(bindings[box.rev])'
    <3>1. applied' \in DOMAIN bindings' /\ bindings' # <<>>
      BY <2>1 DEF LedgerTypeOK
    <3>2. Committed(bindings[applied])'
      BY <2>1, <3>1 DEF LedgerInv, Base
    <3>3. QED
      BY <2>1, <3>1, <3>2 DEF Committed, Owns, Own
  <2>2. QED
    BY <2>1 DEF BoxOK, IdleBoxIsApplied
<1>8. QED
  BY <1>4, <1>5, <1>6, <1>7 DEF PInv

LEMMA AbandonKeeps ==
  ASSUME PInv, NEW o \in Operations, Abandon(o)
  PROVE  PInv'
<1>1. /\ task = Idle /\ "abandon" \in Offered(o) /\ Journal!Abandon(o, operation[o].attempt) /\ GiveUpChange
      /\ UNCHANGED <<phase, box, live, task>>
  BY DEF Abandon, recordVars, dockerVars
<1>2. Verified(o) /\ box = NoBox
  BY <1>1 DEF Offered
<1>3. live = {} /\ Journal!Unresolved(o)
  BY <1>1, <1>2, VerifiedAlone
<1>4. LedgerTypeOK' /\ LedgerInv' /\ bindings' = bindings
  BY <1>1, LedgerTypeStep, LedgerInvStep DEF PInv, LedgerNext, GiveUpChange
<1>5. Journal!WriteStatus(o, "Abandoned") /\ UNCHANGED <<lifecycle, revision, step>>
  BY <1>1 DEF Journal!Abandon, Journal!instanceVars
<1>6. revision' \in [{Subject} -> Nat]
  BY <1>5 DEF PInv, TypesOK
<1>7. QED
  BY <1>1, <1>2, <1>3, <1>4, <1>5, <1>6, Closes DEF Journal!Closed

\* A completion is over the revision the attempt was after, which the
\* container has been inspected for.
LEMMA CompleteKeeps ==
  ASSUME PInv, Complete
  PROVE  PInv'
<1>1. /\ task.point = "complete" /\ UNCHANGED <<phase, live>> /\ task' = Idle /\ RecordContainer
      /\ CompleteChange(task.op) \/ CompleteReady(task.op)
  BY DEF Complete, Completed, Drop
<1>2. task.op \in Operations /\ Journal!Unresolved(task.op) /\ live = {} /\ task.todo = <<>>
  BY <1>1, Alone DEF PInv, TaskOK
<1>3. box # NoBox => box.rev = task.target
  <2>1. ~Has(task.todo, "inspect")
    BY <1>2 DEF Has
  <2>2. QED
    BY <1>1, <2>1 DEF PInv, InspectedOK, Left, Working
<1>4. task.target = Goal /\ (phase[task.op] = "restore" <=> Restoring)
  BY <1>1 DEF PInv, GoalOK, Working
<1>5. /\ box' \in BoxRows \cup {NoBox}
      /\ box' # NoBox => box # NoBox /\ box'.rev = box.rev
  BY <1>1 DEF RecordContainer, PInv, TypesOK, BoxRows
<1>6. CASE CompleteChange(task.op)
  <2> DEFINE target == IF phase[task.op] = "restore" THEN change.old ELSE change.new
  <2>1. /\ FinishChange(target) /\ revision' = [revision EXCEPT ![Subject] = @ + 1]
        /\ UNCHANGED <<lifecycle, step>>
        /\ \E status \in Journal!Closed : Journal!WriteStatus(task.op, status)
    BY <1>6 DEF CompleteChange, Journal!Closed
  <2>2. applied' = target /\ bindings' = bindings /\ change # NoChange
    BY <2>1 DEF FinishChange
  <2>3. target = task.target
    BY <1>4, <2>2 DEF Goal, Candidate, Original
  <2>4. target \in DOMAIN bindings
    BY <1>2, <1>4, <2>3, GoalsAreReserved
  <2>5. target # 0
    BY <2>4 DEF PInv, LedgerTypeOK
  <2>6. LedgerTypeOK' /\ LedgerInv'
    BY <2>1, <2>4, LedgerTypeStep, LedgerInvStep DEF PInv, LedgerNext
  <2>7. revision' \in [{Subject} -> Nat]
    BY <2>1 DEF PInv, TypesOK
  <2> HIDE DEF target
  <2>8. box' # NoBox => box'.rev = applied' /\ applied' # 0
    BY <1>3, <1>5, <2>2, <2>3, <2>5
  <2>9. QED
    BY <1>1, <1>2, <1>5, <2>1, <2>2, <2>6, <2>7, <2>8, Closes
<1>7. CASE CompleteReady(task.op)
  <2>1. /\ ApplyFirst /\ UNCHANGED <<lifecycle, revision, step>>
        /\ Journal!WriteStatus(task.op, "Succeeded") /\ "Succeeded" \in Journal!Closed
    BY <1>7 DEF CompleteReady, Journal!Closed
  <2>2. applied' = 1 /\ bindings' = bindings /\ change = NoChange
    BY <2>1 DEF ApplyFirst
  <2>3. task.target = 1
    BY <1>4, <2>2 DEF Goal, Candidate, Original
  <2>4. LedgerTypeOK' /\ LedgerInv'
    BY <2>1, LedgerTypeStep, LedgerInvStep DEF PInv, LedgerNext
  <2>5. revision' \in [{Subject} -> Nat]
    BY <2>1 DEF PInv, TypesOK
  <2>6. box' # NoBox => box'.rev = applied' /\ applied' # 0
    BY <1>3, <1>5, <2>2, <2>3
  <2>7. QED
    BY <1>1, <1>2, <1>5, <2>1, <2>2, <2>4, <2>5, <2>6, Closes
<1>8. QED
  BY <1>1, <1>6, <1>7

-------------------------------------------------------------------------------
(* The invariant *)

LEMMA Initially == Init => PInv
<1> SUFFICES ASSUME Init PROVE PInv
  OBVIOUS
<1>1. LedgerTypeOK /\ LedgerInv
  BY InitLedger
<1>2. /\ task = Idle /\ live = {} /\ operation = [o \in Operations |-> NoOperation]
      /\ step = [o \in Operations |-> <<>>] /\ phase = [o \in Operations |-> "other"]
  BY DEF Init
<1>3. \A o \in Operations : ~Journal!Recorded(o) /\ ~Journal!Unresolved(o)
  BY <1>2 DEF Journal!Recorded, Journal!Unresolved
<1>4. /\ lifecycle \in [{Subject} -> {"unregistered", "managed"}] /\ revision \in [{Subject} -> Nat]
      /\ box \in BoxRows \cup {NoBox}
      /\ box # NoBox => box.rev = 1 /\ applied = 1
  <2>1. CASE /\ lifecycle = [i \in {Subject} |-> "unregistered"] /\ revision = [i \in {Subject} |-> 0] /\ box = NoBox
    BY <2>1
  <2>2. CASE /\ lifecycle = [i \in {Subject} |-> "managed"] /\ revision = [i \in {Subject} |-> 1] /\ applied = 1
             /\ box \in {NoBox} \cup [rev : {1}, running : BOOLEAN, recorded : {TRUE}]
    <3>1. ASSUME NEW b \in [rev : {1}, running : BOOLEAN, recorded : {TRUE}] PROVE b \in BoxRows /\ b.rev = 1
      <4>1. b.rev \in {1} /\ b.running \in BOOLEAN /\ b.recorded \in {TRUE}
        OBVIOUS
      <4>2. b = [rev |-> b.rev, running |-> b.running, recorded |-> b.recorded]
        OBVIOUS
      <4>3. b.recorded \in BOOLEAN
        BY <4>1, Zenon
      <4>4. b.rev \in Nat /\ b.running \in BOOLEAN /\ b.recorded \in BOOLEAN
        BY <4>1, <4>3
      <4>5. [rev |-> b.rev, running |-> b.running, recorded |-> b.recorded] \in BoxRows
        BY <4>4 DEF BoxRows
      <4>6. QED
        BY <4>1, <4>2, <4>5
    <3>2. box \in BoxRows \cup {NoBox} /\ (box # NoBox => box.rev = 1)
      BY <2>2, <3>1
    <3>3. QED
      BY <2>2, <3>2
  <2>3. QED
    BY <2>1, <2>2 DEF Init
<1>5. step \in [Operations -> Seq(Journal!StepRows)]
  BY <1>2
<1> HIDE DEF Journal!OperationRows, Journal!StepRows
<1>6. TypesOK
  BY <1>2, <1>4, <1>5, Dropped DEF TypesOK
<1>7. OperationsOK
  BY <1>2, <1>3 DEF OperationsOK
<1>8. TaskOK /\ GoalOK /\ InspectedOK
  <2>1. InspectedLater(<<>>) /\ MarkedBefore(<<>>) /\ ~Has(<<>>, "create")
    BY DEF InspectedLater, MarkedBefore, Has
  <2>2. QED
    BY <1>2, <2>1, Dropped DEF TaskOK, Idle, GoalOK, InspectedOK, Working
<1>9. BoxOK
  <2>1. ASSUME box # NoBox PROVE 1 \in DOMAIN bindings /\ Owns(bindings[1])
    <3>1. 1 \in DOMAIN bindings /\ bindings # <<>>
      BY <1>1, <1>4, <2>1 DEF LedgerTypeOK
    <3>2. Committed(bindings[1])
      BY <1>1, <1>4, <2>1, <3>1 DEF LedgerInv, Base
    <3>3. QED
      BY <3>1, <3>2 DEF Committed, Owns, Own
  <2>2. QED
    BY <1>2, <1>4, <2>1 DEF BoxOK, IdleBoxIsApplied
<1>10. QED
  BY <1>1, <1>2, <1>6, <1>7, <1>8, <1>9 DEF PInv

LEMMA StagesKeep ==
  ASSUME PInv, Stages
  PROVE  PInv'
<1>1. CASE CannotBegin \/ RecordFails \/ CompletionFails
  BY <1>1, FaultsKeep
<1>2. CASE BeginWork \/ RecordIntent \/ MarkExecuting
  BY <1>2, BeginWorkKeeps, RecordIntentKeeps, MarkExecutingKeeps
<1>3. CASE Look \/ Initialize \/ Spawn \/ RefuseSpawn \/ CliEnds
  BY <1>3, LookKeeps, InitializeKeeps, SpawnKeeps, RefuseSpawnKeeps, CliEndsKeeps
<1>4. CASE Finish \/ Fail \/ Fallback \/ Complete
  BY <1>4, FinishKeeps, FailKeeps, FallbackKeeps, CompleteKeeps
<1>5. QED
  BY <1>1, <1>2, <1>3, <1>4 DEF Stages

LEMMA RecoveringKeeps ==
  ASSUME PInv, Recovering
  PROVE  PInv'
<1>1. CASE Hold \/ SettleFails
  BY <1>1, FaultsKeep
<1>2. CASE ReportConflict \/ TryAgain \/ SettleStep \/ NextAttempt
  BY <1>2, ReportConflictKeeps, TryAgainKeeps, SettleStepKeeps, NextAttemptKeeps
<1>3. ASSUME NEW b \in Bindings, ConfirmPorts(b) PROVE PInv'
  BY <1>3, ConfirmPortsKeeps
<1>4. QED
  BY <1>1, <1>2, <1>3 DEF Recovering

LEMMA Inductive ==
  ASSUME PInv, [Next]_vars
  PROVE  PInv'
<1>1. ASSUME NEW o \in Operations, Requested(o) PROVE PInv'
  <2>1. ASSUME NEW b \in Bindings, AcceptCreate(o, b) \/ AcceptEdit(o, b) PROVE PInv'
    BY <2>1, AcceptCreateKeeps, AcceptEditKeeps
  <2>2. ASSUME NEW a \in Offers, Recover(o, a) PROVE PInv'
    BY <2>2, RecoverKeeps
  <2>3. ASSUME Abandon(o) PROVE PInv'
    BY <2>3, AbandonKeeps
  <2>4. QED
    BY <1>1, <2>1, <2>2, <2>3 DEF Requested
<1>2. CASE Stages
  BY <1>2, StagesKeep
<1>3. CASE Recovering
  BY <1>3, RecoveringKeeps
<1>4. CASE Restart
  BY <1>4, RestartKeeps
<1>5. ASSUME NEW c \in live, Serve(c) \/ Vanish(c) PROVE PInv'
  BY <1>5, ServeKeeps, VanishKeeps
<1>6. CASE OtherUser
  BY <1>6, OtherUserKeeps
<1>7. ASSUME NEW p \in Ports, Neighbour(p) PROVE PInv'
  BY <1>7, NeighbourKeeps
<1>8. CASE UNCHANGED vars
  BY <1>8, StutterKeeps
<1>9. QED
  BY <1>1, <1>2, <1>3, <1>4, <1>5, <1>6, <1>7, <1>8 DEF Next

\* The ledger, the journal, the task, the change CLIs and the container agree
\* through creations, edits and recoveries, cut short, retried and overtaken.
THEOREM Invariance == Spec => []PInv
BY Initially, Inductive, PTL DEF Spec

\* Whatever the container is made of, through restarts, deadlines and CLIs
\* that end late, its ports are reserved for the instance, and an operation is
\* closed only over the applied revision's container or none.
THEOREM BoxAccounted == Spec => []BoxIsAccountedFor
<1>1. PInv => BoxIsAccountedFor
  BY DEF PInv, BoxOK, BoxIsAccountedFor, BoxPortsAreReserved
<1>2. QED
  BY <1>1, Invariance, PTL

\* No start is sent before the record that it may initialize storage, by any
\* list of stages a creation or a recovery runs.
THEOREM StartRecorded == Spec => []StartIsRecorded
<1>1. PInv => StartIsRecorded
  BY DEF PInv, CliOK, StartIsRecorded
<1>2. QED
  BY <1>1, Invariance, PTL

\* No change CLI is spawned while another may still act: not by a recovery of
\* what a dead process left, nor by one after a lost end.
THEOREM OneChange == Spec => []OneChangeCli
<1>1. ASSUME PInv PROVE OneChangeCli
  <2>1. \A c, d \in live : c = d
    BY <1>1 DEF PInv
  <2>2. CASE live = {}
    BY <2>2, FS_EmptySet DEF OneChangeCli
  <2>3. CASE live # {}
    <3>1. PICK c : live = {c}
      BY <2>1, <2>3
    <3>2. Cardinality(live) = 1
      BY <3>1, FS_Singleton
    <3>3. QED
      BY <3>2 DEF OneChangeCli
  <2>4. QED
    BY <2>2, <2>3
<1>2. QED
  BY <1>1, Invariance, PTL
===============================================================================
