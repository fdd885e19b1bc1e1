------------------------------- MODULE PortLedger -------------------------------
(***************************************************************************)
(* The host ports of one managed instance: the tables instance_specs,      *)
(* port_bindings, port_reservations, pending_changes and                   *)
(* pending_change_reservations as commit_plan, port_edit_state.rs and      *)
(* complete_ready write them.  Every action is one SQLite transaction.     *)
(* Revisions are the rows of instance_specs, numbered from 1; a port       *)
(* stands for a (host address, host port) pair of the instance's scope.    *)
(* The row of an operation that is closed is never read again, so change   *)
(* is the row of the unresolved one.  Request ids, receipts, journal steps *)
(* and artifacts are guards of the composing module (Provisioning).        *)
(***************************************************************************)
EXTENDS Integers, Sequences

CONSTANTS
  Slots,       \* the ports a template declares
  Ports,       \* the host ports of the scope
  NoChange,    \* no unresolved operation has a row in pending_changes
  MaxBindings  \* bound on the revisions of the instance

ASSUME LedgerAssumption ==
  /\ MaxBindings \in Nat
  /\ NoChange \notin [old : Nat, new : Nat, listed : SUBSET Ports]

VARIABLES
  bindings,     \* port_bindings, by revision
  applied,      \* instances.applied_spec_revision, 0 for NULL
  reservation,  \* the active row of port_reservations for each port
  change        \* pending_changes, with the reservations listed for it

ledgerVars == <<bindings, applied, reservation, change>>

\* free: no active row.  other: a row of another instance of the scope.
ReservationStates == {"free", "other", "held", "committed"}
Own(p) == reservation[p] \in {"held", "committed"}
Owns(b) == \A s \in Slots : Own(b[s])
Committed(b) == \A s \in Slots : reservation[b[s]] = "committed"

\* One slot, one port: checked_ports, and unique_active_port at creation.
Bindings == {b \in [Slots -> Ports] : \A s, t \in Slots : b[s] = b[t] => s = t}
PortsOf(b) == {b[s] : s \in Slots}

\* checked_ports: a complete set for the same slots that changes something,
\* and takes only free ports for the slots it changes.
Proposed(previous, next) ==
  /\ next \in Bindings
  /\ next # previous
  /\ \A s \in Slots : next[s] = previous[s] \/ reservation[next[s]] = "free"

\* The revision an unresolved create or edit is about, and the one it left.
Candidate == IF change = NoChange THEN 1 ELSE change.new
Original == IF change = NoChange THEN 1 ELSE change.old

LedgerInit ==
  /\ bindings = <<>>
  /\ applied = 0
  /\ reservation \in [Ports -> {"free", "other"}]
  /\ change = NoChange

-------------------------------------------------------------------------------
(* Transactions of the instance *)

\* commit_plan: the first revision, its ports committed at once.
CommitBindings(b) ==
  /\ bindings = <<>>
  /\ b \in Bindings
  /\ \A s \in Slots : reservation[b[s]] = "free"
  /\ bindings' = <<b>>
  /\ reservation' = [p \in Ports |-> IF p \in PortsOf(b) THEN "committed" ELSE reservation[p]]
  /\ UNCHANGED <<applied, change>>

\* begin_port_edit: the next revision, the ports it changes held for it.
BeginPortEdit(b) ==
  /\ change = NoChange
  /\ applied # 0
  /\ Len(bindings) < MaxBindings
  /\ Proposed(bindings[applied], b)
  /\ Committed(bindings[applied])
  /\ LET taken == PortsOf(b) \ PortsOf(bindings[applied]) IN
     /\ bindings' = Append(bindings, b)
     /\ reservation' = [p \in Ports |-> IF p \in taken THEN "held" ELSE reservation[p]]
     /\ change' = [old |-> applied, new |-> Len(bindings) + 1, listed |-> taken]
  /\ UNCHANGED applied

ConfirmOwnPorts(b) ==
  /\ applied = 0 \/ change # NoChange
  /\ Len(bindings) = Candidate
  /\ Len(bindings) < MaxBindings
  /\ b \in Bindings
  /\ b # bindings[Candidate]
  /\ \A s \in Slots : Own(b[s]) \/ reservation[b[s]] = "free"
  /\ LET taken == {p \in PortsOf(b) : ~Own(p)}
         before == IF change = NoChange THEN {} ELSE change.listed IN
     /\ bindings' = Append(bindings, b)
     /\ reservation' = [p \in Ports |-> IF p \in taken THEN "held" ELSE reservation[p]]
     /\ change' = [old |-> Original, new |-> Len(bindings) + 1, listed |-> before \cup taken]
  /\ UNCHANGED applied

\* confirm_port_recovery, after the adapter has found every port it changes
\* unreserved: the next candidate of the same operation.  What earlier
\* candidates hold stays held.
ConfirmPortRecovery(b) ==
  /\ applied = 0 \/ change # NoChange
  /\ Len(bindings) = Candidate
  /\ Len(bindings) < MaxBindings
  /\ Proposed(bindings[Candidate], b)
  /\ \A s \in Slots : Own(b[s]) \/ reservation[b[s]] = "free"
  /\ LET taken == {p \in PortsOf(b) : ~Own(p)}
         before == IF change = NoChange THEN {} ELSE change.listed IN
     /\ bindings' = Append(bindings, b)
     /\ reservation' = [p \in Ports |-> IF p \in taken THEN "held" ELSE reservation[p]]
     /\ change' = [old |-> Original, new |-> Len(bindings) + 1, listed |-> before \cup taken]
  /\ UNCHANGED applied

\* The three updates of finish_change, in their order: committed ports whose
\* slot moved are released, listed ones committed, the rest released.
ReleaseMoved(r, old, new) ==
  [p \in Ports |->
     IF r[p] = "committed" /\ \E s \in Slots : old[s] = p /\ new[s] # p THEN "free" ELSE r[p]]
CommitListed(r, listed) ==
  [p \in Ports |-> IF r[p] = "held" /\ p \in listed THEN "committed" ELSE r[p]]
ReleaseUnbound(r, new) ==
  [p \in Ports |-> IF r[p] \in {"held", "committed"} /\ p \notin PortsOf(new) THEN "free" ELSE r[p]]

FinishKeepingUnbound(target) ==
  /\ change # NoChange
  /\ target \in {change.old, change.new}
  /\ applied \in {0, change.old}
  /\ applied = 0 => target = change.new
  /\ LET old == bindings[change.old]
         new == bindings[target] IN
     /\ Owns(new)
     /\ reservation' = CommitListed(ReleaseMoved(reservation, old, new), change.listed)
  /\ applied' = target
  /\ change' = NoChange
  /\ UNCHANGED bindings

\* finish_change: the candidate of an edit or a create becomes the applied
\* revision, or the original of an edit stays it.
FinishChange(target) ==
  /\ change # NoChange
  /\ target \in {change.old, change.new}
  /\ applied \in {0, change.old}
  /\ applied = 0 => target = change.new
  /\ LET old == bindings[change.old]
         new == bindings[target] IN
     /\ Owns(new)
     /\ reservation' =
          ReleaseUnbound(CommitListed(ReleaseMoved(reservation, old, new), change.listed), new)
  /\ applied' = target
  /\ change' = NoChange
  /\ UNCHANGED bindings

\* complete_ready: a creation whose first revision was never replaced.
ApplyFirst ==
  /\ bindings # <<>>
  /\ change = NoChange
  /\ applied = 0
  /\ applied' = 1
  /\ UNCHANGED <<bindings, reservation, change>>

\* abandon_verified closes the operation and touches no reservation.
GiveUpChange ==
  /\ change' = NoChange
  /\ UNCHANGED <<bindings, applied, reservation>>

\* Another instance of the scope takes or releases a port.
OtherInstance(p) ==
  /\ reservation[p] \in {"free", "other"}
  /\ reservation' = [reservation EXCEPT ![p] = IF @ = "free" THEN "other" ELSE "free"]
  /\ UNCHANGED <<bindings, applied, change>>

LedgerNext ==
  \/ \E b \in Bindings : CommitBindings(b) \/ BeginPortEdit(b) \/ ConfirmPortRecovery(b)
  \/ \E target \in DOMAIN bindings : FinishChange(target)
  \/ ApplyFirst
  \/ GiveUpChange
  \/ \E p \in Ports : OtherInstance(p)

LedgerSpec == LedgerInit /\ [][LedgerNext]_ledgerVars

-------------------------------------------------------------------------------
(* Properties *)

Changes == [old : Nat, new : Nat, listed : SUBSET Ports]

LedgerTypeOK ==
  /\ bindings \in Seq(Bindings)
  /\ applied \in 0..Len(bindings)
  /\ reservation \in [Ports -> ReservationStates]
  /\ change \in Changes \cup {NoChange}

\* The ports of the applied revision are reserved for good: through edits,
\* further candidates, restorations and abandonments, in any order, no
\* transaction leaves one of them released or merely held, so that no other
\* instance is ever given a port this one is configured with.
AppliedIsCommitted == applied # 0 => Committed(bindings[applied])

\* A change that is carried out or taken back leaves the instance exactly the
\* ports of the revision it settled on: those of every candidate tried on the
\* way, and of edits abandoned before, are released with it.
SettlesExactly ==
  change # NoChange /\ change' = NoChange /\ (applied' # applied \/ reservation' # reservation) =>
    {p \in Ports : reservation'[p] \in {"held", "committed"}} = PortsOf(bindings[applied'])
ChangeSettlesExactly == [][SettlesExactly]_ledgerVars
===============================================================================
