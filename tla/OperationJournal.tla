--------------------------- MODULE OperationJournal ---------------------------
(***************************************************************************)
(* The durable operation journal: crates/adapters/src/operation_journal.rs *)
(* over the tables instances, operations, operation_steps,                 *)
(* request_receipts and operation_failures.  Every method is one SQLite    *)
(* transaction run by the single database worker, hence one action; a call *)
(* that is refused, or that only returns the receipt of an earlier         *)
(* acceptance, changes nothing and is a step that is not enabled.  A crash *)
(* keeps the tables; the next process runs recover_on_startup.             *)
(* Two transactions of other stores that decide the life of an operation's *)
(* instance are here too: the rename of an idle instance and the           *)
(* completion of a delete.  Phases, timestamps, resource ids, command      *)
(* kinds and the template, spec and allocation rows written along with an  *)
(* instance are left out: no guard of the journal reads them except the    *)
(* spec revision of a clone's source, which moves with its revision.       *)
(***************************************************************************)
EXTENDS Integers, Sequences, FiniteSets

CONSTANTS
  Instances,     \* instance ids
  Operations,    \* operation ids
  Requests,      \* (scope, request id) pairs
  Plans,         \* plan ids of create and clone sessions
  ChangeKinds,   \* the kinds accepted for an existing instance
  NoOperation,   \* an id with no row in operations
  NoReceipt,     \* a request with no row in request_receipts
  NoPlan,        \* a receipt without plan id
  NoSource,      \* a create: no instance to clone from
  MaxRevision,   \* bound on instance revisions (i64 in the code)
  MaxAttempt,    \* bound on attempts (i64 in the code)
  MaxSteps       \* bound on the steps of one operation

ASSUME JournalAssumption ==
  /\ ChangeKinds \subseteq {"start", "stop", "restart", "edit_port", "recover", "delete"}
  /\ MaxRevision \in Nat
  /\ MaxAttempt \in Nat
  /\ MaxSteps \in Nat
  /\ NoPlan \notin Plans
  /\ NoSource \notin Instances

VARIABLES
  lifecycle,  \* instances.lifecycle, or unregistered when there is no row
  revision,   \* instances.revision
  operation,  \* the row of operations, or NoOperation
  step,       \* the rows of operation_steps, by sequence
  receipt,    \* the row of request_receipts, or NoReceipt
  failure     \* operation_failures.status, or none

journalVars == <<lifecycle, revision, operation, step, receipt, failure>>
instanceVars == <<lifecycle, revision>>

Lifecycles == {"unregistered", "managed", "retiring", "retired"}
CreationKinds == {"create", "clone"}
Kinds == CreationKinds \cup ChangeKinds
Closed == {"Succeeded", "Abandoned"}
Paused == {"Failed", "AwaitingDecision", "OutcomeUnknown"}
Statuses == Closed \cup Paused \cup {"Accepted", "Executing"}
Outcomes == {"succeeded", "failed", "unknown"}
Open == "open"   \* outcome IS NULL: the effect may or may not have happened

ASSUME NoRowAssumption ==
  /\ NoOperation \notin Operations
  /\ NoOperation \notin
       [instance : Instances, kind : Kinds, status : Statuses, attempt : Nat, expected : Nat]
  /\ NoReceipt \notin
       [operation : Operations, instance : Instances, plan : Plans \cup {NoPlan}]

Init ==
  /\ lifecycle = [i \in Instances |-> "unregistered"]
  /\ revision = [i \in Instances |-> 0]
  /\ operation = [o \in Operations |-> NoOperation]
  /\ step = [o \in Operations |-> <<>>]
  /\ receipt = [r \in Requests |-> NoReceipt]
  /\ failure = [o \in Operations |-> "none"]

-------------------------------------------------------------------------------
(* Helpers *)

Recorded(o) == operation[o] # NoOperation
Is(o, statuses) == Recorded(o) /\ operation[o].status \in statuses
Unresolved(o) == Recorded(o) /\ operation[o].status \notin Closed
Busy(i) == \E o \in Operations : Unresolved(o) /\ operation[o].instance = i
HasStep(o, outcomes) == \E n \in DOMAIN step[o] : step[o][n].outcome \in outcomes

\* The receipt found for a request, or for a plan confirmed by another one.
Known(r, plan) ==
  \/ receipt[r] # NoReceipt
  \/ plan # NoPlan /\ \E q \in Requests : receipt[q] # NoReceipt /\ receipt[q].plan = plan

NewOperation(i, kind, expected) ==
  [instance |-> i, kind |-> kind, status |-> "Accepted", attempt |-> 1, expected |-> expected]

\* The trigger remember_operation_failure of migration 0012: a recorded
\* Failed is not overwritten by a milder status.
Remembered(o, status) ==
  IF status \in Paused /\ (failure[o] # "Failed" \/ status = "Failed") THEN status ELSE failure[o]

WriteStatus(o, status) ==
  /\ operation' = [operation EXCEPT ![o].status = status]
  /\ failure' = [failure EXCEPT ![o] = Remembered(o, status)]

-------------------------------------------------------------------------------
(* Acceptance *)

\* commit_plan: the instance, its creating operation and the receipt in one
\* transaction.  A clone's source must still be as its plan reviewed it.
CommitPlan(r, o, i, plan, source, sourceRevision) ==
  /\ ~Known(r, plan)
  /\ lifecycle[i] = "unregistered"
  /\ ~Recorded(o)
  /\ source # NoSource =>
       /\ lifecycle[source] = "managed"
       /\ revision[source] = sourceRevision
       /\ ~Busy(source)
  /\ lifecycle' = [lifecycle EXCEPT ![i] = "managed"]
  /\ revision' = [revision EXCEPT ![i] = 1]
  /\ operation' = [operation EXCEPT ![o] =
       NewOperation(i, IF source = NoSource THEN "create" ELSE "clone", 1)]
  /\ receipt' = [receipt EXCEPT ![r] = [operation |-> o, instance |-> i, plan |-> plan]]
  /\ UNCHANGED <<step, failure>>

\* accept: a change to a managed instance as the caller last saw it.  A
\* delete moves the instance to retiring in the same transaction.
Accept(r, o, i, kind, expected) ==
  /\ ~Known(r, NoPlan)
  /\ ~Recorded(o)
  /\ lifecycle[i] = "managed"
  /\ revision[i] = expected
  /\ expected < MaxRevision
  /\ ~Busy(i)
  /\ lifecycle' = [lifecycle EXCEPT ![i] = IF kind = "delete" THEN "retiring" ELSE @]
  /\ revision' = [revision EXCEPT ![i] = IF kind = "delete" THEN @ + 1 ELSE @]
  /\ operation' = [operation EXCEPT ![o] = NewOperation(i, kind, expected)]
  /\ receipt' = [receipt EXCEPT ![r] = [operation |-> o, instance |-> i, plan |-> NoPlan]]
  /\ UNCHANGED <<step, failure>>

\* rename_instance (state_store.rs): refused under an unresolved operation.
Rename(i, expected) ==
  /\ lifecycle[i] = "managed"
  /\ revision[i] = expected
  /\ expected < MaxRevision
  /\ ~Busy(i)
  /\ revision' = [revision EXCEPT ![i] = @ + 1]
  /\ UNCHANGED <<lifecycle, operation, step, receipt, failure>>
-------------------------------------------------------------------------------
(* Execution *)

RecordStepAnyStatus(o, sequence, attempt) ==
  /\ Recorded(o)
  /\ operation[o].attempt = attempt
  /\ sequence = Len(step[o]) + 1
  /\ sequence <= MaxSteps
  /\ step[o] # <<>> => step[o][Len(step[o])].outcome # Open
  /\ step' = [step EXCEPT ![o] = Append(@, [attempt |-> attempt, outcome |-> Open])]
  /\ UNCHANGED <<instanceVars, operation, receipt, failure>>

\* record_step: the intent of an external effect, before the effect.
RecordStep(o, sequence, attempt) ==
  /\ Is(o, {"Accepted", "Executing"})
  /\ operation[o].attempt = attempt
  /\ sequence = Len(step[o]) + 1
  /\ sequence <= MaxSteps
  /\ step[o] # <<>> => step[o][Len(step[o])].outcome # Open
  /\ step' = [step EXCEPT ![o] = Append(@, [attempt |-> attempt, outcome |-> Open])]
  /\ UNCHANGED <<instanceVars, operation, receipt, failure>>

\* finish_step: only the step's own outcome is examined, whatever became of
\* the operation meanwhile.
FinishStep(o, sequence, outcome) ==
  /\ sequence \in DOMAIN step[o]
  /\ step[o][sequence].outcome = Open
  /\ step' = [step EXCEPT ![o][sequence].outcome = outcome]
  /\ UNCHANGED <<instanceVars, operation, receipt, failure>>

\* set_status: any status but Abandoned; Succeeded needs settled steps.
SetStatus(o, status) ==
  /\ Unresolved(o)
  /\ status # "Abandoned"
  /\ status = "Succeeded" => ~HasStep(o, {Open})
  /\ WriteStatus(o, status)
  /\ UNCHANGED <<instanceVars, step, receipt>>

CompleteDeleteReleasingEarly(o) ==
  /\ Is(o, {"Executing"})
  /\ operation[o].kind = "delete"
  /\ ~HasStep(o, {Open})
  /\ LET i == operation[o].instance IN
     /\ revision[i] = operation[o].expected + 1
     /\ lifecycle' = [lifecycle EXCEPT ![i] = "managed"]
     /\ revision' = [revision EXCEPT ![i] = @ + 1]
  /\ WriteStatus(o, "Succeeded")
  /\ UNCHANGED <<step, receipt>>

\* complete_delete (delete_state.rs): the only way out of retiring.
CompleteDelete(o) ==
  /\ Is(o, {"Executing"})
  /\ operation[o].kind = "delete"
  /\ ~HasStep(o, {Open})
  /\ LET i == operation[o].instance IN
     /\ lifecycle[i] = "retiring"
     /\ revision[i] = operation[o].expected + 1
     /\ lifecycle' = [lifecycle EXCEPT ![i] = "retired"]
     /\ revision' = [revision EXCEPT ![i] = @ + 1]
  /\ WriteStatus(o, "Succeeded")
  /\ UNCHANGED <<step, receipt>>

-------------------------------------------------------------------------------
(* Restart and recovery *)

\* recover_on_startup: interrupted executions become OutcomeUnknown.  An
\* operation accepted but never begun is left as it is.
RecoverOnStartup ==
  /\ operation' = [o \in Operations |->
       IF Is(o, {"Executing"}) THEN [operation[o] EXCEPT !.status = "OutcomeUnknown"]
                               ELSE operation[o]]
  /\ failure' = [o \in Operations |->
       IF Is(o, {"Executing"}) THEN Remembered(o, "OutcomeUnknown") ELSE failure[o]]
  /\ UNCHANGED <<instanceVars, step, receipt>>

RetryOverOpenStep(o) ==
  /\ Is(o, Paused)
  /\ operation[o].attempt < MaxAttempt
  /\ operation' = [operation EXCEPT ![o].attempt = @ + 1, ![o].status = "Executing"]
  /\ UNCHANGED <<instanceVars, step, receipt, failure>>

\* retry: the next attempt of the same operation.
Retry(o) ==
  /\ Is(o, Paused)
  /\ ~HasStep(o, {Open})
  /\ operation[o].attempt < MaxAttempt
  /\ operation' = [operation EXCEPT ![o].attempt = @ + 1, ![o].status = "Executing"]
  /\ UNCHANGED <<instanceVars, step, receipt, failure>>

\* reconcile_step: a fresh observation settles an open or unknown step.
ReconcileStep(o, sequence, outcome) ==
  /\ Is(o, Paused)
  /\ sequence \in DOMAIN step[o]
  /\ step[o][sequence].outcome \in {Open, "unknown"}
  /\ step' = [step EXCEPT ![o][sequence].outcome = outcome]
  /\ UNCHANGED <<instanceVars, operation, receipt, failure>>

\* abandon_verified: the intent is given up, every step being settled.
Abandon(o, attempt) ==
  /\ Is(o, Paused)
  /\ operation[o].kind # "delete"
  /\ operation[o].attempt = attempt
  /\ ~HasStep(o, {Open, "unknown"})
  /\ WriteStatus(o, "Abandoned")
  /\ UNCHANGED <<instanceVars, step, receipt>>

-------------------------------------------------------------------------------
(* Callers name any operation, attempt, sequence and revision.  A delete is   *)
(* reported Succeeded by complete_delete alone: no caller of set_status does. *)

AcceptSome(r, o, i) ==
  \/ \E plan \in Plans :
       \/ CommitPlan(r, o, i, plan, NoSource, 0)
       \/ \E source \in Instances, seen \in 1..MaxRevision : CommitPlan(r, o, i, plan, source, seen)
  \/ \E kind \in ChangeKinds, seen \in 1..MaxRevision : Accept(r, o, i, kind, seen)

ExecuteSome(o) ==
  \/ \E sequence \in 1..MaxSteps :
       \/ \E attempt \in 1..MaxAttempt : RecordStep(o, sequence, attempt)
       \/ \E outcome \in Outcomes : FinishStep(o, sequence, outcome)
  \/ \E status \in Paused \cup {"Executing"} : SetStatus(o, status)
  \/ Recorded(o) /\ operation[o].kind # "delete" /\ SetStatus(o, "Succeeded")
  \/ CompleteDelete(o)

RecoverSome(o) ==
  \/ Retry(o)
  \/ \E sequence \in 1..MaxSteps, outcome \in Outcomes : ReconcileStep(o, sequence, outcome)
  \/ \E attempt \in 1..MaxAttempt : Abandon(o, attempt)

Next ==
  \/ \E o \in Operations : ExecuteSome(o) \/ RecoverSome(o)
  \/ \E r \in Requests, o \in Operations, i \in Instances : AcceptSome(r, o, i)
  \/ \E i \in Instances, seen \in 1..MaxRevision : Rename(i, seen)
  \/ RecoverOnStartup

Spec == Init /\ [][Next]_journalVars

-------------------------------------------------------------------------------
(* Properties *)

OperationRows ==
  [instance : Instances, kind : Kinds, status : Statuses, attempt : Nat, expected : Nat]
StepRows == [attempt : Nat, outcome : Outcomes \cup {Open}]
ReceiptRows == [operation : Operations, instance : Instances, plan : Plans \cup {NoPlan}]

TypeOK ==
  /\ lifecycle \in [Instances -> Lifecycles]
  /\ revision \in [Instances -> Nat]
  /\ operation \in [Operations -> OperationRows \cup {NoOperation}]
  /\ step \in [Operations -> Seq(StepRows)]
  /\ receipt \in [Requests -> ReceiptRows \cup {NoReceipt}]
  /\ failure \in [Operations -> Paused \cup {"none"}]

\* An instance has at most one unresolved operation, through creation,
\* change, failure, retry and restart (index one_unresolved_operation_per_instance).
OneUnresolvedOperation ==
  \A o, p \in Operations :
    Unresolved(o) /\ Unresolved(p) /\ operation[o].instance = operation[p].instance => o = p

\* An unresolved operation works on the instance as it was accepted: nothing
\* renames, retires or otherwise changes the revision under it, across any
\* number of attempts and restarts.  A delete has moved it itself, once.
OperationPinsInstance ==
  \A o \in Operations : Unresolved(o) =>
    LET row == operation[o] IN
    IF row.kind = "delete"
    THEN lifecycle[row.instance] = "retiring" /\ revision[row.instance] = row.expected + 1
    ELSE lifecycle[row.instance] = "managed" /\ revision[row.instance] = row.expected

\* An instance is retiring exactly while a delete of it is unresolved, and
\* retired only by a delete that succeeded: no abandoned, failed or replayed
\* operation leaves an instance retiring with nobody to finish it.
RetirementIsADelete ==
  \A i \in Instances :
    /\ lifecycle[i] = "retiring" =>
         \E o \in Operations : Unresolved(o) /\ operation[o].kind = "delete" /\ operation[o].instance = i
    /\ lifecycle[i] = "retired" =>
         \E o \in Operations :
           Is(o, {"Succeeded"}) /\ operation[o].kind = "delete" /\ operation[o].instance = i

\* An effect whose outcome is not recorded is the last one of the current
\* attempt: it is never buried under a later step or a later attempt.
OpenStepIsCurrent ==
  \A o \in Operations : \A n \in DOMAIN step[o] :
    /\ Recorded(o)
    /\ step[o][n].attempt <= operation[o].attempt
    /\ step[o][n].outcome = Open => n = Len(step[o]) /\ step[o][n].attempt = operation[o].attempt

\* A finished operation leaves no effect in doubt: no step without outcome,
\* and after an abandonment none with an unknown one.
ClosedIsSettled ==
  \A o \in Operations :
    /\ Is(o, Closed) => ~HasStep(o, {Open})
    /\ Is(o, {"Abandoned"}) => ~HasStep(o, {"unknown"})

\* A request, and a confirmed plan, is accepted at most once, and every
\* operation can be found by exactly the request that was answered with it.
AcceptedOnce ==
  /\ \A o \in Operations : Recorded(o) =>
       \E r \in Requests :
         /\ receipt[r] # NoReceipt
         /\ receipt[r].operation = o
         /\ receipt[r].instance = operation[o].instance
  /\ \A q, r \in Requests : receipt[q] # NoReceipt /\ receipt[r] # NoReceipt /\ q # r =>
       /\ receipt[q].operation # receipt[r].operation
       /\ receipt[q].plan = NoPlan \/ receipt[q].plan # receipt[r].plan

\* The tables agree with one another, through every order of acceptances,
\* steps, statuses, recoveries, renames and restarts: one unresolved operation
\* per instance, which finds it as it was accepted, deletes and retiring
\* instances in pairs, effects in doubt last, and every request answered once.
TablesAgree ==
  /\ OneUnresolvedOperation
  /\ OperationPinsInstance
  /\ RetirementIsADelete
  /\ OpenStepIsCurrent
  /\ ClosedIsSettled
  /\ AcceptedOnce

\* Succeeded and Abandoned are final: neither the operation nor the record of
\* its effects ever changes again.
ClosedIsFinal ==
  [][\A o \in Operations :
       Is(o, Closed) => operation'[o] = operation[o] /\ step'[o] = step[o]]_journalVars

\* A failure that was once established stays on record, whatever later
\* attempts, observations and restarts do to the status.
KeepsFailures ==
  \A o \in Operations : failure[o] = "Failed" \/ Is(o, {"Failed"})' => failure'[o] = "Failed"
FailureIsRemembered == [][KeepsFailures]_journalVars

\* The journal implements exclusive, once-only ownership of instances.
Owner(i) ==
  IF Busy(i)
  THEN CHOOSE o \in Operations : Unresolved(o) /\ operation[o].instance = i
  ELSE NoOperation
Changes == INSTANCE InstanceChanges WITH
  Nobody <- NoOperation,
  owner <- [i \in Instances |-> Owner(i)],
  standing <- lifecycle,
  finished <- {o \in Operations : Is(o, Closed)}
RefinesInstanceChanges == Changes!Spec
===============================================================================
