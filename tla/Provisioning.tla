------------------------------ MODULE Provisioning ------------------------------
(***************************************************************************)
(* The creation of an instance, the edits of its ports and the recovery of *)
(* both: CreateOperation (application/create_operation.rs) with its stages *)
(* (create_stages.rs, create_state.rs), run_accepted                       *)
(* (port_edit_stages.rs), inspect_locked (recovery_view.rs),               *)
(* recover_locked and apply (recovery_actions.rs, port_recovery.rs), over  *)
(* OperationJournal and PortLedger.  Docker is external: its users start,  *)
(* stop and remove the instance's container at any time, and a change CLI  *)
(* may outlive the process that spawned it and act until it ends.          *)
(*                                                                         *)
(* All storage slots of the instance are one: a bind set made by one step  *)
(* (NamedVolume has the volumes).  What files and Docker say beyond        *)
(* presence, revision and state of the container is free: any look may     *)
(* fail.  Published artifacts are not tampered with.  A container's        *)
(* configuration matches the revision it was created from and no other,    *)
(* and a running container may be Ready.                                   *)
(***************************************************************************)
EXTENDS PortLedger, FiniteSets

CONSTANTS
  Subject, Operations,                       \* the instance, the operation ids
  NoOperation, NoReceipt, NoPlan, NoSource,  \* see OperationJournal
  MaxRevision, MaxAttempt, MaxSteps,         \* see OperationJournal
  NoBox,      \* the project has no container
  Histories,  \* how the instance is found: "fresh", "managed" or either
  MaxExits,   \* bound on the times the application dies
  MaxFaults   \* bound on the writes that fail for want of the database

VARIABLES
  lifecycle, revision, operation, step, receipt, failure,  \* the journal
  command,         \* operation_steps.command_kind, by sequence
  phase,           \* operations.phase where it is read again, or other
  storage,         \* storage_allocations.presence
  initialization,  \* storage_allocations.initialization
  published,       \* the revisions with a published artifact
  box,             \* the project's container
  live,            \* the change CLIs that have not ended
  blocked,         \* a CLI's end could not be confirmed (docker_cli.rs)
  inherited,       \* RecoverySession::inherited
  task,            \* the one task at work on the instance
  exits,
  faults

Journal == INSTANCE OperationJournal WITH
  Instances <- {Subject}, Requests <- Operations, Plans <- {}, ChangeKinds <- {"edit_port"}

journalVars == <<lifecycle, revision, operation, step, receipt, failure>>
recordVars == <<command, phase, storage, initialization, published>>
dockerVars == <<box, live, blocked>>
limits == <<inherited, exits, faults>>
vars == <<journalVars, ledgerVars, recordVars, dockerVars, limits, task>>

ASSUME ProvisioningAssumption ==
  /\ Histories \subseteq {"fresh", "managed"}
  /\ NoBox \notin [rev : Nat, running : BOOLEAN, recorded : BOOLEAN]
  /\ NoOperation \notin Operations \cup Journal!OperationRows  \* as the journal assumes
  /\ MaxExits \in Nat
  /\ MaxFaults \in Nat

Idle ==
  [op |-> NoOperation, flow |-> "none", action |-> "none", point |-> "none", todo |-> <<>>,
   result |-> "ok", target |-> 0, seen |-> 0, pending |-> FALSE]

\* fresh: nothing yet.  managed: as a creation leaves it, the container since
\* started, stopped or removed.
Init ==
  /\ operation = [o \in Operations |-> NoOperation]
  /\ step = [o \in Operations |-> <<>>]
  /\ receipt = [o \in Operations |-> NoReceipt]
  /\ failure = [o \in Operations |-> "none"]
  /\ command = [o \in Operations |-> <<>>]
  /\ phase = [o \in Operations |-> "other"]
  /\ change = NoChange
  /\ \/ /\ "fresh" \in Histories
        /\ LedgerInit
        /\ lifecycle = [i \in {Subject} |-> "unregistered"]
        /\ revision = [i \in {Subject} |-> 0]
        /\ storage = "not_materialized" /\ initialization = "not_attempted"
        /\ published = {}
        /\ box = NoBox
     \/ /\ "managed" \in Histories
        /\ bindings \in {<<b>> : b \in Bindings} /\ applied = 1
        /\ reservation \in [Ports -> {"free", "other", "committed"}]
        /\ \A p \in Ports : reservation[p] = "committed" <=> p \in PortsOf(bindings[1])
        /\ lifecycle = [i \in {Subject} |-> "managed"]
        /\ revision = [i \in {Subject} |-> 1]
        /\ storage = "present" /\ initialization = "ready_observed"
        /\ published = {1}
        /\ box \in {NoBox} \cup [rev : {1}, running : BOOLEAN, recorded : {TRUE}]
  /\ live = {} /\ blocked = FALSE /\ inherited = {}
  /\ task = Idle
  /\ exits = 0 /\ faults = 0

-------------------------------------------------------------------------------
(* Docker, its users and the instance's neighbours *)

Quiet == \A o \in Operations : ~Journal!Unresolved(o)
Box(rev, running) == [rev |-> rev, running |-> running, recorded |-> FALSE]

\* Anybody starts, stops or removes the container.  Between changes the
\* instance's own start also makes a missing one anew (LifecycleOperation).
OtherUser ==
  /\ \/ /\ box # NoBox
        /\ box' \in {NoBox, [box EXCEPT !.running = ~@]}
     \/ /\ box = NoBox /\ Quiet /\ applied # 0
        /\ box' = [Box(applied, TRUE) EXCEPT !.recorded = TRUE]
  /\ UNCHANGED <<journalVars, ledgerVars, recordVars, live, blocked, limits, task>>

Neighbour(p) ==
  /\ OtherInstance(p)
  /\ UNCHANGED <<journalVars, recordVars, dockerVars, limits, task>>

\* What a change CLI makes the daemon do.  A replacement removes the old
\* container first and may get no further.
Serve(c) ==
  /\ c \in live
  /\ c.state = "sent"
  /\ \E end \in {"done", "broken"} :
       /\ live' = (live \ {c}) \cup {[c EXCEPT !.state = end]}
       /\ IF end = "broken"
          THEN box' = IF c.command = "recreate" THEN NoBox ELSE box
          ELSE CASE c.command = "create" -> box = NoBox /\ box' = Box(c.rev, FALSE)
                 [] c.command = "recreate" -> box' = Box(c.rev, FALSE)
                 [] c.command = "start" -> box # NoBox /\ box' = [box EXCEPT !.running = TRUE]
  /\ UNCHANGED <<journalVars, ledgerVars, recordVars, blocked, limits, task>>

\* A CLI nobody waits for ends, whatever it has done.
Vanish(c) ==
  /\ c \in live
  /\ task.point = "waiting" => c.op # task.op \/ c.at # Len(step[c.op])
  /\ live' = live \ {c}
  /\ UNCHANGED <<journalVars, ledgerVars, recordVars, box, blocked, limits, task>>

-------------------------------------------------------------------------------
(* The task: where each step leads *)

CreateStagesStartFirst ==
  <<"storage", "image", "artifact", "config", "create", "inspect", "start", "initialize", "ready">>
CreateStages ==
  <<"storage", "image", "artifact", "config", "create", "inspect", "initialize", "start", "ready">>
EditStages == <<"stored", "compose", "artifact", "config", "stopped", "recreate", "inspect", "observe">>

\* apply: from the artifact, or the one already published, to the observation.
RecoveryStages(restore, ready) ==
  (IF restore THEN <<"config">> ELSE <<"compose", "artifact">>)
    \o <<"ports", "same", "recreate", "inspect">>
    \o (IF ready THEN <<"ports", "initialize", "start", "ready">> ELSE <<>>)
    \o <<"observe">>

Ready(o) == operation[o].kind = "create"
Stage == Head(task.todo)
Recorded(flow, stage) ==
  IF flow = "create" THEN stage # "initialize"
                     ELSE stage \in {"artifact", "recreate", "start", "observe"}
CommandOf(stage) ==
  CASE stage \in {"create", "recreate"} -> "create"
    [] stage = "start" -> "start"
    [] stage \in {"storage", "image", "artifact"} -> stage
    [] OTHER -> "observe"
Spawns(stage) == stage \in {"create", "recreate", "start"}

\* The task t with the stages todo before it.
Towards(t, todo) ==
  [t EXCEPT !.todo = todo, !.result = "ok",
     !.point = IF todo = <<>> THEN "complete"
               ELSE IF Recorded(t.flow, Head(todo)) THEN "record" ELSE "work"]
Continue == task' = Towards(task, Tail(task.todo))
GoTo(point) == task' = [task EXCEPT !.point = point]
Drop == task' = Idle

\* A stage that did not succeed sets the operation's status.
Err(result) == task' = [task EXCEPT !.point = "fail", !.result = result]

\* A write that failed ends a creation and an edit, without a status of its
\* own; a recovery reports it as a failure.
StoreError == IF task.flow = "recover" THEN Err("failed") ELSE GoTo("fallback")
Fault ==
  /\ faults < MaxFaults
  /\ faults' = faults + 1
  /\ UNCHANGED <<journalVars, ledgerVars, recordVars, dockerVars, inherited, exits>>

JournalOnly == UNCHANGED <<ledgerVars, recordVars, dockerVars, limits>>
SetPhase(o, p) ==
  /\ phase' = [phase EXCEPT ![o] = p]
  /\ UNCHANGED <<ledgerVars, command, storage, initialization, published, dockerVars, limits>>

StoppedForEdit == box # NoBox => box.recorded /\ ~box.running

-------------------------------------------------------------------------------
(* Acceptance *)

Begin(o, flow, target) ==
  task' = [Idle EXCEPT !.op = o, !.flow = flow, !.target = target, !.point = "begin"]

\* confirm_create: the instance with its first revision; the worker follows.
AcceptCreate(o, b) ==
  /\ task = Idle
  /\ Journal!CommitPlan(o, o, Subject, NoPlan, NoSource, 0)
  /\ CommitBindings(b)
  /\ Begin(o, "create", 1)
  /\ UNCHANGED <<recordVars, dockerVars, limits>>

\* accept_port_edit, for an instance found stopped or without container.
AcceptEdit(o, b) ==
  /\ task = Idle
  /\ StoppedForEdit
  /\ Journal!Accept(o, o, Subject, "edit_port", revision[Subject])
  /\ BeginPortEdit(b)
  /\ Begin(o, "edit", Len(bindings) + 1)
  /\ UNCHANGED <<recordVars, dockerVars, limits>>

\* The target cannot be bound, or the work begins.
CannotBegin ==
  /\ task.point = "begin"
  /\ GoTo("fallback")
  /\ UNCHANGED <<journalVars, ledgerVars, recordVars, dockerVars, limits>>

BeginWork ==
  /\ task.point = "begin"
  /\ Journal!SetStatus(task.op, "Executing")
  /\ task' = Towards(task, IF task.flow = "create" THEN CreateStages ELSE EditStages)
  /\ JournalOnly

-------------------------------------------------------------------------------
(* One stage: its intent, its work and its outcome *)

RecordIntent ==
  /\ task.point = "record"
  /\ Journal!RecordStep(task.op, Len(step[task.op]) + 1, operation[task.op].attempt)
  /\ command' = [command EXCEPT ![task.op] = Append(@, CommandOf(Stage))]
  /\ GoTo(IF task.flow = "create" /\ Stage # "storage" THEN "mark" ELSE "work")
  /\ UNCHANGED <<ledgerVars, phase, storage, initialization, published, dockerVars, limits>>

RecordFails ==
  /\ task.point = "record"
  /\ Fault
  /\ IF Stage = "storage" THEN Err("unknown") ELSE StoreError

\* CreateOperation::stage names the phase before the work.
MarkExecuting ==
  /\ task.point = "mark"
  /\ \/ /\ Journal!SetStatus(task.op, "Executing")
        /\ GoTo("work")
        /\ JournalOnly
     \/ Fault /\ StoreError

\* What has to be seen for a stage to succeed.
Seen(rev, running) == box # NoBox /\ box.rev = rev /\ box.running = running
Holds(stage) ==
  CASE stage = "stored" -> storage = "present"
    [] stage = "config" -> task.target \in published
    [] stage = "stopped" -> StoppedForEdit
    [] stage = "same" -> IF task.seen = 0 THEN box = NoBox ELSE Seen(task.seen, FALSE)
    [] stage \in {"inspect", "start"} -> Seen(task.target, FALSE)
    [] stage = "create" -> box = NoBox /\ task.target \in published
    [] stage = "recreate" -> task.target \in published
    [] stage = "ready" -> Seen(task.target, TRUE)
    [] stage = "observe" ->
         task.flow = "recover" =>
           /\ Seen(task.target, Ready(task.op))
           /\ task.target \in published
           /\ storage = "present"
    [] OTHER -> TRUE

\* How a look at files, ports or Docker goes wrong.
Failures(stage) ==
  CASE stage = "ports" -> {"conflict"}
    [] stage = "compose" -> {"failed"}
    [] stage = "storage" -> {"unknown"}
    [] stage = "observe" -> IF task.flow = "edit" THEN {} ELSE {"failed", "unknown"}
    [] OTHER -> {"failed", "unknown"}

\* A recorded stage goes on to its outcome, except that a storage stage that
\* failed leaves its step open; an unrecorded one is followed by the next.
Conclude(result) ==
  IF Recorded(task.flow, Stage) /\ (Stage = "storage" => result = "ok")
  THEN task' = [task EXCEPT !.point = "finish", !.result = result]
  ELSE IF result = "ok" THEN Continue ELSE Err(result)

Look ==
  /\ task.point = "work"
  /\ ~Spawns(Stage)
  /\ Stage # "initialize"
  /\ \/ /\ Holds(Stage)
        /\ Conclude("ok")
        /\ storage' = IF Stage = "storage" THEN "present" ELSE storage
        /\ published' = IF Stage = "artifact" THEN published \cup {task.target} ELSE published
     \/ \E result \in Failures(Stage) :
        /\ Conclude(result)
        /\ storage' \in IF Stage = "storage" THEN {storage, "present"} ELSE {storage}
        /\ UNCHANGED published
  /\ UNCHANGED <<journalVars, ledgerVars, command, phase, initialization, dockerVars, limits>>

\* mark_may_have_initialized, and the update of apply: before any start.
Initialize ==
  /\ task.point = "work"
  /\ Stage = "initialize"
  /\ \/ /\ storage = "present"
        /\ initialization # "ready_observed"
        /\ initialization' = "may_have_initialized"
        /\ Continue
        /\ UNCHANGED <<journalVars, ledgerVars, command, phase, storage, published, dockerVars, limits>>
     \/ Fault /\ StoreError

\* The checks before a change CLI, then the CLI unless the supervisor is
\* blocked.
Spawn ==
  /\ task.point = "work"
  /\ Spawns(Stage)
  /\ Holds(Stage)
  /\ ~blocked
  /\ live' = live \cup {[op |-> task.op, at |-> Len(step[task.op]), command |-> Stage,
                         rev |-> task.target, state |-> "sent"]}
  /\ GoTo("waiting")
  /\ UNCHANGED <<journalVars, ledgerVars, recordVars, box, blocked, limits>>

RefuseSpawn ==
  /\ task.point = "work"
  /\ Spawns(Stage)
  /\ \E result \in {"failed", "unknown"} : Conclude(result)
  /\ UNCHANGED <<journalVars, ledgerVars, recordVars, dockerVars, limits>>

Mine(c) == c.op = task.op /\ c.at = Len(step[c.op])

\* An exit code of zero means the daemon has done it.  Any other end, and a
\* kill at the deadline, is an unknown outcome; an end that cannot be
\* confirmed blocks further changes.
CliEnds ==
  /\ task.point = "waiting"
  /\ \E c \in live :
       /\ Mine(c)
       /\ \/ /\ c.state = "done"
             /\ live' = live \ {c} /\ Conclude("ok") /\ UNCHANGED blocked
          \/ live' = live \ {c} /\ Conclude("unknown") /\ UNCHANGED blocked
          \/ UNCHANGED live /\ Conclude("unknown") /\ blocked' = TRUE
  /\ UNCHANGED <<journalVars, ledgerVars, recordVars, box, limits>>

\* The outcome of the step.  Only a creation tells failed from unknown.
Finish ==
  /\ task.point = "finish"
  /\ \/ /\ Journal!FinishStep(task.op, Len(step[task.op]),
             IF task.result = "ok" THEN "succeeded"
             ELSE IF task.flow = "create" /\ task.result = "failed" THEN "failed" ELSE "unknown")
        /\ IF task.result = "ok" THEN Continue ELSE Err(task.result)
        /\ JournalOnly
     \/ Fault /\ (IF Stage = "storage" THEN Err("unknown") ELSE StoreError)

-------------------------------------------------------------------------------
(* How a task ends *)

StatusOf(result) ==
  CASE result = "failed" -> "Failed"
    [] result = "unknown" -> "OutcomeUnknown"
    [] result = "conflict" -> "AwaitingDecision"

\* fail: the status, by the kind of error.  Its phase is read again only
\* where a retry has set it.
Fail ==
  /\ task.point = "fail"
  /\ \/ /\ Journal!SetStatus(task.op, StatusOf(task.result))
        /\ Drop
        /\ JournalOnly
     \/ Fault /\ (IF task.flow = "edit" THEN GoTo("fallback") ELSE Drop)

\* What the callers of run_confirmed_create and run_accepted write when the
\* stages left no status.
Fallback ==
  /\ task.point = "fallback"
  /\ LET stranded == IF task.flow = "create" THEN {"Accepted"} ELSE {"Accepted", "Executing"} IN
     IF Journal!Is(task.op, stranded)
     THEN \/ Journal!SetStatus(task.op, "OutcomeUnknown") /\ SetPhase(task.op, "reconcile") /\ Drop
          \/ Fault /\ Drop
     ELSE /\ Drop
          /\ UNCHANGED <<journalVars, ledgerVars, recordVars, dockerVars, limits>>

\* The last step is this attempt's successful observation.
ObservedLast(o) ==
  LET n == Len(step[o]) IN
  /\ n > 0
  /\ command[o][n] = "observe"
  /\ step[o][n] = [attempt |-> operation[o].attempt, outcome |-> "succeeded"]

Started(o) ==
  \E n \in DOMAIN step[o] :
    /\ command[o][n] = "start"
    /\ phase[o] # "reconcile" => step[o][n] = [attempt |-> operation[o].attempt, outcome |-> "succeeded"]

Initialized == storage = "present" /\ initialization = "may_have_initialized"
RecordContainer == box' = IF box = NoBox THEN NoBox ELSE [box EXCEPT !.recorded = TRUE]

\* complete_ready: a creation whose ports were never replaced.
CompleteReady(o) ==
  /\ Journal!Is(o, {"Executing"})
  /\ ObservedLast(o)
  /\ Started(o)
  /\ Initialized
  /\ ApplyFirst
  /\ initialization' = "ready_observed"
  /\ Journal!WriteStatus(o, "Succeeded")
  /\ UNCHANGED <<lifecycle, revision, step, receipt>>

\* finish_change: the candidate, or the original when it is restored.
CompleteChange(o) ==
  LET restore == phase[o] = "restore"
      target == IF restore THEN change.old ELSE change.new IN
  /\ Journal!Is(o, {"Executing"} \cup Journal!Paused)
  /\ Ready(o) => applied = 0 /\ ~restore /\ Initialized
  /\ ~Ready(o) => applied = change.old
  /\ ObservedLast(o)
  /\ target \in published
  /\ FinishChange(target)
  /\ initialization' = IF Ready(o) THEN "ready_observed" ELSE initialization
  /\ revision' = [revision EXCEPT ![Subject] = @ + 1]
  /\ Journal!WriteStatus(o, IF restore THEN "Abandoned" ELSE "Succeeded")
  /\ UNCHANGED <<lifecycle, step, receipt>>

\* Which completion depends on what was pending when the task began.
Completed ==
  IF task.pending \/ task.flow = "edit" THEN CompleteChange(task.op) ELSE CompleteReady(task.op)

Complete ==
  /\ task.point = "complete"
  /\ Completed
  /\ RecordContainer
  /\ Drop
  /\ UNCHANGED <<command, phase, storage, published, live, blocked, limits>>

CompletionFails ==
  /\ task.point = "complete"
  /\ \/ Fault
     \/ ~ENABLED Completed /\ UNCHANGED <<journalVars, ledgerVars, recordVars, dockerVars, limits>>
  /\ StoreError

\* The process dies; the next one runs recover_on_startup before it takes
\* down, in a new RecoverySession, what it inherits.
Restart ==
  /\ exits < MaxExits
  /\ exits' = exits + 1
  /\ Journal!RecoverOnStartup
  /\ inherited' = {o \in Operations : Journal!Unresolved(o)}
  /\ blocked' = FALSE
  /\ Drop
  /\ UNCHANGED <<ledgerVars, recordVars, box, live, faults>>

-------------------------------------------------------------------------------
(* Recovery: what inspect_locked offers *)

Settled(o) == ~Journal!HasStep(o, {Journal!Open, "unknown"})
PermitsAnyAttempt(o) == TRUE
\* RecoverySession::permits: what another process left in doubt stays so.
Permits(o) == o \notin inherited \/ Settled(o)

Stopped == box # NoBox => ~box.running
Matching == box # NoBox /\ box.rev = Candidate
Known == Matching \/ (change # NoChange /\ box # NoBox /\ box.rev = Original /\ Original \in published)

\* The evidence every action needs.
Verified(o) ==
  /\ Journal!Is(o, Journal!Paused)
  /\ Permits(o) /\ ~blocked
  /\ Candidate \in published
  /\ storage = "present"

Offers == {"abandon", "propose", "confirm", "retry", "restore", "reconcile"}
OfferedOverContainer(o) ==
  {a \in Offers :
    /\ Verified(o)
    /\ CASE a = "abandon" -> Settled(o)
         [] a \in {"propose", "confirm"} -> (box # NoBox => Known) /\ Stopped
         [] a \in {"retry", "restore"} -> (box # NoBox => Known) /\ Stopped /\ change # NoChange
         [] a = "reconcile" -> Matching /\ box.running = Ready(o)}
Offered(o) ==
  {a \in Offers :
    /\ Verified(o)
    /\ CASE a = "abandon" -> box = NoBox /\ Settled(o)
         [] a \in {"propose", "confirm"} -> (box # NoBox => Known) /\ Stopped
         [] a \in {"retry", "restore"} -> (box # NoBox => Known) /\ Stopped /\ change # NoChange
         [] a = "reconcile" -> Matching /\ box.running = Ready(o)}

\* recover_operation: an action that is offered again under the gate.
Recover(o, a) ==
  /\ task = Idle
  /\ a \in Offered(o) \ {"abandon"}
  /\ task' = [Idle EXCEPT !.op = o, !.flow = "recover", !.action = a, !.point = "look"]
  /\ UNCHANGED <<journalVars, ledgerVars, recordVars, dockerVars, limits>>

\* abandon_operation: the evidence is used at once, nothing can be on its way.
Abandon(o) ==
  /\ task = Idle
  /\ "abandon" \in Offered(o)
  /\ Journal!Abandon(o, operation[o].attempt)
  /\ GiveUpChange
  /\ UNCHANGED <<recordVars, dockerVars, limits, task>>

-------------------------------------------------------------------------------
(* Recovery: recover_locked *)

\* The intent is to restore when that is asked for, or when an attempt that
\* was restoring is to be reconciled.
Restoring == task.action = "restore" \/ (task.action = "reconcile" /\ phase[task.op] = "restore")
Goal == IF Restoring THEN Original ELSE Candidate
AtGoal == Seen(Goal, Ready(task.op))

\* What the looks before the attempt have to find.
Admitted ==
  /\ Restoring => ~Ready(task.op)
  /\ storage = "present"
  /\ box # NoBox => box.rev \in (Original..Candidate) \cap published
  /\ AtGoal \/ (Stopped /\ task.action # "reconcile")

\* Evidence is missing, or the database is: nothing is changed.
Hold ==
  /\ task.point = "look"
  /\ Drop
  /\ UNCHANGED <<journalVars, ledgerVars, recordVars, dockerVars, limits>>

\* A port of the candidate is taken outside: the user is to decide.
ReportConflict ==
  /\ task.point = "look"
  /\ task.action \in {"propose", "confirm"}
  /\ Admitted
  /\ task.action = "confirm" => ~AtGoal
  /\ Journal!SetStatus(task.op, "AwaitingDecision")
  /\ SetPhase(task.op, "other")
  /\ Drop

\* What an attempt is to reach, and from what.
Attempt(target, pending, todo) ==
  task' = [task EXCEPT !.point = "settle", !.target = target, !.pending = pending, !.todo = todo,
                       !.seen = IF box = NoBox THEN 0 ELSE box.rev]

ConfirmPorts(b) ==
  /\ task.point = "look"
  /\ task.action = "confirm"
  /\ Admitted
  /\ ~AtGoal
  /\ Journal!Is(task.op, Journal!Paused)
  /\ ConfirmPortRecovery(b)
  /\ Journal!WriteStatus(task.op, "AwaitingDecision")
  /\ phase' = [phase EXCEPT ![task.op] = "other"]
  /\ Attempt(Len(bindings) + 1, TRUE, RecoveryStages(FALSE, Ready(task.op)))
  /\ UNCHANGED <<lifecycle, revision, step, receipt, command, storage, initialization, published,
                 dockerVars, limits>>

TryAgain ==
  /\ task.point = "look"
  /\ task.action \in {"retry", "restore", "reconcile"}
  /\ Admitted
  /\ change # NoChange \/ AtGoal
  /\ Attempt(Goal, change # NoChange,
             IF AtGoal THEN <<"observe">> ELSE RecoveryStages(Restoring, Ready(task.op)))
  /\ UNCHANGED <<journalVars, ledgerVars, recordVars, dockerVars, limits>>

\* A step still open becomes unknown, never more.
SettleStep ==
  /\ task.point = "settle"
  /\ Journal!HasStep(task.op, {Journal!Open})
  /\ Journal!ReconcileStep(task.op, Len(step[task.op]), "unknown")
  /\ JournalOnly
  /\ UNCHANGED task

NextAttempt ==
  /\ task.point = "settle"
  /\ Journal!Retry(task.op)
  /\ SetPhase(task.op, IF Restoring THEN "restore"
                       ELSE IF task.todo = <<"observe">> /\ ~task.pending THEN "reconcile"
                       ELSE "ports")
  /\ task' = Towards(task, task.todo)

SettleFails ==
  /\ task.point = "settle"
  /\ Fault
  /\ Drop

-------------------------------------------------------------------------------
(* The specification *)

Stages ==
  \/ CannotBegin \/ BeginWork
  \/ RecordIntent \/ RecordFails \/ MarkExecuting
  \/ Look \/ Initialize \/ Spawn \/ RefuseSpawn \/ CliEnds
  \/ Finish \/ Fail \/ Fallback \/ Complete \/ CompletionFails

Recovering ==
  \/ Hold \/ ReportConflict \/ TryAgain
  \/ \E b \in Bindings : ConfirmPorts(b)
  \/ SettleStep \/ NextAttempt \/ SettleFails

Requested(o) ==
  \/ \E b \in Bindings : AcceptCreate(o, b) \/ AcceptEdit(o, b)
  \/ \E a \in Offers : Recover(o, a)
  \/ Abandon(o)

Next ==
  \/ \E o \in Operations : Requested(o)
  \/ Stages
  \/ Recovering
  \/ Restart
  \/ \E c \in live : Serve(c) \/ Vanish(c)
  \/ OtherUser
  \/ \E p \in Ports : Neighbour(p)

Spec == Init /\ [][Next]_vars

-------------------------------------------------------------------------------
(* Properties *)

\* Whatever the instance's container is made of, its ports are reserved for
\* the instance: no replacement that was cut short, retried, taken back or
\* overtaken leaves a container on ports that another instance may be given.
BoxPortsAreReserved == box # NoBox => Owns(bindings[box.rev])

\* With nothing unresolved, the container is the applied revision's: no
\* creation or edit is closed, carried out, taken back or abandoned, over a
\* container of another revision or with a replacement still on its way.
IdleBoxIsApplied == Quiet /\ box # NoBox => box.rev = applied

\* At every time the container is one the instance can answer for.
BoxIsAccountedFor == BoxPortsAreReserved /\ IdleBoxIsApplied

\* A start is never sent before the record that storage may have been
\* initialized by it.
StartIsRecorded == \A c \in live : c.command = "start" => initialization # "not_attempted"

\* Two change CLIs of an instance are never on their way at once, whatever
\* outlives a restart or a deadline.
OneChangeCli == Cardinality(live) <= 1
===============================================================================
