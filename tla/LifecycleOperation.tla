--------------------------- MODULE LifecycleOperation ---------------------------
(***************************************************************************)
(* Start, stop and restart of a managed instance, from the accepted        *)
(* request to the settled operation: change_instance (instance_commands.rs)*)
(* and its detached worker, LifecycleOperation::run_locked                 *)
(* (application/lifecycle_operation.rs) over AdapterLifecycleStages and    *)
(* DockerCli, the recovery commands (recovery_actions.rs, recovery_view.rs,*)
(* operation_recovery.rs), and the death and restart of the application.   *)
(* The change gate is OperationRunner and the store is OperationJournal;   *)
(* their actions are reused here as they are.  A task is a worker, named   *)
(* by its operation, or a recovery command.  Every await, journal call and *)
(* CLI run is a step of its own.  Docker's containers can be changed by    *)
(* anybody at any time, so no container state is kept: an observation may  *)
(* come out any way the code distinguishes.                                *)
(***************************************************************************)
EXTENDS Integers, Sequences, FiniteSets

CONSTANTS
  Instances, Operations, Requests, Plans, ChangeKinds, NoOperation, NoReceipt,
  NoPlan, NoSource, MaxRevision, MaxAttempt, MaxSteps,  \* see OperationJournal
  MAX_CONCURRENT_CHANGES, NoClaim, Unbound,             \* see OperationRunner
  Recoverers,  \* concurrent retry_operation commands
  MaxExits,    \* bound on the times the application dies
  MaxFaults    \* bound on the journal calls that fail for want of the database

VARIABLES
  lifecycle, revision, operation, step, receipt, failure,  \* the journal
  closing, reservations, instances, guard, shutdown, notified, expired,  \* the gate
  stage,      \* where each task is
  job,        \* the operation a recovery command works on
  doing,      \* the command of a task's current step
  result,     \* the LifecycleEffectError, or success, of that command
  commands,   \* operation_steps.command_kind, as a set per operation
  live,       \* change CLIs still alive, as <<operation, sequence>>
  blocked,    \* DockerCli.blocked: a CLI's termination is unconfirmed
  up,         \* the application is running
  inherited,  \* RecoverySession.inherited
  exits,
  faults

Journal == INSTANCE OperationJournal
Gate == INSTANCE OperationRunner WITH Callers <- Operations \cup Recoverers

journalVars == <<lifecycle, revision, operation, step, receipt, failure>>
gateVars == <<closing, reservations, instances, guard, shutdown, notified, expired>>
taskVars == <<stage, job, doing, result>>
cliVars == <<live, blocked>>
processVars == <<up, inherited, exits>>
vars == <<journalVars, gateVars, taskVars, commands, cliVars, processVars, faults>>

Tasks == Operations \cup Recoverers
LifecycleKinds == {"start", "stop", "restart"}
Commands == {"create", "start", "stop", "restart"}  \* ComposeCreate, ComposeStart, ...
Idle == "idle"

ASSUME LifecycleAssumption ==
  /\ ChangeKinds = LifecycleKinds
  /\ Operations \cap Recoverers = {}
  /\ MaxExits \in Nat
  /\ MaxFaults \in Nat
  /\ MaxRevision \in Nat /\ MaxAttempt \in Nat \ {0} /\ MaxSteps \in Nat
  /\ MaxSteps > MaxAttempt  \* a create and start, and a start per retry
  /\ NoOperation \notin Operations \cup Journal!OperationRows  \* as the journal assumes
  /\ NoReceipt \notin Journal!ReceiptRows
  /\ NoPlan \notin Plans /\ NoSource \notin Instances
  /\ NoClaim \notin Instances /\ Unbound \notin Instances /\ NoClaim # Unbound  \* and the gate

\* Managed instances whose earlier operations are all closed.
Init ==
  /\ lifecycle = [i \in Instances |-> "managed"]
  /\ revision = [i \in Instances |-> 1]
  /\ operation = [o \in Operations |-> NoOperation]
  /\ step = [o \in Operations |-> <<>>]
  /\ receipt = [r \in Requests |-> NoReceipt]
  /\ failure = [o \in Operations |-> "none"]
  /\ Gate!Init
  /\ stage = [t \in Tasks |-> Idle]
  /\ job = [q \in Recoverers |-> NoOperation]
  /\ doing = [t \in Tasks |-> "none"]
  /\ result = [t \in Tasks |-> "none"]
  /\ commands = [o \in Operations |-> {}]
  /\ live = {}
  /\ blocked = FALSE
  /\ up = TRUE
  /\ inherited = {}
  /\ exits = 0
  /\ faults = 0

-------------------------------------------------------------------------------
(* Helpers *)

Worker(t) == t \in Operations
Job(t) == IF Worker(t) THEN t ELSE job[t]
Kind(o) == operation[o].kind
GoTo(t, s) == stage' = [stage EXCEPT ![t] = s]

\* The CLI under supervision holds DockerCli.gate.
Running == \E t \in Tasks : stage[t] = "running"

\* An error ends the task: a worker still has its fallback to run.
ErrorStage(t) == IF Worker(t) THEN "givingUp" ELSE "leaving"

-------------------------------------------------------------------------------
(* change_instance and the start of its worker *)

\* A place is taken before the change is accepted.
Reserve(o) ==
  /\ up /\ stage[o] = Idle /\ ~Journal!Recorded(o)
  /\ Gate!Reserve(o)
  /\ GoTo(o, "reserved")
  /\ UNCHANGED <<journalVars, job, doing, result, commands, cliVars, processVars, faults>>

Accept(o) ==
  /\ stage[o] = "reserved"
  /\ \E r \in Requests, i \in Instances, kind \in LifecycleKinds :
       Journal!Accept(r, o, i, kind, revision[i])
  /\ GoTo(o, "accepted")
  /\ UNCHANGED <<gateVars, job, doing, result, commands, cliVars, processVars, faults>>

\* accept is refused (another operation, a stale revision): nothing was accepted.
AcceptRefused(o) ==
  /\ stage[o] = "reserved"
  /\ Gate!DropGuard(o)
  /\ GoTo(o, Idle)
  /\ UNCHANGED <<journalVars, job, doing, result, commands, cliVars, processVars, faults>>

\* run_reserved lets the worker in.
Begin(o) ==
  /\ stage[o] = "accepted"
  /\ Gate!RunReserved(o, operation[o].instance)
  /\ GoTo(o, "entered")
  /\ UNCHANGED <<journalVars, job, doing, result, commands, cliVars, processVars, faults>>

\* run_lifecycle fails ahead of the gate, or run_reserved is refused.
BeginRefused(o) ==
  /\ stage[o] = "accepted"
  /\ GoTo(o, "givingUp")
  /\ UNCHANGED <<journalVars, gateVars, job, doing, result, commands, cliVars, processVars, faults>>

MarkExecuting(o) ==
  /\ stage[o] \in {"entered", "recorded"}
  /\ Journal!SetStatus(o, "Executing")
  /\ GoTo(o, IF stage[o] = "entered" THEN "deciding" ELSE "issuing")
  /\ UNCHANGED <<gateVars, job, doing, result, commands, cliVars, processVars, faults>>

-------------------------------------------------------------------------------
(* run_locked: what the observation allows *)

\* The first command of each kind; a start recreates an absent container and
\* starts it in a second step.
CommandsOf(kind) == IF kind = "start" THEN {"create", "start"} ELSE {kind}

RecordCommand(o) ==
  /\ \/ stage[o] = "deciding" /\ doing' \in {[doing EXCEPT ![o] = c] : c \in CommandsOf(Kind(o))}
     \/ stage[o] = "created" /\ doing' = [doing EXCEPT ![o] = "start"]
  /\ Journal!RecordStep(o, Len(step[o]) + 1, 1)
  /\ commands' = [commands EXCEPT ![o] = @ \cup {doing'[o]}]
  /\ GoTo(o, "recorded")
  /\ UNCHANGED <<gateVars, job, result, cliVars, processVars, faults>>

\* Ownership, configuration, storage or artifact do not allow the command.
\* A restart of an absent container is refused in favour of a start.
Refuse(o) ==
  /\ stage[o] = "deciding"
  /\ \/ Journal!SetStatus(o, "Failed")
     \/ Kind(o) # "restart" /\ Journal!SetStatus(o, "OutcomeUnknown")
  /\ GoTo(o, "givingUp")
  /\ UNCHANGED <<gateVars, job, doing, result, commands, cliVars, processVars, faults>>

\* An absent container is stopped already.
AlreadyStopped(o) ==
  /\ stage[o] = "deciding"
  /\ Kind(o) = "stop"
  /\ GoTo(o, "completing")
  /\ UNCHANGED <<journalVars, gateVars, job, doing, result, commands, cliVars, processVars, faults>>

\* wait_ready after a start or restart, observe after a stop.
Verify(o) ==
  /\ stage[o] = "verifying"
  /\ \/ GoTo(o, "completing") /\ UNCHANGED journalVars
     \/ /\ \/ Journal!SetStatus(o, "OutcomeUnknown")
           \/ Kind(o) # "stop" /\ Journal!SetStatus(o, "Failed")
        /\ GoTo(o, "givingUp")
  /\ UNCHANGED <<gateVars, job, doing, result, commands, cliVars, processVars, faults>>

-------------------------------------------------------------------------------
(* One external command under DockerCli, of a worker or of a retry *)

Launch(t) ==
  /\ stage[t] = "issuing"
  /\ ~Running
  /\ ~blocked
  /\ live' = live \cup {<<Job(t), Len(step[Job(t)])>>}
  /\ GoTo(t, "running")
  /\ UNCHANGED <<journalVars, gateVars, job, doing, result, commands, blocked, processVars, faults>>

\* The checks ahead of a create or start fail, DockerCli is blocked, or the
\* process cannot be spawned.
NotLaunched(t) ==
  /\ stage[t] = "issuing"
  /\ \E r \in IF doing[t] \in {"create", "start"} THEN {"failed", "unknown"} ELSE {"unknown"} :
       result' = [result EXCEPT ![t] = r]
  /\ GoTo(t, "returned")
  /\ UNCHANGED <<journalVars, gateVars, job, doing, commands, cliVars, processVars, faults>>

\* The CLI ended or was killed at its deadline.  Only a create, and the
\* wait_ready of a retry, can fail conclusively after the command ran.  An
\* error of wait() blocks later changes although the CLI is gone.
CliReturns(t) ==
  /\ stage[t] = "running"
  /\ live' = live \ {<<Job(t), Len(step[Job(t)])>>}
  /\ \E r \in {"succeeded", "failed", "unknown"} :
       /\ r = "failed" => doing[t] = "create" \/ ~Worker(t)
       /\ result' = [result EXCEPT ![t] = r]
       /\ blocked' \in IF r = "unknown" THEN {blocked, TRUE} ELSE {blocked}
  /\ GoTo(t, "returned")
  /\ UNCHANGED <<journalVars, gateVars, job, doing, commands, processVars, faults>>

\* Its end cannot be confirmed: it may still be alive.
CliLost(t) ==
  /\ stage[t] = "running"
  /\ blocked' = TRUE
  /\ result' = [result EXCEPT ![t] = "unknown"]
  /\ GoTo(t, "returned")
  /\ UNCHANGED <<journalVars, gateVars, job, doing, commands, live, processVars, faults>>

\* A retry records every error as unknown.
Outcome(t) == IF Worker(t) \/ result[t] = "succeeded" THEN result[t] ELSE "unknown"

FinishStep(t) ==
  /\ stage[t] = "returned"
  /\ Journal!FinishStep(Job(t), Len(step[Job(t)]), Outcome(t))
  /\ GoTo(t, IF result[t] # "succeeded" THEN "failing"
             ELSE IF ~Worker(t) THEN "completing"
             ELSE IF doing[t] = "create" THEN "created" ELSE "verifying")
  /\ UNCHANGED <<gateVars, job, doing, result, commands, cliVars, processVars, faults>>

Fail(t) ==
  /\ stage[t] = "failing"
  /\ Journal!SetStatus(Job(t), IF result[t] = "failed" THEN "Failed" ELSE "OutcomeUnknown")
  /\ GoTo(t, ErrorStage(t))
  /\ UNCHANGED <<gateVars, job, doing, result, commands, cliVars, processVars, faults>>

\* LifecycleState::complete: not checked against operation_steps.
Complete(t) ==
  /\ stage[t] = "completing"
  /\ IF Journal!Is(Job(t), {"Executing"}) /\ lifecycle[operation[Job(t)].instance] = "managed"
     THEN /\ Journal!WriteStatus(Job(t), "Succeeded")
          /\ GoTo(t, "leaving")
     ELSE /\ UNCHANGED <<operation, failure>>
          /\ GoTo(t, ErrorStage(t))
  /\ UNCHANGED <<lifecycle, revision, step, receipt>>
  /\ UNCHANGED <<gateVars, job, doing, result, commands, cliVars, processVars, faults>>

\* The task's future ends and its ActiveGuard or reservation is dropped.
Leave(t) ==
  /\ stage[t] \in {"leaving", "givingUp"}
  /\ Gate!DropGuard(t)
  /\ GoTo(t, IF stage[t] = "givingUp" THEN "fallback" ELSE IF Worker(t) THEN "done" ELSE Idle)
  /\ job' = [q \in Recoverers |-> IF q = t THEN NoOperation ELSE job[q]]
  /\ doing' = [doing EXCEPT ![t] = "none"]
  /\ result' = [result EXCEPT ![t] = "none"]
  /\ UNCHANGED <<journalVars, commands, cliVars, processVars, faults>>

FallbackOnAnyStatus(o) ==
  /\ stage[o] = "fallback"
  /\ Journal!WriteStatus(o, "OutcomeUnknown")
  /\ GoTo(o, "done")
  /\ UNCHANGED <<lifecycle, revision, step, receipt>>
  /\ UNCHANGED <<gateVars, job, doing, result, commands, cliVars, processVars, faults>>

FallbackForExecutingOnly(o) ==
  /\ stage[o] = "fallback"
  /\ IF Journal!Is(o, {"Executing"})
     THEN Journal!WriteStatus(o, "OutcomeUnknown")
     ELSE UNCHANGED <<operation, failure>>
  /\ GoTo(o, "done")
  /\ UNCHANGED <<lifecycle, revision, step, receipt>>
  /\ UNCHANGED <<gateVars, job, doing, result, commands, cliVars, processVars, faults>>

\* The worker's last resort, after its guard is gone.
Fallback(o) ==
  /\ stage[o] = "fallback"
  /\ IF Journal!Is(o, {"Accepted", "Executing"})
     THEN Journal!WriteStatus(o, "OutcomeUnknown")
     ELSE UNCHANGED <<operation, failure>>
  /\ GoTo(o, "done")
  /\ UNCHANGED <<lifecycle, revision, step, receipt>>
  /\ UNCHANGED <<gateVars, job, doing, result, commands, cliVars, processVars, faults>>

-------------------------------------------------------------------------------
(* retry_operation: a recovery command on one operation *)

Enter(q, o) ==
  /\ up /\ stage[q] = Idle
  /\ Journal!Recorded(o)
  /\ Gate!Enter(q, operation[o].instance)
  /\ job' = [job EXCEPT ![q] = o]
  /\ GoTo(q, "inspecting")
  /\ UNCHANGED <<journalVars, doing, result, commands, cliVars, processVars, faults>>

PermitsAnything(o) == ~blocked /\ ~Running
ForgetsLostCli(o) ==
  /\ o \in inherited => ~Journal!HasStep(o, {Journal!Open, "unknown"})
  /\ ~Running

\* RecoverySession::permits and DockerCli::termination_verified.
PreviousCliExited(o) ==
  /\ o \in inherited => ~Journal!HasStep(o, {Journal!Open, "unknown"})
  /\ ~blocked
  /\ ~Running

\* classify_recovery: Ready after a start or restart command, Stopped or
\* Absent after a stop command.
Completable(o) ==
  CASE Kind(o) = "stop" -> "stop" \in commands[o]
    [] OTHER -> commands[o] \cap {"start", "restart"} # {}

RetryAllowed(o) ==
  /\ Kind(o) = "start"
  /\ operation[o].status = "Failed"
  /\ step[o] # <<>>
  /\ ~Journal!HasStep(o, {Journal!Open})

Abandonable(o) == ~Journal!HasStep(o, {Journal!Open, "unknown"})

\* inspect_locked, and the choice the caller named if it is among the actions
\* found; any other evidence, or a stale view, ends the command.
Inspect(q) ==
  /\ stage[q] = "inspecting"
  /\ LET o == job[q]
         paused == Journal!Is(o, Journal!Paused) /\ PreviousCliExited(o) IN
     \/ paused /\ Completable(o) /\ GoTo(q, "resuming")
     \/ paused /\ RetryAllowed(o) /\ operation[o].attempt < MaxAttempt /\ GoTo(q, "retrying")
     \/ paused /\ Abandonable(o) /\ GoTo(q, "abandoning")
     \/ GoTo(q, "leaving")
  /\ UNCHANGED <<journalVars, gateVars, job, doing, result, commands, cliVars, processVars, faults>>

\* complete, first transaction.
Resume(q) ==
  /\ stage[q] = "resuming"
  /\ Journal!SetStatus(job[q], "Executing")
  /\ GoTo(q, "completing")
  /\ UNCHANGED <<gateVars, job, doing, result, commands, cliVars, processVars, faults>>

\* retry: the next attempt, then its only step, a start.
Retry(q) ==
  /\ stage[q] = "retrying"
  /\ RetryAllowed(job[q])
  /\ Journal!Retry(job[q])
  /\ doing' = [doing EXCEPT ![q] = "start"]
  /\ GoTo(q, "retried")
  /\ UNCHANGED <<gateVars, job, result, commands, cliVars, processVars, faults>>

RecordRetryWaiting(q) ==
  /\ stage[q] = "retried"
  /\ LET o == job[q] IN
     /\ Journal!RecordStep(o, Len(step[o]) + 1, operation[o].attempt)
     /\ commands' = [commands EXCEPT ![o] = @ \cup {"start"}]
     /\ GoTo(q, "issuing")
  /\ UNCHANGED <<gateVars, job, doing, result, cliVars, processVars, faults>>

RecordRetry(q) ==
  /\ stage[q] = "retried"
  /\ LET o == job[q] IN
     IF Journal!Is(o, {"Accepted", "Executing"})
     THEN /\ Journal!RecordStep(o, Len(step[o]) + 1, operation[o].attempt)
          /\ commands' = [commands EXCEPT ![o] = @ \cup {"start"}]
          /\ GoTo(q, "issuing")
     ELSE /\ GoTo(q, "leaving")
          /\ UNCHANGED <<journalVars, commands>>
  /\ UNCHANGED <<gateVars, job, doing, result, cliVars, processVars, faults>>

Abandon(q) ==
  /\ stage[q] = "abandoning"
  /\ Journal!Abandon(job[q], operation[job[q]].attempt)
  /\ GoTo(q, "leaving")
  /\ UNCHANGED <<gateVars, job, doing, result, commands, cliVars, processVars, faults>>

-------------------------------------------------------------------------------
(* The database, the application and orphaned CLIs *)

\* A journal call of the task fails (disk full, worker gone): nothing is
\* written and the error ends the task.
StoreFails(t) ==
  /\ faults < MaxFaults
  /\ faults' = faults + 1
  /\ \/ /\ stage[t] \in {"entered", "deciding", "recorded", "created", "returned", "failing",
                         "verifying", "completing", "resuming", "retrying", "retried", "abandoning"}
        /\ GoTo(t, ErrorStage(t))
     \/ stage[t] = "fallback" /\ GoTo(t, "done")
  /\ UNCHANGED <<journalVars, gateVars, job, doing, result, commands, cliVars, processVars>>

\* The process ends, at any point: by a crash, or by main.rs after shutdown()
\* has answered (the waiting is OperationRunner's; here the gate is open until
\* the end).  Only the database and the CLIs it was running survive.
Exit ==
  /\ up /\ exits < MaxExits
  /\ exits' = exits + 1
  /\ up' = FALSE
  /\ reservations' = 0 /\ instances' = {}
  /\ guard' = [t \in Tasks |-> NoClaim]
  /\ stage' = [t \in Tasks |-> IF Worker(t) /\ Journal!Recorded(t) THEN "done" ELSE Idle]
  /\ job' = [q \in Recoverers |-> NoOperation]
  /\ doing' = [t \in Tasks |-> "none"]
  /\ result' = [t \in Tasks |-> "none"]
  /\ blocked' = FALSE
  /\ UNCHANGED <<journalVars, closing, shutdown, notified, expired, commands, live, inherited, faults>>

\* main.rs: recover_on_startup, then CreateBackend::new captures the session.
Restart ==
  /\ ~up
  /\ up' = TRUE
  /\ Journal!RecoverOnStartup
  /\ inherited' = {o \in Operations : Journal!Unresolved(o)}
  /\ UNCHANGED <<gateVars, taskVars, commands, cliVars, exits, faults>>

\* A CLI that nobody supervises any more ends by itself.
OrphanEnds ==
  /\ \E c \in live :
       /\ \A t \in Tasks : stage[t] = "running" => c[1] # Job(t)
       /\ live' = live \ {c}
  /\ UNCHANGED <<journalVars, gateVars, taskVars, commands, blocked, processVars, faults>>

-------------------------------------------------------------------------------

WorkerStep(o) ==
  \/ Accept(o) \/ AcceptRefused(o)
  \/ Begin(o) \/ BeginRefused(o) \/ MarkExecuting(o)
  \/ RecordCommand(o) \/ Refuse(o) \/ AlreadyStopped(o) \/ Verify(o)
  \/ Fallback(o)

CommandStep(t) ==
  \/ Launch(t) \/ NotLaunched(t) \/ CliReturns(t) \/ CliLost(t)
  \/ FinishStep(t) \/ Fail(t) \/ Complete(t) \/ Leave(t)

RecoveryStep(q) ==
  \/ Inspect(q) \/ Resume(q) \/ Retry(q) \/ RecordRetry(q) \/ Abandon(q)

Next ==
  \/ \E o \in Operations : Reserve(o) \/ WorkerStep(o)
  \/ \E t \in Tasks : CommandStep(t) \/ StoreFails(t)
  \/ \E q \in Recoverers : RecoveryStep(q) \/ \E o \in Operations : Enter(q, o)
  \/ Exit \/ Restart \/ OrphanEnds

Spec == Init /\ [][Next]_vars

\* Every awaited call returns: the CLI is killed at its deadline, readiness
\* is polled for READY_DEADLINE, and the database answers.
FairSpec ==
  /\ Spec
  /\ \A o \in Operations : WF_vars(WorkerStep(o) \/ CommandStep(o))
  /\ \A q \in Recoverers : WF_vars(RecoveryStep(q) \/ CommandStep(q))

-------------------------------------------------------------------------------
(* Properties *)

\* No change command is issued for an instance while another one may still be
\* alive, through lost CLIs, retries, new operations and restarts of the
\* application, which forgets both its gate and DockerCli.blocked.
OneChangeCli ==
  \A c, d \in live : operation[c[1]].instance = operation[d[1]].instance => c = d

\* A change CLI that may be alive is never forgotten: its operation is still
\* unresolved and its step is the last one, without a conclusive outcome.
LiveCliIsOwned ==
  \A c \in live :
    /\ Journal!Unresolved(c[1])
    /\ c[2] = Len(step[c[1]])
    /\ step[c[1]][c[2]].outcome \in {Journal!Open, "unknown"}

\* Between their admission and their end no two tasks, workers and recovery
\* commands alike, work on the same instance.
Inside(t) == stage[t] \notin {Idle, "reserved", "accepted", "givingUp", "fallback", "done"}
OneTaskPerInstance ==
  \A t, u \in Tasks :
    Inside(t) /\ Inside(u) /\ operation[Job(t)].instance = operation[Job(u)].instance => t = u

\* Changes of an instance never overlap, neither their tasks nor what these
\* leave behind in Docker.
OneChangeAtATime == OneChangeCli /\ OneTaskPerInstance

\* Every write of the workers, of recovery and of their completions is a
\* legal step of the journal; in particular nothing succeeds with an effect
\* in doubt.  True as long as no journal call has failed.
FollowsJournal == [][faults' = 0 => Journal!Next]_journalVars

\* An instance is given to a new operation only, and only when no other has it;
\* an operation gives it up once and never has it again, whatever fallback,
\* recovery and restart do to its status.  True even after failed journal calls.
KeepsOwnership == [][Journal!Changes!Next]_(Journal!Changes!changesVars)

\* As long as the database answers, a begun operation has a task at work on
\* it: none is left Executing, or Accepted by this process, with nobody to
\* settle it.
Working(o) ==
  \/ stage[o] \notin {Idle, "reserved", "done"}
  \/ \E q \in Recoverers : job[q] = o /\ stage[q] # Idle
NobodyIsForgotten ==
  up /\ faults = 0 =>
    \A o \in Operations :
      Journal!Is(o, {"Executing"}) \/ (Journal!Is(o, {"Accepted"}) /\ o \notin inherited) => Working(o)

\* Every accepted operation is settled, one way or another, by the process
\* that accepted it.
AcceptedIsSettled ==
  \A o \in Operations :
    Journal!Is(o, {"Accepted"}) ~> Journal!Is(o, Journal!Closed \cup Journal!Paused)

\* A recovery command returns.
RecoveryReturns ==
  \A q \in Recoverers : stage[q] # Idle ~> stage[q] = Idle

\* clone-policy-spec.md: an application that died leaves OutcomeUnknown.
StartupLeavesNothingPending ==
  up => \A o \in inherited : ~Journal!Is(o, {"Accepted"})

===============================================================================
