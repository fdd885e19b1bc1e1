--------------------------- MODULE ExternalRecovery ----------------------------
(***************************************************************************)
(* Restoration of an instance whose generated files were edited: the       *)
(* production path of crates/adapters/src/recovery_actions.rs over         *)
(* external_recovery.rs and external_recovery_state.rs, with the evidence  *)
(* recovery_view.rs collects.  The user reviews the edited files and       *)
(* confirms them by their hash; the operation archives exactly those,      *)
(* publishes a fresh artifact of the saved spec, makes the container that  *)
(* of the saved spec and selects the artifact.  The user edits files and   *)
(* uses Docker meanwhile, a CLI may outlive its deadline or its process,   *)
(* and the process may die between any two steps.                          *)
(***************************************************************************)
EXTENDS ArtifactStore, Integers, Sequences, SequencesExt

CONSTANTS
  MaxBox,      \* bound on the containers that ever exist
  MaxAttempt   \* bound on the attempts of an operation

ASSUME RecoveryAssumption == MaxBox \in Nat \ {0} /\ MaxAttempt \in Nat \ {0}

VARIABLES
  op,          \* the rows of operations, external_recoveries, operation_steps
  selected,    \* selected_artifact of the applied spec
  made,        \* made[n] is the configuration container n was created with
  box,         \* the project's container: its number, 0 without one, and if it runs
  cli,         \* the docker compose command that changes the container, of which
               \* OneChangeCli shows there is one: its operation and step tell it
               \* from any other, also from the same command once more
  unconfirmed, \* a command of this process was given up and not seen to end
  inherited,   \* RecoverySession.inherited
  worker       \* the request that holds the instance gate

opVars == <<op, selected>>
dockerVars == <<made, box, cli>>
sessionVars == <<unconfirmed, inherited, worker>>
vars == <<storeVars, opVars, dockerVars, sessionVars>>

NoOp == [status |-> "none"]
NoCli == [o |-> Original, step |-> 0, kind |-> "none", box |-> 0, end |-> "ok"]
Idle == [o |-> Original, at |-> "idle", box |-> 0, fresh |-> FALSE]

Init ==
  /\ StoreInit
  /\ op = [o \in Operations |-> NoOp]
  /\ selected = Original
  /\ \E config \in {"saved", "edited"} : made = <<config>>
  /\ box = [id |-> 1, up |-> FALSE]
  /\ cli = NoCli
  /\ unconfirmed = FALSE /\ inherited = {}
  /\ worker = Idle

Recorded(o) == op[o] # NoOp
Unresolved(o) == Recorded(o) /\ op[o].status \notin {"Succeeded", "Abandoned"}
Settled(s) == s.outcome \in {"succeeded", "failed"}
Saved(id) == id > 0 /\ made[id] = "saved"
Stopped(id) == id > 0 /\ box.id = id /\ ~box.up

NotGivenUp(o) == ~unconfirmed
\* RecoverySession::permits and DockerCli::termination_verified.
PreviousCliExited(o) ==
  /\ ~unconfirmed
  /\ o \in inherited => \A n \in DOMAIN op[o].steps : Settled(op[o].steps[n])

\* find_container: the number of the project's one container, or none.
ProjectBox == box.id

Goto(at) == worker' = [worker EXCEPT !.at = at]

\* fail: an error pauses the operation and releases the gate.  Nothing here
\* tells Failed, AwaitingDecision and OutcomeUnknown apart.
Fail(o) ==
  /\ op' = [op EXCEPT ![o].status = "Paused"]
  /\ worker' = Idle

-------------------------------------------------------------------------------
(* Review and acceptance *)

\* inspect_locked offers to restore what differs, unless something is under way.
RestoreOffered ==
  /\ Inspectable(selected) /\ ~Verified(selected)
  /\ \A o \in Operations : ~Unresolved(o)
  /\ ~unconfirmed

\* begin_external_recovery.  The original container is the one last observed:
\* any there has been, or none.
BeginRecovery(o) ==
  /\ \A p \in Operations : ~Unresolved(p)
  /\ placement[selected] = "published"
  /\ \E observed \in 0..Len(made) :
       op' = [op EXCEPT ![o] = [status |-> "Accepted", attempt |-> 1, source |-> selected,
               hash |-> Content(selected), original |-> observed, steps |-> <<>>]]

\* recover_locked, restore_external: what was reviewed is refused unless an
\* inspection finds the same now, so it is what is there now that is confirmed.
Confirm(o) ==
  /\ worker = Idle /\ ~Recorded(o)
  /\ RestoreOffered
  /\ BeginRecovery(o)
  /\ worker' = [o |-> o, at |-> "inspect", box |-> 0, fresh |-> FALSE]
  /\ UNCHANGED <<storeVars, selected, dockerVars, unconfirmed, inherited>>

\* recover_locked, retry_external, or the accepted request once more.
Resume(o) ==
  /\ worker = Idle /\ Recorded(o) /\ Unresolved(o)
  /\ worker' = [o |-> o, at |-> "inspect", box |-> 0, fresh |-> FALSE]
  /\ UNCHANGED <<storeVars, opVars, dockerVars, unconfirmed, inherited>>

AbandonModified(o) == TRUE
\* artifact_matches of the evidence: the artifact that stays selected.
ArtifactMatches(o) == Usable(selected)

\* inspect_locked offers it, on the evidence it collected.
AbandonOffered(o) ==
  /\ op[o].status = "Paused" /\ PreviousCliExited(o) /\ ArtifactMatches(o) /\ ProjectBox = 0

\* abandon_operation, on the same evidence.
Abandon(o) ==
  /\ worker = Idle /\ Recorded(o) /\ AbandonOffered(o)
  /\ \A n \in DOMAIN op[o].steps : Settled(op[o].steps[n])
  /\ op' = [op EXCEPT ![o].status = "Abandoned"]
  /\ UNCHANGED <<storeVars, selected, dockerVars, sessionVars>>

-------------------------------------------------------------------------------
(* restore_locked: evidence and reconciliation *)

AnyIdentity(o, id) == TRUE
\* verify_runtime_identity: the container of the acceptance, or one that a
\* recorded creation of this operation may have made.
IdentityHolds(o, id) ==
  \/ id = op[o].original
  \/ id = 0   \* the original container is gone: another one would be listed
  \/ /\ \E n \in DOMAIN op[o].steps : op[o].steps[n].kind = "create"
     /\ Saved(id) /\ Stopped(id)

Inspect(o) ==
  /\ worker.o = o /\ worker.at = "inspect"
  /\ PreviousCliExited(o) /\ IdentityHolds(o, ProjectBox)
  /\ op' = [op EXCEPT ![o].status = IF @ = "Accepted" THEN @ ELSE "Paused"]
  /\ worker' = [worker EXCEPT !.at = "reconcile", !.box = ProjectBox]
  /\ UNCHANGED <<storeVars, selected, dockerVars, unconfirmed, inherited>>

\* The evidence is missing, or the storage or a Docker read is not confirmed.
InspectFails(o) ==
  /\ worker.o = o /\ worker.at = "inspect"
  /\ Fail(o)
  /\ UNCHANGED <<storeVars, selected, dockerVars, unconfirmed, inherited>>

Steps(o) == op[o].steps
Unsettled(o, kinds) ==
  /\ Steps(o) # <<>> /\ ~Settled(Last(Steps(o))) /\ Last(Steps(o)).kind \in kinds
WithOutcome(o, outcome) ==
  [op EXCEPT ![o].steps[Len(Steps(o))].outcome = outcome]
Outcome(success) == IF success THEN "succeeded" ELSE "failed"

\* reconcile_steps, a step of Docker: what the container shows settles it.
ReconcileBox(o) ==
  /\ worker.o = o /\ worker.at = "reconcile"
  /\ LET id == worker.box
     IN \/ /\ Unsettled(o, {"stop"}) /\ id = Last(Steps(o)).box
           /\ op' = WithOutcome(o, Outcome(Stopped(id)))
        \/ /\ Unsettled(o, {"create", "observe"})
           /\ op' = WithOutcome(o, Outcome(Saved(id) /\ Stopped(id)))
  /\ UNCHANGED <<storeVars, selected, dockerVars, sessionVars>>

ReconcileOtherBox(o) ==
  /\ worker.o = o /\ worker.at = "reconcile"
  /\ Unsettled(o, {"stop"}) /\ worker.box # Last(Steps(o)).box
  /\ Fail(o)
  /\ UNCHANGED <<storeVars, selected, dockerVars, unconfirmed, inherited>>

\* reconcile_steps, the artifact: archived once more, then verified.
ReconcileArtifact(o) ==
  /\ worker.o = o /\ worker.at = "reconcile" /\ Unsettled(o, {"artifact"})
  /\ Goto("check")
  /\ UNCHANGED <<storeVars, opVars, dockerVars, unconfirmed, inherited>>

\* set_status or retry, and the intent of GenerateArtifact.
Execute(o) ==
  /\ worker.o = o /\ worker.at = "reconcile"
  /\ \A n \in DOMAIN Steps(o) : Settled(Steps(o)[n])
  /\ op[o].status = "Accepted" \/ op[o].attempt < MaxAttempt
  /\ op' = [op EXCEPT ![o].status = "Executing",
                      ![o].attempt = IF op[o].status = "Accepted" THEN @ ELSE @ + 1,
                      ![o].steps = Append(@, [kind |-> "artifact", box |-> 0, outcome |-> "open"])]
  /\ Goto("check")
  /\ UNCHANGED <<storeVars, selected, dockerVars, unconfirmed, inherited>>

-------------------------------------------------------------------------------
(* GenerateArtifact: archive_external and publish, step by step *)

Executing(o) == op[o].status = "Executing"
At(o, at) == worker.o = o /\ worker.at = at

\* An error during an effect: the step is unknown and so, or failed, is the
\* operation.  During reconciliation the step stays as it is.
EffectFails(o) ==
  /\ op' = [op EXCEPT ![o].status = "Paused",
                      ![o].steps = IF Executing(o) /\ Unsettled(o, {"artifact", "stop", "create"})
                                   THEN [@ EXCEPT ![Len(@)].outcome = "unknown"] ELSE @]
  /\ worker' = Idle

ArchiveStep(o) ==
  LET source == op[o].source
      hash == op[o].hash
  IN \/ /\ At(o, "check") /\ ArchiveCheck(o, source, hash)
        /\ Goto(IF MayMove(o, source, hash) THEN "move" ELSE "retain")
        /\ UNCHANGED <<storeVars, op>>
     \/ /\ At(o, "move") /\ CanMove(o, source) /\ Move(o, source)
        /\ Goto("retain") /\ UNCHANGED op
     \/ /\ At(o, "retain") /\ MayRetain(o, hash) /\ Retain(source)
        /\ Goto(IF Executing(o) THEN "record" ELSE "settle") /\ UNCHANGED op

\* Any other hash, two copies or an I/O error: PortEditError::Rejected.
ArchiveFails(o) ==
  /\ worker.o = o /\ worker.at \in {"check", "move", "retain"}
  /\ EffectFails(o) /\ UNCHANGED storeVars

PublishStep(o) ==
  \/ /\ At(o, "record") /\ RecordArtifact(o) /\ Goto("target") /\ UNCHANGED op
  \/ /\ At(o, "target") /\ MustStage(o) /\ BeginStage(o) /\ Goto("write") /\ UNCHANGED op
  \/ /\ At(o, "target") /\ live[o] # NoFiles /\ Goto("verify") /\ UNCHANGED <<storeVars, op>>
  \/ /\ At(o, "write") /\ EndStage(o) /\ Goto("rename") /\ UNCHANGED op
  \/ /\ At(o, "rename") /\ TargetIsFree(o) /\ MoveStage(o) /\ Goto("verify") /\ UNCHANGED op
  \/ /\ At(o, "verify") /\ Verified(o) /\ Goto("mark") /\ UNCHANGED <<storeVars, op>>
  \/ /\ At(o, "mark") /\ CanMark(o) /\ MarkPublished(o)
     /\ Goto("finish") /\ UNCHANGED op
  \/ /\ At(o, "finish")
     /\ op' = WithOutcome(o, "succeeded") /\ Goto("runtime") /\ UNCHANGED storeVars

PublishFails(o) ==
  /\ worker.o = o /\ worker.at \in {"record", "target", "write", "rename", "verify", "mark", "finish"}
  /\ EffectFails(o) /\ UNCHANGED storeVars

\* The end of a reconciled GenerateArtifact.
SettleArtifact(o) ==
  /\ At(o, "settle")
  /\ op' = WithOutcome(o, Outcome(Usable(o)))
  /\ Goto("reconcile") /\ UNCHANGED storeVars

GenerateArtifact(o) ==
  /\ \/ ArchiveStep(o) \/ ArchiveFails(o) \/ PublishStep(o) \/ PublishFails(o)
     \/ SettleArtifact(o)
  /\ UNCHANGED <<selected, dockerVars, unconfirmed, inherited>>

-------------------------------------------------------------------------------
(* restore_runtime *)

\* Effects::run: the intent, then the command.
Spawn(o, kind, id, at) ==
  /\ op' = [op EXCEPT ![o].steps = Append(@, [kind |-> kind, box |-> id, outcome |-> "open"])]
  /\ cli' = [o |-> o, step |-> Len(Steps(o)) + 1, kind |-> kind, box |-> id, end |-> "running"]
  /\ Goto(at)

\* A container of the saved spec stays; any other is stopped first.
Runtime(o) ==
  /\ At(o, "runtime") /\ Usable(o)
  /\ \/ /\ worker.box = 0 /\ Goto("recreate") /\ UNCHANGED <<op, cli>>
     \/ /\ worker.box > 0 /\ box.id = worker.box /\ Saved(box.id)
        /\ Goto("final") /\ UNCHANGED <<op, cli>>
     \/ /\ worker.box > 0 /\ box.id = worker.box /\ ~Saved(box.id)
        /\ Spawn(o, "stop", box.id, "stopping")
  /\ UNCHANGED <<storeVars, selected, made, box, unconfirmed, inherited>>

\* The project still has that container, or none, and it does not run.
Recreate(o) ==
  /\ At(o, "recreate") /\ Usable(o)
  /\ ProjectBox = worker.box /\ ~box.up
  /\ Spawn(o, "create", 0, "creating")
  /\ UNCHANGED <<storeVars, selected, made, box, unconfirmed, inherited>>

\* The command ended well.
CommandDone(o) ==
  /\ worker.o = o /\ cli.end = "ok"
  /\ \/ At(o, "stopping") /\ worker' = [worker EXCEPT !.at = "recreate"]
     \/ At(o, "creating") /\ worker' = [worker EXCEPT !.at = "created"]
  /\ op' = WithOutcome(o, "succeeded")
  /\ cli' = NoCli
  /\ UNCHANGED <<storeVars, selected, made, box, unconfirmed, inherited>>

\* created_container_id: the project has one container again.
Created(o) ==
  /\ At(o, "created") /\ ProjectBox > 0
  /\ worker' = [worker EXCEPT !.at = "final", !.box = ProjectBox, !.fresh = TRUE]
  /\ UNCHANGED <<storeVars, opVars, dockerVars, unconfirmed, inherited>>

\* The command failed, or its deadline passed; then it is killed, or it is
\* not seen to end and may still do its work.
CommandFails(o) ==
  /\ worker.o = o /\ worker.at \in {"stopping", "creating"}
  /\ \/ cli' = NoCli /\ UNCHANGED unconfirmed
     \/ cli.end = "running" /\ unconfirmed' = TRUE /\ UNCHANGED cli
  /\ EffectFails(o)
  /\ UNCHANGED <<storeVars, selected, made, box, inherited>>

AnyFinalBox(o) == box.id = worker.box
FinalBox(o) == box.id = worker.box /\ Saved(box.id) /\ (worker.fresh => ~box.up)

\* The last look, verify_artifact and the intent to record it.
Observe(o) ==
  /\ At(o, "final") /\ worker.box > 0 /\ FinalBox(o) /\ Usable(o)
  /\ op' = [op EXCEPT ![o].steps =
       Append(@, [kind |-> "observe", box |-> box.id, outcome |-> "open"])]
  /\ Goto("observed")
  /\ UNCHANGED <<storeVars, selected, dockerVars, unconfirmed, inherited>>

FinishObserve(o) ==
  /\ At(o, "observed")
  /\ op' = WithOutcome(o, "succeeded")
  /\ Goto("complete")
  /\ UNCHANGED <<storeVars, selected, dockerVars, unconfirmed, inherited>>

\* A look that shows anything else ends the attempt.
RuntimeFails(o) ==
  /\ worker.o = o /\ worker.at \in {"runtime", "recreate", "created", "final"}
  /\ Fail(o)
  /\ UNCHANGED <<storeVars, selected, dockerVars, unconfirmed, inherited>>

\* complete_external_recovery.
Complete(o) ==
  /\ At(o, "complete") /\ Executing(o) /\ placement[o] = "published"
  /\ op' = [op EXCEPT ![o].status = "Succeeded"]
  /\ selected' = o
  /\ worker' = Idle
  /\ UNCHANGED <<storeVars, dockerVars, unconfirmed, inherited>>

-------------------------------------------------------------------------------
(* Docker, the user and the death of the process *)

NewBox(config, up) ==
  /\ Len(made) < MaxBox
  /\ made' = Append(made, config)
  /\ box' = [id |-> Len(made) + 1, up |-> up]

\* Compose reads the files when it runs, not when they were verified.
CliWorks ==
  /\ cli.end = "running"
  /\ \/ /\ cli.kind = "stop" /\ UNCHANGED made
        /\ box' = [box EXCEPT !.up = @ /\ box.id # cli.box]
     \/ /\ cli.kind = "create" /\ live[cli.o] # NoFiles
        /\ NewBox(IF Verified(cli.o) THEN "saved" ELSE "edited", FALSE)
  /\ cli' = [cli EXCEPT !.end = "ok"]
  /\ UNCHANGED <<storeVars, opVars, sessionVars>>

UserUsesDocker ==
  /\ \/ box.id > 0 /\ box' = [box EXCEPT !.up = ~@] /\ UNCHANGED made
     \/ box.id > 0 /\ box' = [id |-> 0, up |-> FALSE] /\ UNCHANGED made
     \/ live[selected] # NoFiles
        /\ NewBox(IF Verified(selected) THEN "saved" ELSE "edited", TRUE)
  /\ UNCHANGED <<storeVars, opVars, cli, sessionVars>>

UserEdits ==
  /\ UserWrites
  /\ UNCHANGED <<opVars, dockerVars, sessionVars>>

\* The process dies and starts again: recover_on_startup, RecoverySession::new.
Restart ==
  /\ op' = [o \in Operations |->
       IF Recorded(o) /\ Executing(o) THEN [op[o] EXCEPT !.status = "Paused"] ELSE op[o]]
  /\ inherited' = {o \in Operations : Unresolved(o)}
  /\ unconfirmed' = FALSE
  /\ worker' = Idle
  /\ UNCHANGED <<storeVars, selected, dockerVars>>

RestoreLocked(o) ==
  \/ Inspect(o) \/ InspectFails(o)
  \/ ReconcileBox(o) \/ ReconcileOtherBox(o) \/ ReconcileArtifact(o)
  \/ Execute(o) \/ GenerateArtifact(o)
  \/ Runtime(o) \/ Recreate(o) \/ CommandDone(o) \/ CommandFails(o) \/ Created(o)
  \/ Observe(o) \/ FinishObserve(o) \/ RuntimeFails(o) \/ Complete(o)

Next ==
  \/ \E o \in Operations : Confirm(o) \/ Resume(o) \/ Abandon(o) \/ RestoreLocked(o)
  \/ CliWorks \/ UserUsesDocker \/ UserEdits \/ Restart

Spec == Init /\ [][Next]_vars

-------------------------------------------------------------------------------
(* Properties *)

\* Only what the user confirmed is set aside: an artifact leaves use when its
\* files, as they were reviewed, are in the archive of a recovery that named it.
RetainedIsConfirmed ==
  \A a \in Artifacts : placement[a] = "retained" =>
    \E o \in Operations : /\ Recorded(o) /\ op[o].source = a
                          /\ archive[o] = op[o].hash

\* What the user wrote into an artifact survives its recovery, and is set aside
\* only as the user saw it when confirming.
UserEditsSurvive == KeepsUserEdits /\ RetainedIsConfirmed

\* Whenever no recovery is under way, the selected artifact is published: an
\* abandoned recovery never leaves an instance whose artifact was archived.
NeverStranded ==
  (\A o \in Operations : ~Unresolved(o)) => placement[selected] = "published"

\* A recovery stops no container but the one that was there when it was
\* accepted, however often it is resumed and whatever the user made meanwhile.
StopsOnlyTheOriginal ==
  \A o \in Operations : Recorded(o) =>
    \A n \in DOMAIN op[o].steps :
      op[o].steps[n].kind = "stop" => op[o].steps[n].box = op[o].original

\* A restored instance was last seen with a container of the saved spec,
\* although Compose reads the files after they were verified.
RestoredRunsSaved ==
  \A o \in Operations : Recorded(o) /\ op[o].status = "Succeeded" =>
    LET last == Last(op[o].steps)
    IN last.kind = "observe" /\ last.outcome = "succeeded" /\ Saved(last.box)

\* No command is started while an earlier one may still change the container,
\* neither another one nor the same once more, and not even after its process
\* died: a live command stays what it is until it has done its work or is seen
\* to have ended.
OneChangeCli == [][cli.end = "running" => cli' = cli \/ cli'.end = "ok"]_vars
================================================================================
