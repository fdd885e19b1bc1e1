# ComposeNest: a TLA+ verification project

ComposeNest is a desktop application (Rust core, Tauri shell, SQLite store) that creates and
operates database containers with Docker Compose from templates.  Everything that changes
Docker or user data goes through a small core: a *change gate* in memory, a *durable operation
journal* in SQLite, *operations* that run one external command at a time and record its intent
and its outcome, and *recovery* of operations whose outcome is in doubt.  That core is what
this project models, checks with TLC and proves with TLAPS.

## 1. Inventory

| Component | Source | State it keeps | Operations | Status |
|---|---|---|---|---|
| change gate | `application/operation_runner.rs` | `closing`, `reservations`, `instances` under a mutex; guards owned by tasks | `run_exclusive`, `reserve`, `run_reserved`, guard drops, `shutdown` | modelled, proved |
| operation journal | `adapters/operation_journal.rs`, migrations 0002, 0003, 0012 | tables `instances`, `operations`, `operation_steps`, `request_receipts`, `operation_failures` | `commit_plan`, `accept`, `record_step`, `finish_step`, `retry`, `set_status`, `recover_on_startup`, `reconcile_step`, `abandon_verified` | modelled, proved |
| lifecycle operation | `application/lifecycle_operation.rs`, `instance_actions.rs`, `adapters/lifecycle_stages.rs`, `lifecycle_state.rs`, `instance_commands.rs` | the progress of a detached worker | start, stop, restart | modelled, proved |
| operation recovery | `operation_recovery.rs`, `recovery_view.rs`, `recovery_actions.rs` | `RecoverySession.inherited` | inspect, complete, retry, abandon; propose, confirm, retry, restore, reconcile ports | modelled, proved |
| Docker CLI supervision | `adapters/docker_cli.rs`, `docker_create.rs` | `gate`, `blocked`, child processes | one change command at a time, deadline, confirmation of its end | as far as the operations use it |
| create and clone operation | `create_operation.rs`, `create_stages.rs`, `create_state.rs`, `create_commands.rs` | steps of the operation, `may_have_initialized` | eight stages from storage to Ready | modelled (storage slots of one operation taken as one), proved |
| storage ledger | `storage.rs`, `storage/unix.rs`, `storage/windows.rs`, `named_volumes.rs` | presence and ownership of each data allocation, directories with their evidence, volumes | prepare, observe, verify | modelled |
| delete operation | `delete_operation.rs`, `delete_stages.rs`, `docker_delete.rs`, `delete_state.rs` | `retiring` / `retired` instances, retained storage | remove owned runtime, check storage, retire | modelled, proved |
| port edit, port recovery | `port_edit_state.rs`, `port_edit_stages.rs`, `port_recovery.rs` | pending change, held reservations, two spec revisions | begin, confirm, finish, restore, abandon | modelled, proved |
| external recovery | `external_recovery.rs`, `external_recovery_state.rs` | operation of kind `recover`, the confirmed hash and container | begin, restore, reconcile, complete, abandon | modelled, proved |
| state store | `state_store.rs` | scopes, targets, specs, allocations, port reservations | register, rename, reserve | an instance's life, revision, bindings and reservations, its insertion and what a clone reads of it |
| database worker | `sqlite.rs` | one thread, an unbounded channel of jobs, the backend lock, backups | start (backup, migrate), read, write, drop | modelled |
| artifact store | `artifact_store.rs`, `artifact_store/external.rs` | staged and published directories | publish, verify, mark, archive, retain | modelled, proved |
| planning sessions | `create_plan.rs`, `clone_plan.rs`, `clone_plan/*`, `create_session.rs`, `clone_session.rs`, `instance_edit.rs` | plans in memory, with expiry | prepare, update, view, confirm, discard, expire | modelled, except naming, template loading and `instance_edit.rs`; the sessions proved |
| clone policy, host ports | `domain/clone_policy.rs`, `clone_plan/evaluation.rs`, `host_ports.rs` (both crates) | a field's state; a cursor between calls | decide what a clone copies; choose ports | modelled |
| log subscription | `log_subscription.rs`, `logs.rs` | sessions with a capacity and an expiry, one stream each | subscribe, get, unsubscribe, expire, shutdown; mask, cut, count | modelled, proved |
| templates, compose text | `template_*`, `domain/template`, `domain/compose.rs` | none | parse, validate, generate text | not modelled: strings and files |
| queries, observation, images, retained list | `query_service.rs`, `docker_observation.rs`, `docker_target.rs`, `image_*`, `retained_storage.rs` | none of their own | read | not modelled, but for the look at retained bind storage: their results are free choices of the models |
| desktop shell | `main.rs`, `*_commands.rs` | process life | startup, exit, commands | startup, exit, the lifecycle, planning and log commands |
| frontend | `apps/desktop/src` | view state | display, forms | not modelled |

How they interact.  A command reserves a place at the gate, lets the journal accept the change
(one transaction: operation row, receipt, instance), answers the user, and leaves a detached
worker behind.  The worker spends the reservation on the accepted instance, then alternates
journal transactions and Docker commands; every command's intent is recorded before it is
issued and its outcome after.  An operation that ends badly is Failed or OutcomeUnknown and
keeps its instance locked until a recovery command, admitted by the same gate, completes,
retries or abandons it from fresh evidence.  At startup every Executing operation becomes
OutcomeUnknown, and the set of unresolved operations is remembered as *inherited*: the CLIs
they were running may still be alive, and nothing in memory knows.

What is hard here, and where: the two admission paths of the gate and shutdown's condition
variable; acceptance races and repeated requests; an effect whose answer is lost, late, or
overtaken by a retry; the worker's fallback, which runs after its guard is gone; a crash
between any two transactions, with a CLI alive; a journal call that fails in the middle;
other users of Docker, who create, start, stop and remove objects between a check and the
command it licenses; a user who edits the files of an instance while they are archived and
replaced; plans in memory that go stale between the view the user reviewed and the commit; a
port search spread over calls; a log session that ends while it starts; a database thread that
dies alone.
PROJECT.json lists them as hazards, each at its line with the properties that would catch it.

## 2. Modules

| Module | What it is |
|---|---|
| `ChangeGate` | abstract: claims on capacity and instances |
| `OperationRunner` | the gate, one action per critical section; implements `ChangeGate` |
| `InstanceChanges` | abstract: exclusive, once-only ownership of an instance |
| `OperationJournal` | the journal, one action per transaction; implements `InstanceChanges` |
| `OperationJournalProofs` | its theorems |
| `LifecycleOperation` | workers and recovery commands over the gate, the journal and the CLI, with crashes |
| `LifecycleOperationProofs` | its theorems |
| `DeleteOperation` | the deletion of an instance over the journal and a Docker that others use too |
| `DeleteOperationProofs` | its theorems |
| `NamedVolume` | the ledger and the volume of one named-volume allocation |
| `PortLedger` | revisions, reservations and the pending change of one instance, one action per transaction |
| `Provisioning` | creation, port edit and the recovery of both over the journal, the ledger and Docker |
| `ProvisioningProofs` | the ledger's theorems, that Provisioning implements the ledger's transactions, and its own |
| `Planning` | create and clone plans from the first preview to the worker's start, over the instances they create |
| `PlanningProofs` | its theorems |
| `ArtifactStore` | the files of artifacts: live, staged, archived |
| `ExternalRecovery` | recovery of an instance changed by hand, over `ArtifactStore` and Docker |
| `ExternalRecoveryProofs` | its theorems, with those of its files |
| `LogSessions` | log sessions and the supervision of their CLIs |
| `LogDecoder` | masking of secrets, lines and budgets of a log |
| `LogProofs` | the theorems of both |
| `HostPorts` | the search for host ports, call by call |
| `ClonePolicy` | abstract: evaluation, answer and confirmation of one cloned field |
| `CloneFields` | the fields of a clone plan through versions of a template; implements `ClonePolicy` within one version |
| `DatabaseWorker` | the database of a management root in two processes: lock, backup, migrations, jobs |
| `BindStorage` | the directories and evidence of bind storage |
| `MCParts` | the six components that are checked on their own, one per behaviour |
| `PartsProofs` | the theorems of the gate and of the components of `MCParts` but `LogDecoder`, one section each |
| other `MC*` | symmetry sets and instances for TLC |

**OperationRunner.**  `closing`, `reservations` and `instances` are the fields of `Active`;
`guard[c]` is the guard object a caller owns (`ActiveGuard` or a reservation, bound or not).
A refusal changes nothing, so it is a disabled action; what a refused `run_reserved` does (drop
the reservation) is `DropGuard`.  The condition variable is `notified` (a `notify_all` not yet
consumed) and the timeout is `expired`.  `run_step` has no production caller; it is `Enter`
followed by `DropGuard`.

**OperationJournal.**  The database worker runs one transaction at a time, so a method is one
action and a refused call is a disabled one.  `operation[o]` and `receipt[r]` are rows,
`step[o]` the rows of `operation_steps` by sequence, `failure` the table a trigger fills.
`Next` lets callers name any operation, attempt, sequence and revision, with one exception
taken from the callers: a delete is never reported Succeeded by `set_status`.  Two
transactions of other stores that change an instance under the journal are included (`Rename`
and `CompleteDelete`).  Not included: the completions written by `lifecycle_state.rs` (it is in
`LifecycleOperation`), `create_state.rs`, `port_edit_state.rs` and `external_recovery_state.rs`,
and the acceptances of the last two, which write operation rows of their own.

**LifecycleOperation.**  A task is a worker, named by its operation, or a recovery command.
`stage[t]` is the await or call the task has reached, so every journal call, CLI run and guard
drop is a step of its own and everything may happen in between.  The actions of the gate and
the journal are reused through INSTANCE.  Docker's containers can be changed by anybody, so
none are modelled: an observation may come out any way the code distinguishes.  What is kept of
the outside is `live`, the change CLIs that may still be running.  `Exit` ends the process at
any point, losing the gate, the tasks and `DockerCli.blocked` but neither the tables nor the
CLIs; `Restart` is `recover_on_startup` and the capture of the inherited operations.  A CLI
nobody supervises ends by itself some time, or never.  `StoreFails` lets a journal call fail.

**DeleteOperation.**  One worker, one instance, and the containers and networks of a Docker
that others use.  `stage` is the place in `run_locked`, `delete_stages.rs` or
`docker_delete.rs`; `found` and `todo` are the lists the removal works from.  An object's
labels never change, so `origin` is fixed: `own` carries all labels of the instance, `mimic` is
found by some filter and refused by `inspect`, `other` is found by none.  `OtherUser` creates,
starts, stops, removes, connects and disconnects objects between any two steps.  A command is a
member of `requests` from the moment its CLI runs until the daemon serves it, which may be
after the CLI was killed (`CliFails`).  Two things are abstracted: a list by several filters is
one read per kind of object, and the result of the storage check is free.  The gate around the
worker is in `OperationRunner`.  The desktop never repeats a delete; `Repeats` adds the callers
the crate is written for (its tests do it), who settle the steps that have no request left and
call `run_delete` again.

**NamedVolume.**  `presence` and `steps` are the rows of one allocation, `volume`, `serial` and
`sent` what Docker has under its name and what it still has to serve.  `Call`, `Inspect` and
the actions after them are the statements of `ensure`, `inspect_only` and
`observe_saved_volume` in their order; `Interrupt` cuts any of them off.  A CLI that ended by
itself leaves no request behind.  `NextAttempt` is a retry by a caller of the crate:
production code makes one attempt.

**PortLedger.**  `bindings` are the revisions of `instance_specs` with their ports, `applied`
is `applied_spec_revision`, `reservation[p]` the active row of a port, `change` the
`pending_changes` row of the unresolved operation with the reservations listed for it.  A
method that runs one transaction (`commit_plan`, `begin_port_edit`, `confirm_port_recovery`,
`finish_change`, `complete_ready`) is one action; `finish_change`'s three updates are
`ReleaseMoved`, `CommitListed` and `ReleaseUnbound`, applied in their order, since a port may
be touched by more than one.  `FinishChange` may name the original or the candidate, and
`GiveUpChange` may happen at any time: which of them an operation may take is Provisioning's.
`OtherInstance` stands for the rest of the scope.

**Provisioning.**  One task at a time works on the instance (`OperationRunner` says so):
a creation (`create_operation.rs`), an edit (`port_edit_stages.rs`) or a recovery command
(`recovery_actions.rs`, `port_recovery.rs`).  `task.todo` holds the stages it still has to
pass, in the code's order; `task.point` is the call it has reached: a recorded stage is
`record` (intent), `mark` (creation only: the status again), `work`, `finish` (outcome).
`Holds` is what a stage has to see, `Failures` how it can end otherwise; looks at files and at
Docker may fail at any time.  `box` is the project's container, with the revision it was made
from; `live` the change CLIs that have not ended, whoever waits for them.  A CLI acts once
(`Serve`) at any time before it ends, a `--force-recreate` may stop half way with the old
container gone, and a CLI that missed its deadline is killed or, if that cannot be confirmed,
blocks the supervisor.  `Offered` is `inspect_locked`; `Recover` and what follows it
`recover_locked` and `apply`, which look again.  `Restart` may happen at any point.

Taken as given in Provisioning: a request is served only while its CLI lives (true of a compose
process that drives the daemon step by step; `DeleteOperation` has the harder assumption);
the storage slots of an instance are prepared in one step; published artifacts are not
tampered with; the recorded container id and the project's container are one thing.

**Planning.**  `plan[p]` is an entry of `CreatePlans` or `ClonePlans` (its revision, ports,
cursor, last view), `call` a command that has read the plan and awaits Docker, `answer` the
receipt of a session.  Most commands are one action, since they hold the session's mutex; a
confirmation reads the plan, observes the ports, checks the source and commits in separate
steps.  The user may confirm any view that reached the screen, again and under a second
request.  The source of a clone may accept operations, complete them, be renamed, edited or
retired between any two steps.  `lost` marks an answer that did not arrive.

**ArtifactStore, ExternalRecovery.**  A directory is its content: `generated`, an edit of the
user's, or nothing.  `publish` is `BeginStage`, `EndStage`, `TargetIsFree`, `MoveStage`,
`CanMark`, one step each, `archive_external` `ArchiveCheck`, `Move`, `Retain`; the process may
die between any two, also between the mark and the end of the journal's step.  `ExternalRecovery`
has one operation after another: begin (with the hash the user confirmed and the container of the
last observation, which may name any container there has been, or none), the runtime identity, the
steps of a former attempt, the archive, the publication, stop and recreate, the last look,
completion.  `cli` is the command that may be alive, with its operation and step, so that a
second one is another record even when it is the same command; that there is never a second
is `OneChangeCli`.  `Restart` loses the session, not the tables, the files or the CLIs.  The user
edits files, takes the archived ones back, and starts, stops, removes and recreates containers at
any time.

**LogSessions, LogDecoder.**  `entry` is the map of sessions; `call` the progress of a
`subscribe`, of `unsubscribe` and of `shutdown`, each await a step; `cli` the log CLI as its
supervisor sees it, `alive` as it is.  Leases are not counted: any subset may be over whenever
somebody looks.  `LogDecoder` feeds a log byte by byte: the failure table of a secret (`Fallback`),
the loop that follows it (`Shrink`), the pending bytes with the secrets marked in them and the
ring of lines are the code's; the reference definition knows none of them, masks the whole text by
leftmost-longest matches (`MaskedText`) and then cuts it.

**HostPorts, CloneFields, DatabaseWorker, BindStorage.**  One call of `plan_ports` is a series
of looks, and the clock may run out before each; `stored` is the cursor the plan goes on with:
the call's after an incomplete answer, a fresh one after a complete one, and the one it had after
any other.  A retyped port makes the plans drop it, which `plan_ports` does not rely on and the
model does not assume.  `CloneFields` has `evaluate_fields`,
`answer_field` and the input part of `preview`; `EvaluatedField` of the domain, which
production code does not use, is its abstract specification.  `DatabaseWorker` has an older and
a newer build on one root.  `BindStorage` makes the directories one after the other; a
directory is its identity, others remove, move and make directories and links, and Windows
refuses to move what is open.

Taken as given in these: in Planning one port per plan, an idle plan vanishes at its expiry,
and the target guard, name rules, template reads and storage identities of a preview are left
out.  In ExternalRecovery processes die but the power stays on; `Failed`, `AwaitingDecision`
and `OutcomeUnknown` are one *paused*; archives are not edited; verification of storage is a
failure that may happen.  In LogSessions `subscribe` and `get` run with the `expire` before
them.  In LogDecoder the mask is two bytes wide and invalid UTF-8 does not occur.  In HostPorts
the ledger and the ports published by containers are one snapshot.  In BindStorage an instance
has one slot, `mkdirat` and the open after it are one step, and no identity is ever used again.

## 3. What the runs check

| Run | Question | Instance |
|---|---|---|
| `gate` | accounting, exclusion, refinement; shutdown loses no wakeup and reports finished work as finished | 4 callers, 3 instances, capacity 2 as in the code: more callers and instances than places, so every refusal occurs |
| `journal` | consistency of the tables for any callers; closed operations; refinement | 2 instances (a clone and its source), 2 operations and requests, 1 plan, 2 revisions, 2 attempts, 2 steps; kinds `start` and `delete`, the only difference between kinds being delete |
| `lifecycle` | no two change commands, no lost command, no forgotten operation, legal journal steps | 1 instance, 2 operations competing for it, 1 recovery command, 2 deaths of the process, 1 failed journal call, 2 attempts, 3 steps |
| `lifecycle_live` | accepted work is settled, recovery returns | 1 operation, 2 recovery commands, no death, no failed call |
| `delete` | what a delete touches, what it has seen at retirement | 2 containers and 1 network of any origin, 2 attempts, 5 steps, 1 death |
| `delete_live` | undisturbed, a delete retires its instance | 1 container, 1 network, alone or shared, 1 death, 1 failed journal call |
| `provisioning` | reservations kept and settled exactly, the container's ports and revision, one change command, start after its record | a creation or an edit of a managed instance; 2 slots, 4 ports of which neighbours may hold any, 3 revisions, 2 attempts, 1 death of the process, 1 failed write |
| `planning` | what is created is what was reviewed, once, from one state of the source, on a port of its own | a create and a clone plan, 2 requests, 3 ports one of which another program may hold, 2 plan revisions, 2 states of the source, expiry, a restart: 2.8 million states |
| `recovery` | user's files survive, no recovery is stranded, only the confirmed container is stopped, the end is the saved configuration, one change command | 2 recoveries of an instance, each with a second attempt; 2 edits of its files and changes of its container by the user, crashes of the process: 3.5 million states |
| `logs` | no log CLI escapes, a quiet exit, places given back | 2 ids, one of them used twice, and a table for one or two: a start is refused for want of a place; expiry, a closing window, an unsubscribe and the end |
| `parts` | six components one by one: masking, ports, fields, database, volumes, bind storage | see below |
| `startup_pending` (violation) | section 5 | 1 operation |

The components of `parts` share nothing, so a behaviour of the run is one of one component.  It
has: up to two secrets of at most three bytes in six bytes of text with lines of three, enough for
overlaps, a secret over a line's end and one cut by the limit; two slots and four ports with a
search limit of three and two changes from outside; one field through three versions and eight
definitions of it; an older and a newer build with three callers and two starts; one volume with
two attempts and three volumes in its place; two instances in nine directories with two changes by
others.  Together 3.5 million states.

A second instance adds nothing to `LifecycleOperation`'s properties except sharing `DockerCli`
and the gate's capacity; the gate is checked with several instances on its own, and the lock
around the CLI is held for one command at a time whatever its instance.  Revisions, attempts
and steps are bounded by `MaxRevision`, `MaxAttempt` and `MaxSteps` in the guards; two attempts
and three steps are a start that recreates its container, and its retry.  Two containers and a
network give a delete every order it knows (containers before networks, stop before rm), a
strange container beside an own one, and five steps are its longest removal; a second attempt
has room for what the first left.  Three volumes (in `parts`, with two
attempts) are the one lost, the one a stranger puts in its place, and the one a late command
creates.  Two slots and four ports let an edit move one slot, both, or
swap them (which is refused), and a candidate keep a port of the one before it;
three revisions are an original and two candidates; ports and slots are interchangeable, so the
run uses their symmetry.  `provisioning` has one operation: an instance is created or edited,
and that operation is recovered.  What a second operation would add is an edit after an
abandoned one, whose leftover reservations matter only to the ledger; the theorems of section 4
cover any number of operations.  Deadlock is not checked: every operation may be
finished, the application closed and the bounds reached.

Fairness.  The gate: the clock advances and a woken thread runs; nothing is assumed of admitted
work.  Lifecycle: a worker and a recovery command take their steps, because every CLI is killed
at its deadline (30 s for start, 120 s for create, 30 s for changes), readiness is polled for
180 s, and the database answers; new requests, deaths and orphaned CLIs are not fair.  Delete:
the worker takes its steps for the same reason, the application is started again, and the
daemon serves what it was sent; other users are not fair and not bound.  Logs: the calls, the
supervisors and the unsubscribe tasks take their steps, since every wait of theirs has a deadline,
and `Expire` runs because `main.rs` calls it every five seconds; new subscriptions are not fair.
Provisioning, Planning, ExternalRecovery and `parts` state no liveness and no fairness.

Several properties are conjunctions of named parts; a reader should look at the parts.  Worth
reading first: `OneChangeAtATime` and `LiveCliIsOwned` (through lost CLIs, retries and restarts),
`NobodyIsForgotten`, `BoxIsAccountedFor` (`BoxPortsAreReserved`, `IdleBoxIsApplied`),
`ChangeSettlesExactly` (candidates, restorations and abandonments in any order), `TablesAgree`
(`OperationPinsInstance`, `OpenStepIsCurrent`), `GateIsSound` (`NoLostWakeup`), `StrangersAreSafe`
(`ForeignEndpointBlocksAll`), `RetirementIsFinal` (`RetiredSawAbsence`,
`NothingInFlightAtRetirement`), `CloneOfOneSource`, `UserEditsSurvive`, `NeverStranded`,
`LiveReadsAreTracked` with `ClosingGivesPlaceBack` (an entry must neither go too early nor stay),
`DatabaseKeepsItsWord`, `SameVolume` (with `UnmaterializedIsTrue`), `FollowsPolicy`,
`OnlyOwnStorage`.

How far some of them reach.  `FollowsJournal` speaks of the time before a journal call has
failed: after a failure, `LifecycleState::complete` succeeds an operation the journal would
refuse, one with a step that has no outcome.  The part `FirstVolumeStays` of `SameVolume` speaks
of one attempt: in a second one, a volume that was present, then unverified, then removed by
somebody, with its step reconciled as failed, is created again empty.  `QuietDeleteRetires` says
that a delete retires its instance when nobody is in the way; when somebody is, the desktop has no
way to finish it (section 5).
`IdleBoxIsApplied` speaks of the time when no operation is unresolved; in between, a container
of any revision up to the candidate may be there, on ports that stay reserved.
`DatabaseKeepsItsWord` says nothing to a caller told that the worker stopped: its job may have
been committed or not, and after a panic the lock on the backend is free while the process lives.
`FollowsPolicy` speaks of one version of a template; over a switch `NothingIsAssumed` holds, which
is weaker: values stay where the new policy is to clear or to generate them anew.  `OnlyOwnStorage`
allows a create to be refused because another create is under way.  `StopsOnlyTheOriginal` and
`UserEditsSurvive` hold for deaths of the process, not for a loss of power.

## 4. What is proved

The proof modules prove their theorems for every value of the constants (any number of
callers, instances, operations, requests, recovery commands, objects, plans, slots, ports,
revisions and edits, and any bounds), from these assumptions:

- `RunnerAssumption`: finite sets, two distinct null values;
- `JournalAssumption`, `NoRowAssumption`, `LedgerAssumption`: a null value is not a row; the bound
  on revisions is a number;
- `LogAssumption`: capacities are positive numbers, every id has a window and a bound on its uses;
- `DecoderAssumption`: secrets are finitely many finite texts, none empty (the code drops the empty
  ones), and the budgets and the width of a mask are numbers;
- `LifecycleAssumption`, `DeleteAssumption`, `ProvisioningAssumption`: operations are not recovery
  commands, containers not networks; the assumptions of the journal, the gate and the ledger they
  are built on; bounds are numbers, and there are more steps than attempts, so that the bound on
  steps does not cut an attempt short;
- `PlanningAssumption`: finitely many plan ids (they are counted against a capacity), those of
  creations and of clones apart;
- `StoreAssumption`, `RecoveryAssumption`: an artifact's bytes are its own, no edit's, and not
  those of a directory that is not there or half written (the code compares SHA-256 hashes);
- `DatabaseAssumption`, `StorageAssumption`, `PlanAssumption`, `PortAssumption`: every caller has
  a process, every build knows a schema, names of nothing are names of nobody; ports and slots are
  numbers, the slots finitely many; a template regenerates only secrets that accept what is
  generated (`template/semantics.rs:276`, `template/validation.rs:146`).

*PartsProofs, the gate.*  `Invariance`: the inductive invariant is type correctness, the
accounting of counter and set by the live guards, exclusion, capacity, and the two facts on
shutdown.  The accounting is what makes the rest inductive: the code tests the counters, the
properties speak of the guards.  `TypeCorrect`, `GuardsAccount`, `Capacity`, `Exclusion`,
`ShutdownIsSound`, `ClosedGate` and `Soundness`, the run's property, follow, and `Refinement`
maps every step to one of `ChangeGate` or a stutter.

*OperationJournalProofs.*  `Invariance`: the parts of `TablesAgree`, type correctness, and "a
receipt names an operation that has a row".  The parts support each other: an unresolved operation pins the revision
(`OperationPinsInstance`) only because no second one is accepted (`OneUnresolvedOperation`),
retiring instances are delete's (`RetirementIsADelete`), and closed operations stay closed
(`ClosedIsFinal`) because a closed operation has no open step, finish_step not looking at the
status.  `Consistency` is the run's property.  One lemma per action; the status writers share
`StatusWritten`, the step writers `OnlySteps`.  `FailureRecord` shows that an established
failure is never forgotten. `Refinement` maps the tables to `InstanceChanges` through the unique
unresolved operation of an instance.

Proved and in no run of its own: `AtMostMaxHolders` (`Capacity`), `ClosingAdmitsNobody`
(`ClosedGate`), `FailureIsRemembered` (`FailureRecord`), `KeepsOwnership` of the lifecycle and of
the delete (`OwnershipKept`), and of the delete `FollowsJournal` (`JournalFollowed`) and
`TablesAgree` (`Consistency`).  The two of the delete that are action properties and that of the
lifecycle hold on the instances of their runs too; the runs leave them out because they double
the time.

*ProvisioningProofs, the ledger.*  `LedgerInvariant`: the inductive invariant strengthens `AppliedIsCommitted`
to the revision a change started from, the creation's first included (`Base`), and adds that
the candidate's ports are the instance's, those only held being listed for the change
(`HeldForChange`), and that no port moves from one slot to another between original and
candidate (`NoSwap`).  Without the last, `finish_change` would go wrong: it releases a moved
port by its old slot before it commits what is listed, and a port that is both is not listed.
What keeps it is that `checked_ports` and the adapter take only unreserved ports.
`AppliedStaysCommitted` and `SettlingIsExact` follow.

*ProvisioningProofs.*  `WritesAreTransactions`: every step of Provisioning, under the ledger's
invariant, is a transaction of `PortLedger` or leaves the ports alone, for any number of
operations, deaths and faults.  `Init` is not the ledger's, since an instance may be found
managed, so `InitLedger` shows that it satisfies the invariant.  `AppliedPortsAreKept` and
`ChangesSettleExactly` carry the ledger's theorems over.  `Invariance` is about everything else:
`PInv` adds the task, the journal, the CLIs and the container.  Its centre is `CliOK`: a CLI that
has not ended has its step in doubt in the journal, so that all who could change the instance
besides it are refused, an acceptance by the unresolved operation, a recovery by the blocked
supervisor or by a step inherited in doubt.  On it rest `BoxOK` (the container is of a revision
whose ports are reserved), `InspectedOK` (after its look a task knows which) and `GoalOK` (it is
the one the completion will apply): between a look at the container and the completion nobody but
a CLI could replace it by one of another revision, and `CliOK` keeps every CLI away.
`BoxAccounted`, `StartRecorded` and `OneChange` follow.

*LifecycleOperationProofs.*  `Invariance`: `LInv` says for each place of a worker or a recovery
command what it holds of the gate, what the journal says of its operation and which CLI may be
alive.  The claims of the gate keep the tasks of one process apart, but a CLI outlives its task and
even its process; so the invariant names who answers for a live CLI, which is what keeps everybody
else from issuing a command: the task that waits for it, the supervisor that is blocked by it, or
the inherited operation whose step is still in doubt.  `LiveOwned`, `OneChange` (two CLIs would
have two answers for one instance), `NobodyForgotten` and the action property `JournalFollowed`
follow, the last until a journal call has failed.

`OwnershipKept` goes on where `JournalFollowed` ends: also after failed calls every step is one of
`InstanceChanges` or leaves the instances with the operations that have them.  The lemmas of
`OperationJournalProofs`, taken here by INSTANCE, say what a step of the abstract specification
needs: nothing changes hands (`NothingChangesHands`), a new operation takes a free instance
(`InstanceTaken`), an unresolved one gives it up (`InstanceGivenUp`).  They ask for
`OneUnresolvedOperation` only, which is a part of `LInv`; the rest of the journal's own invariant
is what a completion after a failed call can break.

*DeleteOperationProofs.*  `Invariance`: `DInv` follows the objects a worker has in its hands.  What
it is about to remove carries the instance's labels, which never change (`SoughtOK`).  Whether a
foreign container is connected may change at any time; a network that was entangled at the
acceptance is on the list until its check has refused it (`EntangledOK`).  A request that may
still be served is of the last step, while its command is waited for; anywhere else among its
stages the worker has none behind it (`InFlightOK`), so that what the last look has not seen can
only be new (`ClearedOK`).  `StrangersUntouched` and `NothingLeft` follow.

`JournalFollowed`: every write of a delete is a transaction of `OperationJournal`, failed calls or
not, since its steps are numbered by the table and a completion looks at them (`complete_delete`
does what `LifecycleState::complete` does not).  So the journal's theorems carry over, by INSTANCE
of `OperationJournalProofs`: `TablesHold` is its inductive invariant, from the tables with one
managed instance that a delete starts with, which are not the journal's initial ones;
`Consistency` and `OwnershipKept` follow.

*PlanningProofs.*  `Invariance`: `PlInv` says of every plan, view, call, receipt and instance how
it relates to the others.  A confirmation looks at the plan, the ports, the source and the journal
in different steps; what it has established stays true because it holds the mutex of its session
until it has committed, because a revision never comes back with other contents (views are not
ahead of their plan, and agree with it at the same revision), and because the commit looks again
at the rest.  `Reviewed`, `Accepting`, `OneSource`, `PortsApart` and `StartedAtMostOnce` follow.

*ExternalRecoveryProofs.*  `Invariance`: `RInv` says where each of the user's edits is, what the
worker knows at each place, and which operation answers for a command that may be alive.  Up to
the stop the worker knows its container to be that of the acceptance, gone, or made of the saved
specification (`MayStop`); after the last look the journal's last step names a container that was
made of it (`SawSaved`), and containers never change what they were made of.  A live command is
the last step of the one unresolved operation, without an outcome, and the record of it names that
operation and step (`Answers`): the evidence of a recovery is refused while it is, and no worker
past that evidence has one behind it.  `EditsSurvive`, `NotStranded`, `OnlyOriginalStopped`,
`RunsSaved` and the action property `OneChange` follow; the last says that a live command stays
the very same record until it ends, so it also rules out the same command once more.

*LogProofs, the sessions.*  `Invariance`: the inductive invariant follows a stream from the start that
launched it to the entry that holds it.  A start under way has its entry (`StartsHaveEntries`); a
stream that may still read is in an entry, or its start is at the step that puts it there
(`StreamsAreHeld`); so an entry may go when its start is over and its stream confirmed
(`Removable`), which is what `expire` tests and what a release has waited for (`ReleasesWait`).
What is not yet gone is on the list of the end (`ExitIsThorough`).  `ReadsAreTracked` and
`CleanExit` follow, for any ids, uses, windows, unsubscribe calls and capacity.

*LogProofs, the decoder.*  `CursorIsRight`: the failure table holds for every prefix of a secret
its longest proper end that is a beginning again, so that following it finds the longest beginning
of the secret the text ends with, also after a match.  `DecoderInvariant`: `DecoderInv` says that
every cursor is that longest beginning, short of the whole secret (`CursorsRight`); that a pending
byte is marked with the longest secret found to start there, and that, whatever text follows, its
masking begins with what the screen shows and goes on from the first pending byte (`PendingRight`);
that no more waits than the longest cursor spans (`NothingNeedless`).  The delicate point is a
secret that begins inside another: flushing stops where some cursor still points, so that no longer
text changes which secret starts at a flushed byte, and a mask is written whole.  `DecoderShows`
and `DecoderWaits`, together `DecoderCorrect`, follow.  The operators over texts and lines are
recursive functions; the lemma `Induction` takes the set of the numbers for which a fact holds, not
the fact itself, so that the prover can use it and the reference definition is covered for texts of
every length.

*PartsProofs, the database.*  `DInv`: who prepares or writes the file holds its lock (`LockOK`); a
job is in one place, a queue or a thread's hand, once, and its caller waits exactly while it is
there (`JobsOK`), so that the row of a job says what its answer may be (`RowsOK`); a file about to
be migrated has a whole backup with its schema and rows (`BackupsOK`).  `DatabaseWord` follows.
The lock is what carries it: without it another process could write between the backup and the
migration.

*PartsProofs, the named volume.*  `VolumeInv`: while no attempt was begun nothing was sent and
nothing is recorded; after one, what is found of the name is not from before (`VolumesOK`); within
the first attempt there is one command, which can make the volume once and is spent when the volume
is there (`OneCommand`).  So the volume a step records is the one that stays.  `OneVolume` follows.

*PartsProofs, bind storage.*  `StorageInv`: an allocation is what its create made and stays it
(`AllocationsOK`), an inspection has opened only what the allocation names (`LookingOK`), an answer
is about that (`AnswerOK`); while nobody else changes anything, no create is cut off and none
overlaps, the entries and evidence are exactly what every create has made by its stage (`TidyOK`),
which is why a refusal has a cause.  `OwnStorage` follows.

*PartsProofs, clone fields.*  `PlanInv`: every field has the kind, policy and options of the
version; the source's value is in it only where the version still takes it from the source; a
confirmed secret was confirmed since the last switch or answer, and an answer to a question is to
the question as it is asked now.  `PlanAssumesNothing` follows, and `PolicyIsFollowed`: with the
fields of another type left out, the plan starts as `ClonePolicy` evaluates, every answer and
confirmation within a version is one of `ClonePolicy`'s or a stutter, and it is ready only when the
policy is.

*PartsProofs, host ports.*  `PortInv` is about the cursor between two looks and between two calls:
a selection lies behind the cursor and, unless something was retyped since, is one the plan could
still make (`SelectionsStand`); what the call has looked at was free as it read the ledger
(`LookedAt`); and every port behind the cursor was taken at some time, or is the selection or the
explicit port of some slot (`NothingPassedOver`).  The last is inductive only with the first: a
selection that is given up was taken then, and the cursor is already behind it.  The same holds of
the plan's own cursor, which a rejected call leaves as it was (`StoredStands`).  `PortSearch`
follows; that a slot left to the user has fewer ports left than there are slots is a count of the
other slots (`FewAreLeft`).

Only model-checked: the liveness properties (`FinishedWorkDrains`, `AcceptedIsSettled`,
`RecoveryReturns`, `QuietDeleteRetires`, `ClosingGivesPlaceBack`), which need fairness and
ENABLED.  Every other property a passing run checks is stated by a theorem.

## 5. Disagreements met

The run `startup_pending`: an operation accepted but not begun when the application dies stays
Accepted; nothing recovers it and its instance accepts no other change.

Disagreements without a run, since they are reached in one straight line:

- the worker's fallback (`instance_commands.rs:222`) runs after its guard is gone and can overwrite
  the status of a recovery already at work; the recovery's completion is then refused, and nothing
  is issued twice (`OneChangeAtATime` holds);
- a delete that was interrupted leaves its instance retiring for good, even when its objects are
  gone; `docs/domain-model.md:467` asks that its retirement be completed;
- an edit that ended before its artifact was published (its target could not be bound, say) is
  offered no recovery action, because all of them need the candidate's artifact
  (`recovery_view.rs:275`); `docs/domain-model.md:442` gives a failed edit the choice of a retry or
  of going back to the old ports, and the instance stays locked;
- two creates of bind storage under one parent may refuse one another: the second finds the
  first's directory without evidence (`storage/unix.rs:283`), where `docs/architecture-v1.md:154`
  lets different instances be changed in parallel.

Observed while modelling, without a run of their own: `LifecycleState::complete` does not look
at the steps, so that after a failed journal call a recovery completes an operation with a step
that has no outcome, which a test of the journal (`operation_journal.rs:1128`) says is refused;
an edit may be abandoned while its new ports are held, and they stay held until the next change
completes or the instance is deleted, where `docs/domain-model.md:384` asks that the edit be
taken back or confirmed first (no port is lost: `AppliedIsCommitted`,
`ChangeSettlesExactly`); a retry leaves a Failed operation with an
unknown step (`recovery_actions.rs:371`), while `docs/domain-model.md:371` calls Failed the
established failure; the fallback and the recovery take transitions that the documented diagram
of an operation's status does not have; `inspect_only` and `ensure` write Unverified over
Present when Docker does not answer (`named_volumes.rs:208`, `:461`), so that a later absence is
reported as unverified and not, as `docs/architecture-v1.md:337` has it, as missing.

Of the later components.  *Planning*: a confirmation may resume the port search of a view that was
incomplete, and then commits explicit ports that were looked at in an earlier call.  *External
recovery*: a write between the last hash check and the rename leaves archived bytes that differ
from the confirmed hash, so that every retry fails while abandoning is not offered; an operation
inherited over a restart with an unsettled step is held for ever, since the check of the former CLI
is never repeated; on `publish`'s path for a target that exists already the parent directory is
not synced.  *Log sessions*: a log CLI that could not be spawned counts as unconfirmed, so that its
entry keeps its place until the application ends; `get_logs` on a subscription still pending closes
it.  *Bind storage*: a create cut off midway leaves a directory without evidence, and every later
bind create under that parent is refused; a directory whose inode number is used again would be
taken for the old one.  *Clone fields*: a field whose type changed between versions can never
become ready; production code uses of the domain's `clone_policy.rs` only `generate_secret`.

## 6. Plan

1. Done: the gate and the journal, with proofs; the lifecycle operation with recovery; the
   delete operation; named volumes; creation, port edit and their recovery over the port ledger,
   the ledger with proofs.
2. Done: planning sessions with the clone guard; external recovery over the artifact store; bind
   storage; the database worker; log sessions, with proofs, and their decoder; clone policy and
   host ports.
3. Next: `DockerCli` in full (output limits, process groups) and the target's binding in
   `docker_target.rs`; the cached checks of `retained_storage.rs`; the import of a template package
   (staging and publication in `template_packages.rs`); `instance_edit.rs`.
4. Done: proofs of the safety of every module, the decoder of logs included; that a lifecycle and a
   delete operation make only steps of `InstanceChanges`.  Next: the same for `Provisioning` and
   `ExternalRecovery`, which keep a journal of their own.

Abstract specifications still to state: "data is never removed and never reused after it may
have been initialized" over create and delete; "a port belongs to at most one instance" over
two instances with a `PortLedger` each.  A second run of `Provisioning` with two operations in
a row (an edit after an abandoned one) fits TLC with one slot and three ports.

## 7. Not modelled

Whole components: the template catalog, its packages and the template domain (files, YAML and
their validation); the text of Compose files; the value objects of the instance domain; the query
service; Docker observation, the Docker target and image resolution (the models leave their results
free); the frontend.  Of components modelled in part: the naming, the template loading and the
storage identities of a preview, and `instance_edit.rs`; scopes and targets of the state store; the
output limits and process groups of CLIs; the list of retained storage; windows and diagnostics of
the shell; `check_root_access`, a probe without effect.

Panics in a worker (the guard's drop is modelled, the fallback after a panic is not; the database
worker's panics are); phases, timestamps and progress events; messages.  In
`LifecycleOperation`: renames and deletes of the instance (they are in `OperationJournal` and
`DeleteOperation`), the waiting of `shutdown` (in `OperationRunner`), the state of containers
(free observations).  In
`Provisioning`: clones as such (they run the stages of a creation; the guard on their source is
in `OperationJournal`), the image and configuration checks' contents, the choice of ports a
proposal makes.  In `DeleteOperation`: `refresh_retained_storage`, a read-only refresh
after the retirement.
