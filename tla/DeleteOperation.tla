---------------------------- MODULE DeleteOperation ----------------------------
(***************************************************************************)
(* The deletion of one managed instance: DeleteOperation::run_locked       *)
(* (application/delete_operation.rs), its stages (delete_stages.rs), the   *)
(* removal of owned containers and networks (docker_delete.rs) and the two *)
(* transactions of delete_state.rs, over OperationJournal.  Docker is      *)
(* external and shared: anybody creates, starts, stops, removes and        *)
(* connects objects between any two steps, and a request to the daemon may *)
(* be served after the CLI that sent it is gone.  Labels never change, so  *)
(* what an object is to this instance is fixed.  A list by several filters *)
(* is one read per kind of object.  The gate around the worker is in       *)
(* OperationRunner; what a storage check finds is free.                    *)
(***************************************************************************)
EXTENDS Integers, Sequences, FiniteSets

CONSTANTS
  Containers, Networks,                                   \* Docker ids
  Subject, Delete, Request,                               \* the instance, the operation, the request
  NoOperation, NoReceipt, NoPlan, NoSource,               \* see OperationJournal
  MaxRevision, MaxAttempt, MaxSteps,                      \* see OperationJournal
  Worlds,    \* what surrounds the delete: "shared", "quiet" or either
  Repeats,   \* a caller reconciles and repeats an unfinished delete
  MaxExits,  \* bound on the times the application dies
  MaxFaults  \* bound on the journal calls that fail for want of the database

VARIABLES
  lifecycle, revision, operation, step, receipt, failure,  \* the journal
  origin,    \* an object's labels: own, mimic or other
  state,     \* an object's life
  joined,    \* the containers attached to each network
  requests,  \* the requests the daemon has not served
  answer,    \* what became of the worker's own request
  stage,     \* where the worker is
  found,     \* the objects listed
  todo,      \* the objects still to be checked or removed
  at,        \* the object at hand
  doing,     \* stop or rm
  exits,
  faults,
  world,     \* one of Worlds, for good
  entangled, \* history: networks with a foreign endpoint ever since acceptance
  cleared    \* history: objects found absent since the storage was checked

Journal == INSTANCE OperationJournal WITH
  Instances <- {Subject}, Operations <- {Delete}, Requests <- {Request}, Plans <- {},
  ChangeKinds <- {"delete"}

journalVars == <<lifecycle, revision, operation, step, receipt, failure>>
dockerVars == <<origin, state, joined, requests>>
workerVars == <<stage, found, todo, at, doing, answer>>
localVars == <<found, todo, at, doing, answer>>
history == <<entangled, cleared>>
vars == <<journalVars, dockerVars, workerVars, exits, faults, world, history>>

Objects == Containers \cup Networks
Nothing == "nothing"

ASSUME DeleteAssumption ==
  /\ Containers \cap Networks = {}
  /\ Nothing \notin Objects
  /\ NoOperation \notin {Delete} \cup Journal!OperationRows  \* as the journal assumes
  /\ NoReceipt \notin Journal!ReceiptRows
  /\ NoSource # Subject
  /\ MaxRevision \in Nat /\ MaxAttempt \in Nat \ {0} /\ MaxSteps \in Nat
  /\ Worlds \subseteq {"shared", "quiet"}
  /\ Repeats \in BOOLEAN
  /\ MaxExits \in Nat
  /\ MaxFaults \in Nat

\* own: all labels are the instance's.  mimic: some filter finds it (project,
\* instance, saved id, network name) and inspect refuses it.  other: no filter does.
Origins == {"own", "mimic", "other"}

\* In a quiet world nobody else uses Docker, nothing fails and nothing dies.
Shared == world = "shared"

Present(x) == state[x] \in {"running", "stopped"}
Visible(x) == Present(x) /\ origin[x] # "other"
Endpoints(n) == {c \in joined[n] : state[c] = "running"}
Foreign(n) == \E c \in Endpoints(n) : origin[c] # "own"

\* A managed instance; a network is running when it exists.
Init ==
  /\ lifecycle = [i \in {Subject} |-> "managed"]
  /\ revision = [i \in {Subject} |-> 1]
  /\ operation = [o \in {Delete} |-> NoOperation]
  /\ step = [o \in {Delete} |-> <<>>]
  /\ receipt = [r \in {Request} |-> NoReceipt]
  /\ failure = [o \in {Delete} |-> "none"]
  /\ world \in Worlds
  /\ origin \in [Objects -> Origins]
  /\ state \in [Objects -> {"unborn", "running", "stopped"}]
  /\ \A n \in Networks : state[n] # "stopped"
  /\ joined \in [Networks -> SUBSET Containers]
  /\ \A c \in Containers : state[c] = "unborn" => \A n \in Networks : c \notin joined[n]
  /\ ~Shared => \A x \in Objects : origin[x] # "mimic"
  /\ ~Shared => \A n \in Networks : origin[n] = "own" => ~Foreign(n)
  /\ requests = {}
  /\ stage = "idle"
  /\ found = {} /\ todo = {} /\ at = Nothing /\ doing = "none" /\ answer = "none"
  /\ exits = 0 /\ faults = 0
  /\ entangled = {} /\ cleared = {}

-------------------------------------------------------------------------------
(* Docker and its other users *)

\* A network stops being entangled once it has no foreign endpoint.
Disentangle ==
  entangled' = {n \in entangled :
    \E c \in joined'[n] : state'[c] = "running" /\ origin[c] # "own"}

SetState(x, s) ==
  /\ state' = [state EXCEPT ![x] = s]
  /\ Disentangle
  /\ UNCHANGED <<journalVars, origin, exits, faults, world, cleared>>

OtherUser(x) ==
  /\ Shared
  /\ \/ /\ x \in Containers
        /\ UNCHANGED joined
        /\ \/ state[x] = "unborn" /\ SetState(x, "stopped")
           \/ state[x] = "stopped" /\ (SetState(x, "running") \/ SetState(x, "gone"))
           \/ state[x] = "running" /\ SetState(x, "stopped")
     \/ /\ x \in Networks
        /\ UNCHANGED joined
        /\ \/ state[x] = "unborn" /\ SetState(x, "running")
           \/ state[x] = "running" /\ Endpoints(x) = {} /\ SetState(x, "gone")
     \/ /\ x \in Networks /\ Present(x)
        /\ \E c \in Containers :
             /\ Present(c)
             /\ joined' = [joined EXCEPT ![x] = IF c \in @ THEN @ \ {c} ELSE @ \cup {c}]
        /\ SetState(x, state[x])
  /\ UNCHANGED <<requests, workerVars>>

\* The daemon refuses to remove a running container and a network in use.
Refused(q) ==
  /\ q.action = "rm"
  /\ IF q.object \in Networks THEN Endpoints(q.object) # {} ELSE state[q.object] = "running"

Serve(q) ==
  /\ q \in requests
  /\ requests' = requests \ {q}
  /\ UNCHANGED joined
  /\ LET x == q.object
         done == Present(x) /\ ~Refused(q) IN
     /\ IF done
        THEN SetState(x, IF q.action = "rm" THEN "gone" ELSE "stopped")
        ELSE SetState(x, state[x])
     /\ answer' = IF stage = "waiting" /\ q.step = Len(step[Delete])
                  THEN IF done THEN "done" ELSE "refused"
                  ELSE answer
  /\ UNCHANGED <<stage, found, todo, at, doing>>

-------------------------------------------------------------------------------
(* The worker: acceptance, and where each step leads *)

GoTo(s) == stage' = s
Keep == UNCHANGED <<dockerVars, exits, faults, world, history>>

\* An error ends the stages: what they held is dropped.
End(s) ==
  /\ GoTo(s)
  /\ found' = {} /\ todo' = {} /\ at' = Nothing /\ doing' = "none" /\ answer' = "none"

Reject == End("rejected")
Doubt == End("doubtful")

Accept ==
  /\ stage = "idle"
  /\ Journal!Accept(Request, Delete, Subject, "delete", 1)
  /\ GoTo("accepted")
  /\ entangled' = {n \in Networks : Present(n) /\ origin[n] = "own" /\ Foreign(n)}
  /\ UNCHANGED <<localVars, dockerVars, exits, faults, world, cleared>>

\* delete_pending: accepted work, or another attempt with nothing in doubt.
Pending ==
  /\ \/ Journal!Is(Delete, {"Accepted"})
     \/ Journal!Is(Delete, {"Executing"}) /\ operation[Delete].attempt > 1
  /\ lifecycle[Subject] = "retiring"
  /\ revision[Subject] = operation[Delete].expected + 1
  /\ ~Journal!HasStep(Delete, {Journal!Open, "unknown"})

Begin ==
  /\ stage = "accepted"
  /\ IF Pending
     THEN Journal!SetStatus(Delete, "Executing") /\ GoTo("listing")
     ELSE UNCHANGED journalVars /\ GoTo("fallback")
  /\ UNCHANGED localVars
  /\ Keep

-------------------------------------------------------------------------------
(* remove_runtime: everything is listed and checked before anything is changed *)

ListContainers ==
  /\ stage = "listing"
  /\ found' = {c \in Containers : Visible(c)}
  /\ GoTo("listingNetworks")
  /\ UNCHANGED <<journalVars, todo, at, doing, answer>>
  /\ Keep

ListNetworks ==
  /\ stage = "listingNetworks"
  /\ found' = found \cup {n \in Networks : Visible(n)}
  /\ todo' = found'
  /\ GoTo("checking")
  /\ UNCHANGED <<journalVars, at, doing, answer>>
  /\ Keep

\* Containers first, then networks, each kind in the order of the ids.
NextOfNetworksFirst(x) == x \in todo /\ (x \in Containers => todo \cap Networks = {})
NextOf(x) == x \in todo /\ (x \in Networks => todo \cap Containers = {})

AcceptableIgnoringEndpoints(x) == origin[x] = "own"

\* inspect accepts the labels, and endpoints() only containers that are listed.
Acceptable(x) ==
  /\ origin[x] = "own"
  /\ x \in Networks => Endpoints(x) \subseteq found

Check(x) ==
  /\ stage = "checking"
  /\ NextOf(x)
  /\ IF ~Present(x) THEN Doubt
     ELSE IF ~Acceptable(x) THEN Reject
     ELSE /\ todo' = todo \ {x}
          /\ found' = found
          /\ UNCHANGED <<stage, at, doing, answer>>
  /\ UNCHANGED journalVars
  /\ Keep

Checked ==
  /\ stage = "checking"
  /\ todo = {}
  /\ todo' = found
  /\ found' = {}
  /\ GoTo("removing")
  /\ UNCHANGED <<journalVars, at, doing, answer>>
  /\ Keep

-------------------------------------------------------------------------------
(* remove_runtime: one object at a time, inspected again before each effect *)

\* A container that is not running is inspected once more before its removal.
Pick(x) ==
  /\ stage = "removing"
  /\ NextOf(x)
  /\ IF ~Present(x) THEN Doubt
     ELSE IF x \in Networks /\ Endpoints(x) # {} THEN Reject
     ELSE /\ at' = x
          /\ doing' = IF x \in Containers /\ state[x] = "running" THEN "stop" ELSE "rm"
          /\ GoTo(IF x \in Containers /\ state[x] = "stopped" THEN "again" ELSE "recording")
          /\ UNCHANGED <<found, todo, answer>>
  /\ UNCHANGED journalVars
  /\ Keep

InspectAgain ==
  /\ stage = "again"
  /\ IF Present(at)
     THEN /\ doing' = "rm"
          /\ GoTo("recording")
          /\ UNCHANGED <<found, todo, at, answer>>
     ELSE Doubt
  /\ UNCHANGED journalVars
  /\ Keep

\* effect: the intent, the command, and its error.
RecordEffect ==
  /\ stage = "recording"
  /\ Journal!RecordStep(Delete, Len(step[Delete]) + 1, operation[Delete].attempt)
  /\ GoTo("sending")
  /\ UNCHANGED localVars
  /\ Keep

Send ==
  /\ stage = "sending"
  /\ requests' = requests \cup {[step |-> Len(step[Delete]), action |-> doing, object |-> at]}
  /\ answer' = "none"
  /\ GoTo("waiting")
  /\ UNCHANGED <<journalVars, origin, state, joined, found, todo, at, doing, exits, faults, world, history>>

CliSucceeds ==
  /\ stage = "waiting"
  /\ answer = "done"
  /\ GoTo("proving")
  /\ UNCHANGED <<journalVars, localVars>>
  /\ Keep

\* Refused, killed at its deadline, or its end unconfirmed: the request may
\* have been served, may never be, or may be served later.
CliFails ==
  /\ stage \in {"sending", "waiting"}
  /\ Shared \/ answer = "refused"
  /\ \/ UNCHANGED requests
     \/ requests' = {q \in requests : q.step # Len(step[Delete])}
  /\ GoTo("erring")
  /\ UNCHANGED <<journalVars, origin, state, joined, localVars, exits, faults, world, history>>

RecordDoubt ==
  /\ stage = "erring"
  /\ Journal!FinishStep(Delete, Len(step[Delete]), "unknown")
  /\ Doubt
  /\ Keep

\* The postcondition: stopped after a stop, off the list after a removal.
\* When it does not hold the step stays without an outcome.
Prove ==
  /\ stage = "proving"
  /\ IF IF doing = "stop" THEN state[at] = "stopped" ELSE ~Present(at)
     THEN GoTo("finishing") /\ UNCHANGED localVars
     ELSE Doubt
  /\ UNCHANGED journalVars
  /\ Keep

FinishEffect ==
  /\ stage = "finishing"
  /\ Journal!FinishStep(Delete, Len(step[Delete]), "succeeded")
  /\ IF doing = "stop"
     THEN GoTo("again") /\ UNCHANGED localVars
     ELSE /\ GoTo("removing")
          /\ todo' = todo \ {at}
          /\ at' = Nothing /\ doing' = "none" /\ answer' = "none"
          /\ UNCHANGED found
  /\ Keep

Removed ==
  /\ stage = "removing"
  /\ todo = {}
  /\ GoTo("confirming")
  /\ UNCHANGED <<journalVars, localVars>>
  /\ Keep

-------------------------------------------------------------------------------
(* Absence, storage, absence again, and retirement *)

\* One kind of object must be off the list.
FindNone(objects, s, next) ==
  /\ stage = s
  /\ cleared' = IF stage \in {"verifying", "verifyingNetworks"}
                THEN cleared \cup {x \in objects : ~Present(x)} ELSE cleared
  /\ IF \E x \in objects : Visible(x) THEN Doubt ELSE GoTo(next) /\ UNCHANGED localVars
  /\ UNCHANGED <<journalVars, dockerVars, exits, faults, world, entangled>>

ConfirmAbsence ==
  \/ FindNone(Containers, "confirming", "confirmingNetworks")
  \/ FindNone(Networks, "confirmingNetworks", "checkingStorage")

CheckStorageOnly ==
  /\ stage = "checkingStorage"
  /\ GoTo("completing")
  /\ cleared' = {}
  /\ UNCHANGED <<journalVars, localVars, dockerVars, exits, faults, world, entangled>>

\* inspect_storage: every allocation is observed, none is changed.
CheckStorage ==
  /\ stage = "checkingStorage"
  /\ GoTo("verifying")
  /\ cleared' = {}
  /\ UNCHANGED <<journalVars, localVars, dockerVars, exits, faults, world, entangled>>

RuntimeAbsent ==
  \/ FindNone(Containers, "verifying", "verifyingNetworks")
  \/ FindNone(Networks, "verifyingNetworks", "completing")

\* complete_delete, one transaction.
Complete ==
  /\ stage = "completing"
  /\ Journal!CompleteDelete(Delete)
  /\ GoTo("done")
  /\ UNCHANGED localVars
  /\ Keep

\* Any read of Docker or of the saved instance may fail.
ReadFails ==
  /\ Shared
  /\ stage \in {"listing", "listingNetworks", "checking", "removing", "again", "proving",
                "confirming", "confirmingNetworks", "checkingStorage", "verifying",
                "verifyingNetworks"}
  /\ Doubt
  /\ UNCHANGED journalVars
  /\ Keep

\* run_locked records how the stages ended.
Settle ==
  /\ \/ stage = "rejected" /\ Journal!SetStatus(Delete, "Failed")
     \/ stage = "doubtful" /\ Journal!SetStatus(Delete, "OutcomeUnknown")
  /\ GoTo("fallback")
  /\ UNCHANGED localVars
  /\ Keep

\* change_instance's last resort after a worker that did not succeed.
Fallback ==
  /\ stage = "fallback"
  /\ IF Journal!Is(Delete, {"Accepted", "Executing"})
     THEN Journal!SetStatus(Delete, "OutcomeUnknown")
     ELSE UNCHANGED journalVars
  /\ GoTo("done")
  /\ UNCHANGED localVars
  /\ Keep

-------------------------------------------------------------------------------
(* Failures, restarts and repetition *)

\* A journal call fails; what follows depends on who made it.
StoreFails ==
  /\ Shared /\ faults < MaxFaults
  /\ faults' = faults + 1
  /\ \/ stage \in {"recording", "erring", "finishing"} /\ Doubt
     \/ stage \in {"accepted", "completing", "rejected", "doubtful"} /\ End("fallback")
     \/ stage = "fallback" /\ End("done")
  /\ UNCHANGED <<journalVars, dockerVars, exits, world, history>>

Exit ==
  /\ Shared /\ exits < MaxExits
  /\ stage \notin {"idle", "down"}
  /\ exits' = exits + 1
  /\ End("down")
  /\ UNCHANGED <<journalVars, dockerVars, faults, world, history>>

Restart ==
  /\ stage = "down"
  /\ Journal!RecoverOnStartup
  /\ GoTo("done")
  /\ UNCHANGED localVars
  /\ Keep

\* What a caller of the crate does to repeat the operation, and the desktop
\* never does: settle what is in doubt, with no request left to be served,
\* retry, and run_delete again.
Reconcile ==
  /\ Repeats /\ stage = "done"
  /\ \E n \in DOMAIN step[Delete], outcome \in {"succeeded", "failed"} :
       /\ \A q \in requests : q.step # n
       /\ Journal!ReconcileStep(Delete, n, outcome)
  /\ UNCHANGED workerVars
  /\ Keep

Repeat ==
  /\ Repeats /\ stage = "done"
  /\ \/ Journal!Retry(Delete)
     \/ Journal!Is(Delete, {"Accepted"}) /\ UNCHANGED journalVars
  /\ GoTo("accepted")
  /\ UNCHANGED localVars
  /\ Keep

Work ==
  \/ Begin \/ ListContainers \/ ListNetworks \/ Checked
  \/ \E x \in Objects : Check(x) \/ Pick(x)
  \/ InspectAgain \/ RecordEffect \/ Send \/ CliSucceeds \/ CliFails \/ RecordDoubt
  \/ Prove \/ FinishEffect \/ Removed
  \/ ConfirmAbsence \/ CheckStorage \/ RuntimeAbsent \/ Complete
  \/ ReadFails \/ Settle \/ Fallback

Next ==
  \/ Accept \/ Work
  \/ StoreFails \/ Exit \/ Restart \/ Reconcile \/ Repeat
  \/ \E x \in Objects : OtherUser(x)
  \/ \E q \in requests : Serve(q)

Spec == Init /\ [][Next]_vars

\* Every CLI is killed at its deadline and the database answers; the daemon
\* serves what it was sent.
FairSpec ==
  /\ Spec
  /\ WF_vars(Accept) /\ WF_vars(Work) /\ WF_vars(Restart)
  /\ WF_vars(\E q \in requests : Serve(q))

-------------------------------------------------------------------------------
(* Properties *)

\* Whatever others do between the checks and the commands, a command is sent
\* only for an object that carries all the labels of this instance.
OnlyOwnTouched == \A q \in requests : origin[q.object] = "own"

\* While a container that is not the instance's stays connected to its
\* network, nothing at all is changed, the instance's containers included.
ForeignEndpointBlocksAll == entangled # {} => step[Delete] = <<>>

\* A delete never reaches what others have or use, at any point of its run.
StrangersAreSafe == OnlyOwnTouched /\ ForeignEndpointBlocksAll

\* At retirement every object a filter can find was created after the last
\* look, which came after the storage check (delete_operation.rs:49): nothing
\* that existed before survives its instance.
RetiredSawAbsence ==
  lifecycle[Subject] = "retired" => \A x \in Objects : Visible(x) => x \in cleared

\* A request the daemon may still serve belongs to a step in doubt of an
\* unfinished delete: retirement leaves nothing in flight.
NothingInFlightAtRetirement ==
  \A q \in requests :
    /\ step[Delete][q.step].outcome \in {Journal!Open, "unknown"}
    /\ lifecycle[Subject] = "retiring"

\* An instance is retired only when nothing of it is left, and nothing more of
\* its delete can happen.
RetirementIsFinal == RetiredSawAbsence /\ NothingInFlightAtRetirement

\* Every write of the worker, its fallback, the restart and the callers who
\* repeat a delete is a legal step of the journal, failed calls or not.
FollowsJournal == [][Journal!Next]_journalVars

\* The instance is taken for removal once and leaves it retired or not at all.
KeepsOwnership == [][Journal!Changes!Next]_(Journal!Changes!changesVars)

\* With nobody else at work and everything answering, the instance retires.
QuietDeleteRetires == ~Shared ~> lifecycle[Subject] = "retired"

===============================================================================
