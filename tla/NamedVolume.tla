------------------------------ MODULE NamedVolume ------------------------------
(***************************************************************************)
(* One named-volume allocation, from the ledger entry written with its     *)
(* instance to the last look at it: DockerNamedVolumes of                  *)
(* crates/adapters/src/named_volumes.rs.  ensure creates the volume or     *)
(* resumes its creation, inspect_only refreshes the ledger, and            *)
(* observe_saved_volume only reports.  The instance's gate lets one of     *)
(* them run at a time, but each reads the ledger, then Docker, then writes *)
(* step by step, and may be cut off anywhere.  Docker is external: others  *)
(* remove the volume or create one of the same name, and a create that was *)
(* sent may be served after its CLI is gone.  A create for an existing     *)
(* name succeeds and changes nothing.                                      *)
(***************************************************************************)
EXTENDS Integers, Sequences, FiniteSets

CONSTANTS
  MaxAttempt,  \* bound on the attempts of the creating operation
  MaxVolumes   \* bound on the volumes ever created under the name

VARIABLES
  presence,  \* storage_allocations.presence
  steps,     \* the create_volume steps of the allocation
  attempt,   \* the attempt of the operation
  volume,    \* the labels of the volume of that name, or none
  serial,    \* which of the volumes of that name it is
  sent,      \* the steps whose create command the daemon has not served
  call,      \* the method that runs
  stage,     \* where it is
  check,     \* its VolumeCheck
  created,   \* its CreateResult
  told,      \* what observe_saved_volume reported, until the next call
  kept       \* history: the volume that first was recorded present

ledgerVars == <<presence, steps, attempt>>
dockerVars == <<volume, serial, sent>>
callVars == <<call, stage, check, created>>
volumeVars == <<ledgerVars, dockerVars, callVars, told, kept>>

OpenOutcome == "open"
Calls == {"ensure", "inspect", "observe"}

HasStep(outcome) == \E n \in DOMAIN steps : steps[n].outcome = outcome
Last == Len(steps)

\* A volume of the name may be left over from anything, labels included.
VolumeInit ==
  /\ presence = "not_materialized"
  /\ steps = <<>>
  /\ attempt = 1
  /\ volume \in {"none", "own", "foreign"}
  /\ serial = 0
  /\ sent = {}
  /\ call = "none" /\ stage = "idle" /\ check = "none" /\ created = "none"
  /\ told = "nothing"
  /\ kept = -1

-------------------------------------------------------------------------------
(* Docker *)

Others ==
  /\ \/ volume # "none" /\ volume' = "none" /\ UNCHANGED serial
     \/ /\ volume = "none" /\ serial < MaxVolumes
        /\ volume' = "foreign" /\ serial' = serial + 1
  /\ UNCHANGED <<ledgerVars, sent, callVars, told, kept>>

Serve(n) ==
  /\ n \in sent
  /\ sent' = sent \ {n}
  /\ IF volume = "none"
     THEN serial < MaxVolumes /\ volume' = "own" /\ serial' = serial + 1
     ELSE UNCHANGED <<volume, serial>>
  /\ UNCHANGED <<ledgerVars, callVars, told, kept>>

-------------------------------------------------------------------------------
(* Steps shared by the methods *)

Stay == UNCHANGED <<dockerVars, told>>
Return == stage' = "idle" /\ call' = "none" /\ check' = "none" /\ created' = "none"

\* The store's own rule: missing is final, and nothing is unmaterialized again.
Allowed(p) ==
  CASE presence = "missing" -> p = "missing"
    [] presence = "not_materialized" -> TRUE
    [] OTHER -> p # "not_materialized"

SetPresence(p) ==
  /\ Allowed(p)
  /\ presence' = p
  /\ kept' = IF p = "present" /\ kept = -1 THEN serial ELSE kept
  /\ UNCHANGED <<steps, attempt>>

Finish(n, outcome) ==
  /\ steps[n].outcome = OpenOutcome
  /\ steps' = [steps EXCEPT ![n].outcome = outcome]
  /\ UNCHANGED <<presence, attempt, kept>>

\* A missing volume is neither created nor looked for.
Call(c) ==
  /\ stage = "idle"
  /\ c \in {"ensure", "inspect"} => presence # "missing"
  /\ call' = c
  /\ stage' = "inspecting"
  /\ told' = "nothing"
  /\ UNCHANGED <<ledgerVars, dockerVars, check, created, kept>>

\* inspect_volume and confirm_absent.  Any read may fail.
Look ==
  \/ check' = "unavailable"
  \/ check' = CASE volume = "none" -> "absent" [] volume = "own" -> "owned" [] OTHER -> "foreign"

Inspect ==
  /\ stage = "inspecting"
  /\ Look
  /\ stage' = "inspected"
  /\ UNCHANGED <<ledgerVars, call, created, kept>>
  /\ Stay

\* An owned volume is adopted only if its creation was recorded here.
AdoptOwned ==
  /\ stage = "inspected" /\ check = "owned" /\ call \in {"ensure", "inspect"}
  /\ steps # <<>>
  /\ IF steps[Last].outcome = OpenOutcome
     THEN Finish(Last, "succeeded")
     ELSE UNCHANGED <<ledgerVars, kept>>
  /\ stage' = "marking"
  /\ UNCHANGED <<call, check, created>>
  /\ Stay

MarkPresent ==
  /\ stage = "marking"
  /\ SetPresence("present")
  /\ Return
  /\ Stay

MarkUnverified ==
  /\ stage = "doubting"
  /\ SetPresence("unverified")
  /\ Return
  /\ Stay

\* Foreign, unavailable, or owned without a record of its creation.
Distrust ==
  /\ stage = "inspected" /\ call \in {"ensure", "inspect"}
  /\ check \in {"foreign", "unavailable"} \/ (check = "owned" /\ steps = <<>>)
  /\ SetPresence("unverified")
  /\ Return
  /\ Stay

Lost == presence = "present" \/ HasStep("succeeded")

\* What has been there is missing and is never created again.
FindMissing ==
  /\ stage = "inspected" /\ check = "absent" /\ call \in {"ensure", "inspect"}
  /\ Lost
  /\ SetPresence("missing")
  /\ Return
  /\ Stay

RetryableAfterDoubt == \A n \in DOMAIN steps : steps[n].outcome # OpenOutcome

\* Nothing was tried, or every earlier attempt established that it failed.
Retryable == \A n \in DOMAIN steps : steps[n].outcome = "failed" /\ steps[n].attempt < attempt

\* inspect_only leaves an allocation that nothing was tried for as it is.
FindAbsent ==
  /\ stage = "inspected" /\ check = "absent" /\ ~Lost
  /\ \/ call = "ensure" /\ ~Retryable /\ SetPresence("unverified")
     \/ call = "inspect" /\ steps # <<>> /\ SetPresence("unverified")
     \/ call = "inspect" /\ steps = <<>> /\ UNCHANGED <<ledgerVars, kept>>
  /\ Return
  /\ Stay

-------------------------------------------------------------------------------
(* ensure: the creation *)

RecordStep ==
  /\ stage = "inspected" /\ check = "absent" /\ call = "ensure" /\ ~Lost
  /\ Retryable
  /\ steps' = Append(steps, [attempt |-> attempt, outcome |-> OpenOutcome])
  /\ stage' = "creating"
  /\ UNCHANGED <<presence, attempt, call, check, created, kept>>
  /\ Stay

SendCommand ==
  /\ stage = "creating"
  /\ sent' = sent \cup {Last}
  /\ stage' = "waiting"
  /\ UNCHANGED <<ledgerVars, volume, serial, call, check, created, told, kept>>

\* A CLI that ends by itself leaves no request behind; one that is killed, or
\* never ran, may.
CreateVolume ==
  /\ stage \in {"creating", "waiting"}
  /\ \/ stage = "waiting" /\ Last \notin sent /\ created' = "confirmed" /\ UNCHANGED sent
     \/ created' = "rejected" /\ sent' = sent \ {Last}
     \/ created' = "uncertain" /\ sent' \in {sent, sent \ {Last}}
  /\ stage' = "verifying"
  /\ UNCHANGED <<ledgerVars, volume, serial, call, check, told, kept>>

InspectAfter ==
  /\ stage = "verifying"
  /\ Look
  /\ stage' = "verified"
  /\ UNCHANGED <<ledgerVars, call, created, kept>>
  /\ Stay

\* What is there now decides, whatever the command said.
Settle ==
  /\ stage = "verified"
  /\ \/ /\ check = "owned"
        /\ Finish(Last, "succeeded")
        /\ stage' = "marking" /\ UNCHANGED <<call, check, created>>
     \/ /\ check = "absent" /\ created # "uncertain"
        /\ Finish(Last, "failed")
        /\ Return
     \/ /\ check = "foreign"
        /\ Finish(Last, "failed")
        /\ stage' = "doubting" /\ UNCHANGED <<call, check, created>>
     \/ /\ check = "unavailable" \/ (check = "absent" /\ created = "uncertain")
        /\ Finish(Last, "unknown")
        /\ stage' = "doubting" /\ UNCHANGED <<call, check, created>>
  /\ Stay

-------------------------------------------------------------------------------
(* observe_saved_volume *)

Report ==
  CASE check = "owned" /\ HasStep("succeeded") -> "present"
    [] check = "absent" /\ presence = "not_materialized" /\ steps = <<>> -> "not_materialized"
    [] check = "absent" /\ (presence \in {"present", "missing"} \/ HasStep("succeeded")) -> "missing"
    [] OTHER -> "unverified"

Observe ==
  /\ stage = "inspected" /\ call = "observe"
  /\ told' = IF check = "unavailable" THEN "nothing" ELSE Report
  /\ Return
  /\ UNCHANGED <<ledgerVars, dockerVars, kept>>

-------------------------------------------------------------------------------
(* Interruptions, and the operation's next attempt *)

\* A crash, or a journal or ledger call that fails, ends the method.
Interrupt ==
  /\ stage # "idle"
  /\ Return
  /\ UNCHANGED <<ledgerVars, kept>>
  /\ Stay

\* The caller settles the last step from what it sees once no command is left,
\* and retries the operation.
NextAttempt ==
  /\ stage = "idle"
  /\ attempt < MaxAttempt
  /\ sent = {}
  /\ attempt' = attempt + 1
  /\ steps' = [n \in DOMAIN steps |->
       IF steps[n].outcome \in {OpenOutcome, "unknown"}
       THEN [steps[n] EXCEPT !.outcome = IF volume = "own" THEN "succeeded" ELSE "failed"]
       ELSE steps[n]]
  /\ UNCHANGED <<presence, callVars, kept>>
  /\ Stay

VolumeNext ==
  \/ Others
  \/ \E n \in DOMAIN steps : Serve(n)
  \/ \E c \in Calls : Call(c)
  \/ Inspect \/ AdoptOwned \/ MarkPresent \/ MarkUnverified \/ Distrust
  \/ FindMissing \/ FindAbsent
  \/ RecordStep \/ SendCommand \/ CreateVolume \/ InspectAfter \/ Settle
  \/ Observe \/ Interrupt \/ NextAttempt

VolumeSpec == VolumeInit /\ [][VolumeNext]_volumeVars

-------------------------------------------------------------------------------
(* Properties *)

\* A volume that was there before any creation was recorded is never taken
\* for this instance's data, not even with all its labels.
NothingIsAdopted == presence = "present" => kept > 0

\* Within one attempt, which is all that production code makes, the volume
\* under a present allocation is the one that was first recorded, never a later
\* one of the same name and labels that would be empty.
FirstVolumeStays == attempt = 1 /\ presence = "present" /\ volume = "own" => serial = kept

\* What a delete reports as never materialized has had no volume, and no
\* command that may still create one.
UnmaterializedIsTrue == told = "not_materialized" => sent = {} /\ kept = -1

SameVolume == FirstVolumeStays /\ NothingIsAdopted /\ UnmaterializedIsTrue

===============================================================================
