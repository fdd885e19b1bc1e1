------------------------- MODULE DeleteOperationProofs -------------------------
(***************************************************************************)
(* A delete is safe for any containers, networks, bounds and worlds, with  *)
(* any use others make of Docker, any deaths of the application and any    *)
(* repetitions.  The inductive invariant says, for each place the worker   *)
(* can have reached, what the objects it holds are, which requests the     *)
(* daemon may still serve, what the journal says of the delete, and what   *)
(* has been seen of every network and every object since.                  *)
(***************************************************************************)
EXTENDS DeleteOperation, TLAPS

\* Where the worker may be.
Ended == {"rejected", "doubtful", "fallback", "done", "down"}
AtObject == {"again", "recording", "sending", "waiting", "erring", "proving", "finishing"}
AfterRemoval == {"confirming", "confirmingNetworks", "checkingStorage", "verifying",
                 "verifyingNetworks", "completing"}
AfterCheck == {"removing"} \cup AtObject \cup AfterRemoval
DeleteStages ==
  {"idle", "accepted", "listing", "listingNetworks", "checking"} \cup AfterCheck \cup Ended

TypesOK ==
  /\ lifecycle \in [{Subject} -> {"managed", "retiring", "retired"}]
  /\ operation \in [{Delete} -> Journal!OperationRows \cup {NoOperation}]
  /\ step \in [{Delete} -> Seq(Journal!StepRows)]
  /\ origin \in [Objects -> Origins]
  /\ state \in [Objects -> {"unborn", "running", "stopped", "gone"}]
  /\ joined \in [Networks -> SUBSET Containers]
  /\ requests \subseteq [step : Nat \ {0}, action : {"stop", "rm"}, object : Objects]
  /\ stage \in DeleteStages
  /\ found \subseteq Objects /\ todo \subseteq Objects
  /\ doing \in {"none", "stop", "rm"}
  /\ answer \in {"none", "done", "refused"}

\* The instance retires with its delete, and the worker is then at rest.
LifeOK ==
  /\ lifecycle[Subject] = "managed" <=> ~Journal!Recorded(Delete)
  /\ stage = "idle" <=> ~Journal!Recorded(Delete)
  /\ ~Journal!Recorded(Delete) => step[Delete] = <<>>
  /\ Journal!Is(Delete, Journal!Closed) => lifecycle[Subject] = "retired"
  /\ lifecycle[Subject] = "retired" =>
       Journal!Is(Delete, {"Succeeded"}) /\ stage \in {"done", "down"}

\* What the worker is about to check or remove is on its list, and what it has
\* checked is the instance's own.
SoughtOK ==
  /\ stage = "listingNetworks" => found \subseteq Containers
  /\ stage = "checking" => todo \subseteq found /\ \A x \in found \ todo : origin[x] = "own"
  /\ stage \in {"removing"} \cup AtObject => \A x \in todo : origin[x] = "own"
  /\ stage \in AtObject => at \in todo /\ doing # "none"

\* A request that may still be served belongs to a step in doubt of an
\* unfinished delete: the last one while its command is waited for, and none
\* while the worker is anywhere else among its stages.
InFlightOK ==
  /\ \A q \in requests :
       /\ q.step \in DOMAIN step[Delete]
       /\ step[Delete][q.step].outcome \in {Journal!Open, "unknown"}
       /\ lifecycle[Subject] = "retiring"
       /\ origin[q.object] = "own"
  /\ stage \in {"sending", "waiting", "erring", "proving", "finishing"} =>
       step[Delete] # <<>> /\ step[Delete][Len(step[Delete])].outcome = Journal!Open
  /\ stage \in {"waiting", "erring"} =>
       requests \subseteq {[step |-> Len(step[Delete]), action |-> doing, object |-> at]}
  /\ stage = "waiting" /\ answer # "none" => requests = {}
  /\ stage \in ({"listing", "listingNetworks", "checking"} \cup AfterCheck) \ {"waiting", "erring"} =>
       requests = {}

\* A network entangled since acceptance is never past its check.
EntangledOK ==
  /\ \A n \in entangled : n \in Networks /\ Present(n) /\ origin[n] = "own" /\ Foreign(n)
  /\ stage = "idle" => entangled = {}
  /\ stage = "checking" => entangled \subseteq todo
  /\ stage \in AfterCheck \/ step[Delete] # <<>> => entangled = {}

\* After the last look only what was absent then can be found.
ClearedOK ==
  /\ stage = "verifyingNetworks" => \A c \in Containers : origin[c] = "other" \/ c \in cleared
  /\ stage = "completing" \/ lifecycle[Subject] = "retired" =>
       \A x \in Objects : origin[x] = "other" \/ x \in cleared

DInv == TypesOK /\ LifeOK /\ SoughtOK /\ InFlightOK /\ EntangledOK /\ ClearedOK

-------------------------------------------------------------------------------
(* The journal's actions *)

LEMMA Row ==
  ASSUME TypesOK, Journal!Recorded(Delete)
  PROVE  operation[Delete] \in Journal!OperationRows
BY DEF TypesOK, Journal!Recorded

\* A status or an attempt is written to the row of an unresolved delete.
LEMMA Written ==
  ASSUME TypesOK, Journal!Recorded(Delete), NEW attempt \in Nat, NEW status \in Journal!Statuses,
         operation' = [operation EXCEPT ![Delete].attempt = attempt, ![Delete].status = status]
  PROVE  /\ operation' \in [{Delete} -> Journal!OperationRows \cup {NoOperation}]
         /\ Journal!Recorded(Delete)'
         /\ operation'[Delete].status = status
<1>1. PICK row \in Journal!OperationRows : operation[Delete] = row
  BY Row
<1>2. [row EXCEPT !.attempt = attempt, !.status = status] \in Journal!OperationRows
  BY DEF Journal!OperationRows
<1>3. [row EXCEPT !.attempt = attempt, !.status = status].status = status
  BY DEF Journal!OperationRows
<1>4. operation'[Delete] = [row EXCEPT !.attempt = attempt, !.status = status]
  BY <1>1 DEF TypesOK
<1>5. DOMAIN operation' = {Delete} /\ operation' = [o \in {Delete} |-> operation'[o]]
  BY DEF TypesOK
<1>6. QED
  BY <1>2, <1>3, <1>4, <1>5, DeleteAssumption DEF Journal!Recorded

LEMMA StatusWritten ==
  ASSUME TypesOK, Journal!Recorded(Delete), NEW status \in Journal!Statuses,
         Journal!WriteStatus(Delete, status)
  PROVE  /\ operation' \in [{Delete} -> Journal!OperationRows \cup {NoOperation}]
         /\ Journal!Recorded(Delete)'
         /\ operation'[Delete].status = status
<1>1. PICK row \in Journal!OperationRows : operation[Delete] = row
  BY Row
<1>2. [row EXCEPT !.status = status] \in Journal!OperationRows
  BY DEF Journal!OperationRows
<1>3. [row EXCEPT !.status = status].status = status
  BY DEF Journal!OperationRows
<1>4. operation'[Delete] = [row EXCEPT !.status = status]
  BY <1>1 DEF TypesOK, Journal!WriteStatus
<1>5. DOMAIN operation' = {Delete} /\ operation' = [o \in {Delete} |-> operation'[o]]
  BY DEF TypesOK, Journal!WriteStatus
<1>6. QED
  BY <1>2, <1>3, <1>4, <1>5, DeleteAssumption DEF Journal!Recorded

\* A step's outcome is written.
LEMMA OutcomeWritten ==
  ASSUME TypesOK, NEW n \in DOMAIN step[Delete], NEW outcome \in Journal!Outcomes,
         step' = [step EXCEPT ![Delete][n].outcome = outcome]
  PROVE  /\ step' \in [{Delete} -> Seq(Journal!StepRows)]
         /\ Len(step'[Delete]) = Len(step[Delete])
         /\ DOMAIN step'[Delete] = DOMAIN step[Delete]
         /\ step'[Delete][n].outcome = outcome
         /\ \A m \in DOMAIN step[Delete] : m # n => step'[Delete][m] = step[Delete][m]
<1>1. PICK rows \in Seq(Journal!StepRows) : step[Delete] = rows
  BY DEF TypesOK
<1>2. PICK row \in Journal!StepRows : rows[n] = row
  BY <1>1
<1>3. /\ [row EXCEPT !.outcome = outcome] \in Journal!StepRows
      /\ [row EXCEPT !.outcome = outcome].outcome = outcome
  BY DEF Journal!StepRows
<1>4. step'[Delete] = [rows EXCEPT ![n] = [row EXCEPT !.outcome = outcome]]
  BY <1>1, <1>2 DEF TypesOK
<1>5. DOMAIN step' = {Delete} /\ step' = [o \in {Delete} |-> step'[o]]
  BY DEF TypesOK
<1>6. PICK new \in Journal!StepRows : new = [row EXCEPT !.outcome = outcome]
  BY <1>3
<1>7. step'[Delete] = [rows EXCEPT ![n] = new] /\ new.outcome = outcome
  BY <1>3, <1>4, <1>6
<1>8. /\ [rows EXCEPT ![n] = new] \in Seq(Journal!StepRows)
      /\ Len([rows EXCEPT ![n] = new]) = Len(rows)
      /\ \A m \in DOMAIN rows : [rows EXCEPT ![n] = new][m] = IF m = n THEN new ELSE rows[m]
  BY <1>1, <1>6
<1>9. QED
  BY <1>1, <1>5, <1>7, <1>8

\* A step is recorded.
LEMMA StepAppended ==
  ASSUME TypesOK, Journal!Recorded(Delete), NEW n, NEW attempt,
         Journal!RecordStep(Delete, n, attempt)
  PROVE  /\ step' \in [{Delete} -> Seq(Journal!StepRows)]
         /\ Len(step'[Delete]) = Len(step[Delete]) + 1
         /\ step'[Delete] # <<>>
         /\ DOMAIN step'[Delete] = DOMAIN step[Delete] \cup {Len(step'[Delete])}
         /\ step'[Delete][Len(step'[Delete])].outcome = Journal!Open
         /\ \A m \in DOMAIN step[Delete] : step'[Delete][m] = step[Delete][m]
<1>1. PICK rows \in Seq(Journal!StepRows) : step[Delete] = rows
  BY DEF TypesOK
<1>2. operation[Delete].attempt = attempt /\ attempt \in Nat
  BY Row DEF Journal!OperationRows, Journal!RecordStep
<1>3. PICK new \in Journal!StepRows : new = [attempt |-> attempt, outcome |-> Journal!Open]
  BY <1>2 DEF Journal!StepRows
<1>4. step'[Delete] = Append(rows, new)
  BY <1>1, <1>3 DEF TypesOK, Journal!RecordStep
<1>5. DOMAIN step' = {Delete} /\ step' = [o \in {Delete} |-> step'[o]]
  BY DEF TypesOK, Journal!RecordStep
<1>6. new.outcome = Journal!Open
  BY <1>3
<1> HIDE DEF Journal!StepRows
<1>7. QED
  BY <1>1, <1>4, <1>5, <1>6

-------------------------------------------------------------------------------
(* Where nothing is known *)

LEMMA Initially == Init => DInv
<1> SUFFICES ASSUME Init PROVE DInv
  OBVIOUS
<1>1. TypesOK
  BY DEF Init, TypesOK, DeleteStages
<1>2. ~Journal!Recorded(Delete) /\ step[Delete] = <<>> /\ lifecycle[Subject] = "managed"
  BY DEF Init, Journal!Recorded
<1>3. QED
  BY <1>1, <1>2 DEF Init, DInv, LifeOK, SoughtOK, InFlightOK, EntangledOK, ClearedOK, Journal!Is,
     AfterCheck, AtObject, AfterRemoval

LEMMA EndKeeps ==
  ASSUME DInv, stage # "idle", NEW s \in Ended, lifecycle[Subject] = "retired" => s \in {"done", "down"},
         End(s), UNCHANGED <<journalVars, dockerVars, history>>
  PROVE  DInv'
<1>1. TypesOK'
  BY DEF DInv, TypesOK, End, GoTo, DeleteStages, Ended, journalVars, dockerVars
<1>2. LifeOK'
  BY DEF DInv, LifeOK, End, GoTo, Ended, journalVars, Journal!Recorded, Journal!Is
<1>3. SoughtOK' /\ ClearedOK'
  BY DEF DInv, SoughtOK, ClearedOK, End, GoTo, Ended, AtObject, journalVars, dockerVars, history
<1>4. InFlightOK'
  BY DEF DInv, InFlightOK, End, GoTo, Ended, AfterCheck, AtObject, AfterRemoval, journalVars, dockerVars
<1>5. EntangledOK'
  BY DEF DInv, EntangledOK, End, GoTo, Ended, AfterCheck, AtObject, AfterRemoval, journalVars, dockerVars, history,
     Present, Foreign, Endpoints
<1>6. QED
  BY <1>1, <1>2, <1>3, <1>4, <1>5 DEF DInv

-------------------------------------------------------------------------------
(* Docker and its other users *)

\* A change of one object's life, or of the endpoints of a network, with at
\* most a request served.
LEMMA SetStateKeeps ==
  ASSUME DInv, NEW x \in Objects, NEW s \in {"unborn", "running", "stopped", "gone"}, SetState(x, s),
         joined' \in [Networks -> SUBSET Containers],
         UNCHANGED <<stage, found, todo, at, doing>>,
         requests' \subseteq requests, answer' \in {"none", "done", "refused"},
         stage = "waiting" /\ answer' # "none" => requests' = {},
         x \in entangled => s # "unborn" /\ s # "gone"
  PROVE  DInv'
<1>1. /\ UNCHANGED <<lifecycle, operation, step, origin, cleared>>
      /\ state' = [state EXCEPT ![x] = s]
      /\ entangled' = {n \in entangled : \E c \in joined'[n] : state'[c] = "running" /\ origin[c] # "own"}
  BY DEF SetState, Disentangle, journalVars
<1>2. TypesOK'
  BY <1>1 DEF DInv, TypesOK
<1>3. LifeOK' /\ SoughtOK' /\ ClearedOK'
  BY <1>1 DEF DInv, LifeOK, SoughtOK, ClearedOK, Journal!Recorded, Journal!Is
<1>4. InFlightOK'
  BY <1>1 DEF DInv, InFlightOK
<1>5. EntangledOK'
  <2>1. ASSUME NEW n \in entangled'
        PROVE  n \in Networks /\ Present(n)' /\ origin'[n] = "own" /\ Foreign(n)'
    <3>1. n \in entangled /\ n \in Networks /\ Present(n) /\ origin[n] = "own"
      BY <1>1 DEF DInv, EntangledOK
    <3>2. Present(n)'
      BY <1>1, <3>1 DEF Present, DInv, TypesOK, Objects
    <3>3. Foreign(n)'
      BY <1>1 DEF Foreign, Endpoints
    <3>4. QED
      BY <1>1, <3>1, <3>2, <3>3
  <2>2. QED
    BY <1>1, <2>1 DEF DInv, EntangledOK
<1>6. QED
  BY <1>2, <1>3, <1>4, <1>5 DEF DInv

LEMMA OtherUserKeeps ==
  ASSUME DInv, NEW x \in Objects, OtherUser(x)
  PROVE  DInv'
<1>1. /\ UNCHANGED <<requests, stage, found, todo, at, doing, answer>>
      /\ answer \in {"none", "done", "refused"}
      /\ stage = "waiting" /\ answer' # "none" => requests' = {}
      /\ joined \in [Networks -> SUBSET Containers]
      /\ state \in [Objects -> {"unborn", "running", "stopped", "gone"}]
  BY DEF OtherUser, workerVars, DInv, TypesOK, InFlightOK
<1>2. x \in entangled => x \in Networks /\ x \notin Containers /\ Present(x) /\ Endpoints(x) # {}
  BY DeleteAssumption DEF DInv, EntangledOK, Foreign
<1>3. CASE UNCHANGED joined
  <2>1. PICK s \in {"unborn", "running", "stopped", "gone"} :
          SetState(x, s) /\ (x \in entangled => s # "unborn" /\ s # "gone")
    BY <1>1, <1>2, <1>3 DEF OtherUser, Present
  <2>2. QED
    BY <1>1, <1>3, <2>1, SetStateKeeps
<1>4. CASE \E c \in Containers :
             /\ Present(c)
             /\ joined' = [joined EXCEPT ![x] = IF c \in @ THEN @ \ {c} ELSE @ \cup {c}]
             /\ x \in Networks /\ Present(x)
             /\ SetState(x, state[x])
  <2>1. joined' \in [Networks -> SUBSET Containers]
    BY <1>1, <1>4
  <2>2. state[x] \in {"running", "stopped"}
    BY <1>4 DEF Present
  <2>3. QED
    BY <1>1, <1>4, <2>1, <2>2, SetStateKeeps
<1>5. QED
  BY <1>3, <1>4 DEF OtherUser

LEMMA ServeKeeps ==
  ASSUME DInv, NEW q \in requests, Serve(q)
  PROVE  DInv'
<1> DEFINE x == q.object
           done == Present(x) /\ ~Refused(q)
<1>1. /\ x \in Objects /\ q.action \in {"stop", "rm"}
      /\ UNCHANGED <<stage, found, todo, at, doing, joined>>
      /\ requests' = requests \ {q}
      /\ joined \in [Networks -> SUBSET Containers]
      /\ state \in [Objects -> {"unborn", "running", "stopped", "gone"}]
  BY DEF Serve, DInv, TypesOK
<1>2. answer' = (IF stage = "waiting" /\ q.step = Len(step[Delete])
                 THEN IF done THEN "done" ELSE "refused"
                 ELSE answer)
  BY DEF Serve
<1>3. answer' \in {"none", "done", "refused"}
  BY <1>2 DEF DInv, TypesOK
<1>4. stage = "waiting" => requests' = {}
  BY <1>1 DEF DInv, InFlightOK
<1>5. x \in entangled => x \in Networks /\ Present(x) /\ Endpoints(x) # {}
  BY DEF DInv, EntangledOK, Foreign
<1>6. CASE done
  <2>1. SetState(x, IF q.action = "rm" THEN "gone" ELSE "stopped")
    BY <1>6 DEF Serve
  <2>2. x \in entangled => q.action # "rm"
    BY <1>5, <1>6 DEF Refused
  <2>3. CASE q.action = "rm"
    BY <1>1, <1>3, <1>4, <2>1, <2>2, <2>3, SetStateKeeps
  <2>4. CASE q.action = "stop"
    BY <1>1, <1>3, <1>4, <2>1, <2>2, <2>4, SetStateKeeps
  <2>5. QED
    BY <1>1, <2>3, <2>4
<1>7. CASE ~done
  <2>1. SetState(x, state[x])
    BY <1>7 DEF Serve
  <2>2. x \in entangled => state[x] # "unborn" /\ state[x] # "gone"
    BY <1>5 DEF Present
  <2>3. QED
    BY <1>1, <1>3, <1>4, <2>1, <2>2, SetStateKeeps
<1>8. QED
  BY <1>6, <1>7

-------------------------------------------------------------------------------
(* The worker: steps that write nothing *)

AtStep == {"sending", "waiting", "erring", "proving", "finishing"}
NoRequests == ({"listing", "listingNetworks", "checking"} \cup AfterCheck) \ {"waiting", "erring"}

LEMMA NotRetired ==
  ASSUME DInv, stage \notin {"idle", "done", "down"}
  PROVE  lifecycle[Subject] = "retiring" /\ Journal!Recorded(Delete)
BY DEF DInv, TypesOK, LifeOK

LEMMA Moves ==
  ASSUME DInv, UNCHANGED <<journalVars, dockerVars, history>>,
         stage \notin {"idle", "done", "down"}, stage' \in DeleteStages \ {"idle", "verifyingNetworks", "completing"},
         found' \subseteq Objects, todo' \subseteq Objects,
         doing' \in {"none", "stop", "rm"}, answer' \in {"none", "done", "refused"},
         requests = {},
         stage' \in AtStep => stage \in AtStep,
         stage' = "checking" => entangled \subseteq todo',
         stage' \in AfterCheck => entangled = {},
         SoughtOK'
  PROVE  DInv'
<1>1. TypesOK'
  BY DEF DInv, TypesOK, journalVars, dockerVars
<1>2. LifeOK'
  BY NotRetired DEF DInv, LifeOK, journalVars, Journal!Recorded, Journal!Is
<1>3. InFlightOK'
  BY DEF DInv, InFlightOK, AtStep, journalVars, dockerVars
<1>4. EntangledOK'
  BY DEF DInv, EntangledOK, journalVars, dockerVars, history, Present, Foreign, Endpoints
<1>5. ClearedOK'
  BY NotRetired DEF DInv, ClearedOK, journalVars, dockerVars, history
<1>6. QED
  BY <1>1, <1>2, <1>3, <1>4, <1>5 DEF DInv

LEMMA DoubtKeeps ==
  ASSUME DInv, stage \notin {"idle", "done", "down"}, Doubt \/ Reject, UNCHANGED <<journalVars, dockerVars, history>>
  PROVE  DInv'
BY EndKeeps, NotRetired DEF Doubt, Reject, Ended

LEMMA ListingKeeps ==
  ASSUME DInv, ListContainers \/ ListNetworks
  PROVE  DInv'
<1>1. stage \in {"listing", "listingNetworks"} /\ UNCHANGED <<journalVars, dockerVars, history>>
  BY DEF ListContainers, ListNetworks, Keep
<1>2. /\ requests = {} /\ doing \in {"none", "stop", "rm"} /\ answer \in {"none", "done", "refused"}
      /\ found \subseteq Objects /\ todo \subseteq Objects
  BY <1>1 DEF DInv, InFlightOK, TypesOK
<1>3. CASE ListContainers
  BY <1>1, <1>2, <1>3, Moves DEF ListContainers, GoTo, SoughtOK, Objects, DeleteStages, AfterCheck, AtObject,
     AfterRemoval, AtStep
<1>4. CASE ListNetworks
  <2>1. entangled \subseteq todo'
    BY <1>4 DEF ListNetworks, DInv, EntangledOK, Visible
  <2>2. QED
    BY <1>1, <1>2, <1>4, <2>1, Moves DEF ListNetworks, GoTo, SoughtOK, Objects, DeleteStages, AfterCheck, AtObject,
       AfterRemoval, AtStep
<1>5. QED
  BY <1>3, <1>4

LEMMA CheckKeeps ==
  ASSUME DInv, NEW x \in Objects, Check(x)
  PROVE  DInv'
<1>1. /\ stage = "checking" /\ UNCHANGED <<journalVars, dockerVars, history>>
      /\ x \in todo /\ requests = {}
  BY DEF Check, NextOf, Keep, DInv, InFlightOK
<1>2. CASE ~Present(x) \/ ~Acceptable(x)
  BY <1>1, <1>2, DoubtKeeps DEF Check
<1>3. CASE Present(x) /\ Acceptable(x)
  <2>1. todo' = todo \ {x} /\ found' = found /\ UNCHANGED <<stage, at, doing, answer>>
    BY <1>3 DEF Check
  <2>2. x \notin entangled
    <3>1. SUFFICES ASSUME x \in entangled PROVE FALSE
      OBVIOUS
    <3>2. x \in Networks /\ \E c \in Endpoints(x) : origin[c] # "own"
      BY <3>1 DEF DInv, EntangledOK, Foreign
    <3>3. PICK c \in Endpoints(x) : origin[c] # "own"
      BY <3>2
    <3>4. c \in found /\ c \in Containers
      BY <1>3, <3>2 DEF Acceptable, Endpoints, DInv, TypesOK
    <3>5. c \notin todo
      BY <3>2, <3>4 DEF Check, NextOf
    <3>6. QED
      BY <1>1, <3>3, <3>4, <3>5 DEF DInv, SoughtOK
  <2>3. entangled \subseteq todo'
    BY <1>1, <2>1, <2>2 DEF DInv, EntangledOK
  <2>4. SoughtOK'
    BY <1>1, <1>3, <2>1 DEF DInv, SoughtOK, Acceptable, AtObject, dockerVars
  <2>5. found' \subseteq Objects /\ todo' \subseteq Objects
    BY <2>1 DEF DInv, TypesOK
  <2>6. doing' \in {"none", "stop", "rm"} /\ answer' \in {"none", "done", "refused"}
    BY <2>1 DEF DInv, TypesOK
  <2>7. QED
    BY <1>1, <2>1, <2>3, <2>4, <2>5, <2>6, Moves DEF DeleteStages, AfterCheck, AtObject, AfterRemoval, AtStep
<1>4. QED
  BY <1>2, <1>3

LEMMA CheckedKeeps ==
  ASSUME DInv, Checked
  PROVE  DInv'
<1>1. /\ stage = "checking" /\ stage' = "removing" /\ todo' = found /\ found' = {}
      /\ UNCHANGED <<journalVars, dockerVars, history, at, doing, answer>>
  BY DEF Checked, GoTo, Keep
<1>2. /\ requests = {} /\ entangled = {} /\ found \subseteq Objects
      /\ doing \in {"none", "stop", "rm"} /\ answer \in {"none", "done", "refused"}
  BY <1>1 DEF Checked, DInv, InFlightOK, EntangledOK, TypesOK
<1>3. SoughtOK'
  BY <1>1 DEF Checked, DInv, SoughtOK, AtObject, dockerVars
<1>4. QED
  BY <1>1, <1>2, <1>3, Moves DEF DeleteStages, AfterCheck, AtStep

LEMMA PickKeeps ==
  ASSUME DInv, NEW x \in Objects, Pick(x)
  PROVE  DInv'
<1>1. /\ stage = "removing" /\ UNCHANGED <<journalVars, dockerVars, history>>
      /\ x \in todo /\ requests = {} /\ entangled = {}
  BY DEF Pick, NextOf, Keep, DInv, InFlightOK, EntangledOK, AfterCheck
<1>2. CASE Doubt \/ Reject
  BY <1>1, <1>2, DoubtKeeps
<1>3. CASE /\ at' = x
           /\ doing' = IF x \in Containers /\ state[x] = "running" THEN "stop" ELSE "rm"
           /\ GoTo(IF x \in Containers /\ state[x] = "stopped" THEN "again" ELSE "recording")
           /\ UNCHANGED <<found, todo, answer>>
  <2>1. stage' \in {"again", "recording"} /\ doing' \in {"stop", "rm"}
    BY <1>3 DEF GoTo
  <2>2. SoughtOK'
    BY <1>1, <1>3, <2>1 DEF DInv, SoughtOK, AtObject, dockerVars
  <2>3. found' \subseteq Objects /\ todo' \subseteq Objects /\ answer' \in {"none", "done", "refused"}
    BY <1>3 DEF DInv, TypesOK
  <2>4. QED
    BY <1>1, <2>1, <2>2, <2>3, Moves DEF DeleteStages, AfterCheck, AtObject, AtStep
<1>4. QED
  BY <1>2, <1>3 DEF Pick

LEMMA LooksKeep ==
  ASSUME DInv, InspectAgain \/ CliSucceeds \/ Prove \/ Removed
  PROVE  DInv'
<1>1. /\ stage \in {"again", "waiting", "proving", "removing"}
      /\ UNCHANGED <<journalVars, dockerVars, history>>
  BY DEF InspectAgain, CliSucceeds, Prove, Removed, Keep
<1>2. requests = {} /\ entangled = {}
  BY <1>1 DEF InspectAgain, CliSucceeds, Prove, Removed, DInv, InFlightOK, EntangledOK, AfterCheck, AtObject
<1>3. CASE Doubt
  BY <1>1, <1>3, DoubtKeeps
<1>4. CASE ~Doubt
  <2>1. /\ UNCHANGED <<found, todo, at, answer>> /\ doing' \in {doing, "rm"}
        /\ <<stage, stage'>> \in {<<"again", "recording">>, <<"waiting", "proving">>,
                                  <<"proving", "finishing">>, <<"removing", "confirming">>}
    BY <1>4 DEF InspectAgain, CliSucceeds, Prove, Removed, localVars, GoTo
  <2>2. SoughtOK'
    BY <1>1, <2>1 DEF DInv, SoughtOK, AtObject, dockerVars
  <2>3. /\ found' \subseteq Objects /\ todo' \subseteq Objects
        /\ doing' \in {"none", "stop", "rm"} /\ answer' \in {"none", "done", "refused"}
    BY <2>1 DEF DInv, TypesOK
  <2>4. stage' \in AtStep => stage \in AtStep
    BY <2>1 DEF AtStep
  <2>5. stage' \in DeleteStages \ {"idle", "verifyingNetworks", "completing"} /\ stage' # "checking"
    BY <2>1 DEF DeleteStages, AfterCheck, AtObject, AfterRemoval
  <2>6. QED
    BY <1>1, <1>2, <2>2, <2>3, <2>4, <2>5, Moves
<1>5. QED
  BY <1>3, <1>4

-------------------------------------------------------------------------------
(* The worker: acceptance and its status *)

LEMMA AcceptKeeps ==
  ASSUME DInv, Accept
  PROVE  DInv'
<1>1. /\ stage = "idle" /\ stage' = "accepted" /\ Journal!Accept(Request, Delete, Subject, "delete", 1)
      /\ UNCHANGED <<found, todo, at, doing, answer, origin, state, joined, requests, cleared>>
      /\ entangled' = {n \in Networks : Present(n) /\ origin[n] = "own" /\ Foreign(n)}
  BY DEF Accept, GoTo, localVars, dockerVars
<1>2. /\ ~Journal!Recorded(Delete) /\ step[Delete] = <<>> /\ step' = step
      /\ lifecycle[Subject] = "managed" /\ requests = {}
  BY <1>1 DEF DInv, TypesOK, LifeOK, InFlightOK, Journal!Accept
<1>3. PICK new \in Journal!OperationRows :
        new = Journal!NewOperation(Subject, "delete", 1)
  BY DEF Journal!NewOperation, Journal!OperationRows, Journal!Kinds, Journal!Statuses
<1>4. new.status = "Accepted"
  BY <1>3 DEF Journal!NewOperation
<1>5. /\ operation' = [operation EXCEPT ![Delete] = new]
      /\ lifecycle' = [lifecycle EXCEPT ![Subject] = "retiring"]
  BY <1>1, <1>3 DEF Journal!Accept
<1>6. Journal!Recorded(Delete)' /\ operation'[Delete] = new
  BY <1>5, DeleteAssumption DEF Journal!Recorded, DInv, TypesOK
<1>7. TypesOK'
  BY <1>1, <1>2, <1>5 DEF DInv, TypesOK, DeleteStages
<1>8. lifecycle'[Subject] = "retiring"
  BY <1>5 DEF DInv, TypesOK
<1>9. LifeOK'
  BY <1>1, <1>4, <1>6, <1>8 DEF LifeOK, Journal!Is, Journal!Closed
<1>10. SoughtOK' /\ InFlightOK' /\ ClearedOK'
  BY <1>1, <1>2, <1>8 DEF SoughtOK, InFlightOK, ClearedOK, AtObject, AfterCheck, AfterRemoval
<1>11. EntangledOK'
  BY <1>1, <1>2 DEF EntangledOK, AfterCheck, AtObject, AfterRemoval, Present, Foreign, Endpoints
<1>12. QED
  BY <1>7, <1>9, <1>10, <1>11 DEF DInv

\* A status is written while the instance is retiring, and the worker begins,
\* is done or falls back.
LEMMA StatusKeeps ==
  ASSUME DInv, stage \notin {"idle", "done", "down"} \cup AfterCheck, NEW status \in {"Executing", "Failed", "OutcomeUnknown"},
         Journal!SetStatus(Delete, status),
         stage' \in {"listing", "fallback", "done"},
         stage' = "listing" => requests = {},
         UNCHANGED <<localVars, dockerVars, history>>
  PROVE  DInv'
<1>1. /\ Journal!Recorded(Delete) /\ lifecycle[Subject] = "retiring" /\ Journal!WriteStatus(Delete, status)
      /\ UNCHANGED <<lifecycle, step>> /\ status \in Journal!Statuses
  BY NotRetired DEF Journal!SetStatus, Journal!instanceVars, Journal!Statuses, Journal!Paused
<1>2. /\ operation' \in [{Delete} -> Journal!OperationRows \cup {NoOperation}]
      /\ Journal!Recorded(Delete)' /\ operation'[Delete].status = status
  BY <1>1, StatusWritten DEF DInv
<1>3. TypesOK'
  BY <1>1, <1>2 DEF DInv, TypesOK, DeleteStages, Ended, localVars, dockerVars
<1>4. LifeOK'
  BY <1>1, <1>2 DEF LifeOK, Journal!Is, Journal!Closed
<1>5. SoughtOK' /\ ClearedOK'
  BY <1>1 DEF SoughtOK, ClearedOK, AtObject
<1>6. InFlightOK'
  BY <1>1 DEF DInv, InFlightOK, AfterCheck, AtObject, AfterRemoval, localVars, dockerVars
<1>7. EntangledOK'
  BY <1>1 DEF DInv, EntangledOK, AfterCheck, AtObject, AfterRemoval, dockerVars, history, Present, Foreign, Endpoints
<1>8. QED
  BY <1>3, <1>4, <1>5, <1>6, <1>7 DEF DInv

\* The worker gives up without a word.
LEMMA RestKeeps ==
  ASSUME DInv, stage \notin {"idle", "done", "down"} \cup AfterCheck, stage' \in {"fallback", "done"},
         UNCHANGED <<journalVars, localVars, dockerVars, history>>
  PROVE  DInv'
<1>1. TypesOK'
  BY DEF DInv, TypesOK, DeleteStages, Ended, journalVars, localVars, dockerVars
<1>2. LifeOK' /\ SoughtOK' /\ ClearedOK'
  BY NotRetired DEF DInv, LifeOK, SoughtOK, ClearedOK, AtObject, journalVars, Journal!Recorded, Journal!Is
<1>3. InFlightOK'
  BY DEF DInv, InFlightOK, AfterCheck, AtObject, AfterRemoval, journalVars, dockerVars
<1>4. EntangledOK'
  BY DEF DInv, EntangledOK, AfterCheck, AtObject, AfterRemoval, journalVars, dockerVars, history,
     Present, Foreign, Endpoints
<1>5. QED
  BY <1>1, <1>2, <1>3, <1>4 DEF DInv

LEMMA BeginKeeps ==
  ASSUME DInv, Begin
  PROVE  DInv'
<1>1. /\ stage = "accepted" /\ UNCHANGED <<localVars, dockerVars, history>>
      /\ stage \notin {"idle", "done", "down"} \cup AfterCheck
  BY DEF Begin, Keep, AfterCheck, AtObject, AfterRemoval
<1>2. CASE Pending
  <2>1. requests = {}
    <3>1. ~Journal!HasStep(Delete, {Journal!Open, "unknown"})
      BY <1>2 DEF Pending
    <3>2. QED
      BY <3>1 DEF DInv, InFlightOK, Journal!HasStep
  <2>2. Journal!SetStatus(Delete, "Executing") /\ stage' = "listing"
    BY <1>2 DEF Begin, GoTo
  <2>3. QED
    BY <1>1, <2>1, <2>2, StatusKeeps
<1>3. CASE ~Pending
  BY <1>1, <1>3, RestKeeps DEF Begin, GoTo
<1>4. QED
  BY <1>2, <1>3

LEMMA SettleKeeps ==
  ASSUME DInv, Settle
  PROVE  DInv'
<1>1. /\ stage \in {"rejected", "doubtful"} /\ UNCHANGED <<localVars, dockerVars, history>>
      /\ stage \notin {"idle", "done", "down"} \cup AfterCheck /\ stage' = "fallback"
  BY DEF Settle, Keep, GoTo, AfterCheck, AtObject, AfterRemoval
<1>2. Journal!SetStatus(Delete, "Failed") \/ Journal!SetStatus(Delete, "OutcomeUnknown")
  BY DEF Settle
<1>3. QED
  BY <1>1, <1>2, StatusKeeps

LEMMA FallbackKeeps ==
  ASSUME DInv, Fallback
  PROVE  DInv'
<1>1. /\ stage = "fallback" /\ UNCHANGED <<localVars, dockerVars, history>>
      /\ stage \notin {"idle", "done", "down"} \cup AfterCheck /\ stage' = "done"
  BY DEF Fallback, Keep, GoTo, AfterCheck, AtObject, AfterRemoval
<1>2. Journal!SetStatus(Delete, "OutcomeUnknown") \/ UNCHANGED journalVars
  BY DEF Fallback
<1>3. QED
  BY <1>1, <1>2, StatusKeeps, RestKeeps

-------------------------------------------------------------------------------
(* The worker: one effect *)

LEMMA RecordEffectKeeps ==
  ASSUME DInv, RecordEffect
  PROVE  DInv'
<1>1. /\ stage = "recording" /\ stage' = "sending" /\ UNCHANGED <<localVars, dockerVars, history>>
      /\ requests = {} /\ entangled = {}
  BY DEF RecordEffect, Keep, GoTo, DInv, InFlightOK, EntangledOK, AfterCheck, AtObject
<1>2. Journal!Recorded(Delete) /\ lifecycle[Subject] = "retiring"
  BY <1>1, NotRetired
<1>3. UNCHANGED <<lifecycle, operation>>
  BY DEF RecordEffect, Journal!RecordStep, Journal!instanceVars
<1>4. /\ step' \in [{Delete} -> Seq(Journal!StepRows)]
      /\ step'[Delete] # <<>>
      /\ step'[Delete][Len(step'[Delete])].outcome = Journal!Open
  BY <1>2, StepAppended DEF RecordEffect, DInv
<1>5. TypesOK'
  BY <1>1, <1>3, <1>4 DEF DInv, TypesOK, DeleteStages, AfterCheck, AtObject, localVars, dockerVars
<1>6. LifeOK' /\ SoughtOK' /\ ClearedOK'
  BY <1>1, <1>2, <1>3 DEF DInv, LifeOK, SoughtOK, ClearedOK, AtObject, localVars, dockerVars, Journal!Recorded, Journal!Is
<1>7. InFlightOK' /\ EntangledOK'
  BY <1>1, <1>4 DEF InFlightOK, EntangledOK, dockerVars, history
<1>8. QED
  BY <1>5, <1>6, <1>7 DEF DInv

\* The requests of the command at hand change.
LEMMA CommandKeeps ==
  ASSUME DInv, stage \in {"sending", "waiting"}, stage' \in {"waiting", "erring"},
         requests' \subseteq {[step |-> Len(step[Delete]), action |-> doing, object |-> at]},
         answer' \in {"none", "done", "refused"}, stage' = "waiting" => answer' = "none",
         UNCHANGED <<journalVars, origin, state, joined, found, todo, at, doing, history>>
  PROVE  DInv'
<1>1. /\ at \in Objects /\ origin[at] = "own" /\ doing \in {"stop", "rm"} /\ entangled = {}
      /\ step[Delete] # <<>> /\ step[Delete][Len(step[Delete])].outcome = Journal!Open
      /\ lifecycle[Subject] = "retiring"
  BY NotRetired DEF DInv, TypesOK, SoughtOK, InFlightOK, EntangledOK, AtObject, AfterCheck
<1>2. Len(step[Delete]) \in Nat \ {0} /\ Len(step[Delete]) \in DOMAIN step[Delete]
  BY <1>1 DEF DInv, TypesOK
<1>3. TypesOK'
  BY <1>1, <1>2 DEF DInv, TypesOK, DeleteStages, AfterCheck, AtObject, journalVars
<1>4. LifeOK' /\ SoughtOK' /\ ClearedOK'
  BY <1>1 DEF DInv, LifeOK, SoughtOK, ClearedOK, AtObject, journalVars, Journal!Recorded, Journal!Is
<1>5. InFlightOK'
  BY <1>1, <1>2 DEF DInv, InFlightOK, journalVars
<1>6. EntangledOK'
  BY <1>1 DEF EntangledOK, history
<1>7. QED
  BY <1>3, <1>4, <1>5, <1>6 DEF DInv

LEMMA SendKeeps ==
  ASSUME DInv, Send
  PROVE  DInv'
<1>1. requests = {}
  BY DEF Send, DInv, InFlightOK, AfterCheck, AtObject
<1>2. QED
  BY <1>1, CommandKeeps DEF Send, GoTo, history

LEMMA CliFailsKeeps ==
  ASSUME DInv, CliFails
  PROVE  DInv'
<1>1. requests \subseteq {[step |-> Len(step[Delete]), action |-> doing, object |-> at]}
  BY DEF CliFails, DInv, InFlightOK, AfterCheck, AtObject
<1>2. requests' \subseteq requests
  BY DEF CliFails
<1>3. answer' \in {"none", "done", "refused"}
  BY DEF CliFails, localVars, DInv, TypesOK
<1>4. QED
  BY <1>1, <1>2, <1>3, CommandKeeps DEF CliFails, GoTo, localVars, history

\* The outcome of a step no request belongs to, or that stays in doubt.
LEMMA OutcomeKeeps ==
  ASSUME DInv, NEW n \in DOMAIN step[Delete], NEW outcome \in Journal!Outcomes,
         Journal!FinishStep(Delete, n, outcome) \/ Journal!ReconcileStep(Delete, n, outcome),
         outcome = "unknown" \/ \A q \in requests : q.step # n,
         stage \notin {"idle", "down"}, stage' \in {"again", "removing", "doubtful", "done"},
         stage' # "doubtful" /\ stage # "done" => requests = {} /\ entangled = {},
         stage' # stage => stage # "done" /\ stage' # "done",
         found' \subseteq Objects, todo' \subseteq Objects,
         doing' \in {"none", "stop", "rm"}, answer' \in {"none", "done", "refused"},
         UNCHANGED <<dockerVars, history>>,
         SoughtOK'
  PROVE  DInv'
<1>1. UNCHANGED <<lifecycle, operation>> /\ step' = [step EXCEPT ![Delete][n].outcome = outcome]
  BY DEF Journal!FinishStep, Journal!ReconcileStep, Journal!instanceVars
<1>2. /\ step' \in [{Delete} -> Seq(Journal!StepRows)]
      /\ DOMAIN step'[Delete] = DOMAIN step[Delete]
      /\ step'[Delete][n].outcome = outcome
      /\ \A m \in DOMAIN step[Delete] : m # n => step'[Delete][m] = step[Delete][m]
  BY <1>1, OutcomeWritten DEF DInv
<1>3. step[Delete] # <<>>
  OBVIOUS
<1>4. Journal!Recorded(Delete)
  BY <1>3 DEF DInv, LifeOK
<1>5. TypesOK'
  BY <1>1, <1>2 DEF DInv, TypesOK, DeleteStages, AfterCheck, AtObject, Ended, dockerVars
<1>6. LifeOK'
  BY <1>1, <1>4 DEF DInv, LifeOK, Journal!Recorded, Journal!Is
<1>7. InFlightOK'
  <2>1. ASSUME NEW q \in requests
        PROVE  /\ q.step \in DOMAIN step'[Delete]
               /\ step'[Delete][q.step].outcome \in {Journal!Open, "unknown"}
               /\ lifecycle'[Subject] = "retiring"
               /\ origin[q.object] = "own"
    BY <1>1, <1>2 DEF DInv, InFlightOK
  <2>2. stage' = "done" => stage = "done"
    OBVIOUS
  <2>3. QED
    BY <2>1, <2>2 DEF InFlightOK, dockerVars, AfterCheck, AtObject, AfterRemoval
<1>8. EntangledOK'
  <2>1. entangled = {}
    BY <1>3 DEF DInv, EntangledOK
  <2>2. QED
    BY <2>1 DEF EntangledOK, history
<1>9. ClearedOK'
  BY <1>1 DEF DInv, ClearedOK, dockerVars, history
<1>10. QED
  BY <1>5, <1>6, <1>7, <1>8, <1>9 DEF DInv

LEMMA RecordDoubtKeeps ==
  ASSUME DInv, RecordDoubt
  PROVE  DInv'
<1>1. /\ stage = "erring" /\ Journal!FinishStep(Delete, Len(step[Delete]), "unknown")
      /\ Len(step[Delete]) \in DOMAIN step[Delete] /\ "unknown" \in Journal!Outcomes
      /\ UNCHANGED <<dockerVars, history>>
  BY DEF RecordDoubt, Keep, Journal!FinishStep, Journal!Outcomes
<1>2. /\ stage' = "doubtful" /\ found' = {} /\ todo' = {} /\ doing' = "none" /\ answer' = "none"
  BY DEF RecordDoubt, Doubt, End, GoTo
<1>3. SoughtOK'
  BY <1>2 DEF SoughtOK, AtObject
<1>4. QED
  BY <1>1, <1>2, <1>3, OutcomeKeeps

LEMMA FinishEffectKeeps ==
  ASSUME DInv, FinishEffect
  PROVE  DInv'
<1>1. /\ stage = "finishing" /\ Journal!FinishStep(Delete, Len(step[Delete]), "succeeded")
      /\ Len(step[Delete]) \in DOMAIN step[Delete] /\ "succeeded" \in Journal!Outcomes
      /\ UNCHANGED <<dockerVars, history>>
  BY DEF FinishEffect, Keep, Journal!FinishStep, Journal!Outcomes
<1>2. requests = {} /\ entangled = {}
  BY <1>1 DEF DInv, InFlightOK, EntangledOK, AfterCheck, AtObject
<1>3. /\ stage' \in {"again", "removing"} /\ found' = found /\ todo' \subseteq todo
      /\ doing' \in {doing, "none"} /\ answer' \in {answer, "none"}
      /\ stage' = "again" => UNCHANGED <<todo, at, doing>>
  BY DEF FinishEffect, GoTo, localVars
<1>4. SoughtOK'
  BY <1>1, <1>3 DEF DInv, SoughtOK, AtObject, dockerVars
<1>5. /\ found' \subseteq Objects /\ todo' \subseteq Objects
      /\ doing' \in {"none", "stop", "rm"} /\ answer' \in {"none", "done", "refused"}
  BY <1>3 DEF DInv, TypesOK
<1>6. QED
  BY <1>1, <1>2, <1>3, <1>4, <1>5, OutcomeKeeps

LEMMA ReconcileKeeps ==
  ASSUME DInv, Reconcile
  PROVE  DInv'
<1>1. PICK n \in DOMAIN step[Delete], outcome \in {"succeeded", "failed"} :
        /\ \A q \in requests : q.step # n
        /\ Journal!ReconcileStep(Delete, n, outcome)
  BY DEF Reconcile
<1>2. /\ stage = "done" /\ UNCHANGED <<stage, found, todo, at, doing, answer, dockerVars, history>>
      /\ outcome \in Journal!Outcomes
  BY DEF Reconcile, Keep, workerVars, Journal!Outcomes
<1>3. SoughtOK'
  BY <1>2 DEF SoughtOK, AtObject
<1>4. /\ found' \subseteq Objects /\ todo' \subseteq Objects
      /\ doing' \in {"none", "stop", "rm"} /\ answer' \in {"none", "done", "refused"}
  BY <1>2 DEF DInv, TypesOK
<1>5. QED
  BY <1>1, <1>2, <1>3, <1>4, OutcomeKeeps

-------------------------------------------------------------------------------
(* Absence, storage and retirement *)

LEMMA AbsenceKeeps ==
  ASSUME DInv, ConfirmAbsence \/ CheckStorage \/ RuntimeAbsent
  PROVE  DInv'
<1>1. /\ stage \in {"confirming", "confirmingNetworks", "checkingStorage", "verifying", "verifyingNetworks"}
      /\ UNCHANGED <<journalVars, dockerVars, entangled>>
  BY DEF ConfirmAbsence, CheckStorage, RuntimeAbsent, FindNone
<1>2. requests = {} /\ entangled = {} /\ lifecycle[Subject] = "retiring"
  BY <1>1, NotRetired DEF DInv, InFlightOK, EntangledOK, AfterCheck, AtObject, AfterRemoval
<1>3. /\ stage' \in {"confirmingNetworks", "checkingStorage", "verifying", "verifyingNetworks", "completing", "doubtful"}
      /\ found' \subseteq Objects /\ todo' \subseteq Objects
      /\ doing' \in {"none", "stop", "rm"} /\ answer' \in {"none", "done", "refused"}
  BY DEF ConfirmAbsence, CheckStorage, RuntimeAbsent, FindNone, Doubt, End, GoTo, localVars, DInv, TypesOK
<1>4. TypesOK'
  BY <1>1, <1>3 DEF DInv, TypesOK, DeleteStages, Ended, AfterCheck, AfterRemoval, journalVars, dockerVars
<1>5. LifeOK'
  BY <1>1, <1>2, <1>3 DEF DInv, LifeOK, journalVars, Journal!Recorded, Journal!Is
<1>6. SoughtOK'
  BY <1>3 DEF SoughtOK, AtObject
<1>7. InFlightOK' /\ EntangledOK'
  BY <1>1, <1>2, <1>3 DEF InFlightOK, EntangledOK, dockerVars
<1>8. ClearedOK'
  <2>1. ASSUME NEW x \in Objects, ~Visible(x) PROVE origin[x] = "other" \/ ~Present(x)
    BY <2>1 DEF Visible
  <2>2. CASE stage' = "verifyingNetworks"
    <3>1. FindNone(Containers, "verifying", "verifyingNetworks")
      BY <2>2 DEF ConfirmAbsence, CheckStorage, RuntimeAbsent, FindNone, GoTo, Doubt, End
    <3>2. /\ cleared' = cleared \cup {x \in Containers : ~Present(x)}
          /\ \A x \in Containers : ~Visible(x)
      BY <2>2, <3>1 DEF FindNone, GoTo, Doubt, End
    <3>3. \A c \in Containers : origin[c] = "other" \/ c \in cleared'
      BY <2>1, <3>2 DEF Objects
    <3>4. QED
      BY <1>1, <1>2, <2>2, <3>3 DEF ClearedOK, journalVars, dockerVars
  <2>3. CASE stage' = "completing"
    <3>1. FindNone(Networks, "verifyingNetworks", "completing")
      BY <2>3 DEF ConfirmAbsence, CheckStorage, RuntimeAbsent, FindNone, GoTo, Doubt, End
    <3>2. /\ cleared' = cleared \cup {x \in Networks : ~Present(x)}
          /\ \A x \in Networks : ~Visible(x)
      BY <2>3, <3>1 DEF FindNone, GoTo, Doubt, End
    <3>3. \A c \in Containers : origin[c] = "other" \/ c \in cleared
      BY <3>1 DEF FindNone, DInv, ClearedOK
    <3>4. \A x \in Objects : origin[x] = "other" \/ x \in cleared'
      BY <2>1, <3>2, <3>3 DEF Objects
    <3>5. QED
      BY <1>1, <2>3, <3>4 DEF ClearedOK, dockerVars
  <2>4. CASE stage' \notin {"verifyingNetworks", "completing"}
    BY <1>1, <1>2, <2>4 DEF ClearedOK, journalVars
  <2>5. QED
    BY <2>2, <2>3, <2>4
<1>9. QED
  BY <1>4, <1>5, <1>6, <1>7, <1>8 DEF DInv

LEMMA CompleteKeeps ==
  ASSUME DInv, Complete
  PROVE  DInv'
<1>1. /\ stage = "completing" /\ stage' = "done" /\ Journal!CompleteDelete(Delete)
      /\ UNCHANGED <<localVars, dockerVars, history>>
  BY DEF Complete, GoTo, Keep
<1>2. requests = {} /\ entangled = {} /\ Journal!Recorded(Delete)
  BY <1>1, NotRetired DEF DInv, InFlightOK, EntangledOK, AfterCheck, AtObject, AfterRemoval
<1>3. operation[Delete].instance = Subject
  BY <1>2, Row DEF DInv, Journal!OperationRows
<1>4. /\ lifecycle' = [lifecycle EXCEPT ![Subject] = "retired"]
      /\ step' = step /\ Journal!WriteStatus(Delete, "Succeeded")
  BY <1>1, <1>3 DEF Journal!CompleteDelete
<1>5. "Succeeded" \in Journal!Statuses
  BY DEF Journal!Statuses, Journal!Closed
<1>6. /\ operation' \in [{Delete} -> Journal!OperationRows \cup {NoOperation}]
      /\ Journal!Recorded(Delete)' /\ operation'[Delete].status = "Succeeded"
  BY <1>2, <1>4, <1>5, StatusWritten DEF DInv
<1>7. lifecycle'[Subject] = "retired" /\ lifecycle' \in [{Subject} -> {"managed", "retiring", "retired"}]
  BY <1>4 DEF DInv, TypesOK
<1>8. TypesOK'
  BY <1>1, <1>4, <1>6, <1>7 DEF DInv, TypesOK, DeleteStages, Ended, localVars, dockerVars
<1>9. LifeOK' /\ SoughtOK'
  BY <1>1, <1>6, <1>7 DEF LifeOK, SoughtOK, AtObject, Journal!Is
<1>10. InFlightOK' /\ EntangledOK'
  BY <1>1, <1>2 DEF InFlightOK, EntangledOK, dockerVars, history, AfterCheck, AtObject, AfterRemoval
<1>11. ClearedOK'
  BY <1>1 DEF DInv, ClearedOK, dockerVars, history
<1>12. QED
  BY <1>8, <1>9, <1>10, <1>11 DEF DInv

-------------------------------------------------------------------------------
(* Failures, restarts and repetition *)

LEMMA FailuresKeep ==
  ASSUME DInv, ReadFails \/ StoreFails \/ Exit
  PROVE  DInv'
<1>1. UNCHANGED <<journalVars, dockerVars, history>>
  BY DEF ReadFails, StoreFails, Exit, Keep
<1>2. PICK s \in Ended : End(s) /\ stage # "idle" /\ (lifecycle[Subject] = "retired" => s \in {"done", "down"})
  BY NotRetired DEF ReadFails, StoreFails, Exit, Doubt, Ended
<1>3. QED
  BY <1>1, <1>2, EndKeeps

\* The worker is at rest before and after, or is to begin another attempt.
LEMMA AtRestKeeps ==
  ASSUME DInv, stage \in {"done", "down"}, stage' \in {"accepted", "done"},
         operation' \in [{Delete} -> Journal!OperationRows \cup {NoOperation}],
         Journal!Recorded(Delete)', Journal!Is(Delete, Journal!Closed) <=> Journal!Is(Delete, Journal!Closed)',
         Journal!Is(Delete, {"Succeeded"}) => Journal!Is(Delete, {"Succeeded"})' /\ stage' = "done",
         UNCHANGED <<lifecycle, step, localVars, dockerVars, history>>
  PROVE  DInv'
<1>1. TypesOK'
  BY DEF DInv, TypesOK, DeleteStages, Ended, localVars, dockerVars
<1>2. LifeOK'
  BY DEF DInv, LifeOK
<1>3. SoughtOK' /\ ClearedOK'
  BY DEF DInv, LifeOK, SoughtOK, ClearedOK, AtObject, dockerVars, history
<1>4. InFlightOK'
  BY DEF DInv, InFlightOK, AfterCheck, AtObject, AfterRemoval, dockerVars
<1>5. EntangledOK'
  BY DEF DInv, EntangledOK, AfterCheck, AtObject, AfterRemoval, dockerVars, history, Present, Foreign, Endpoints
<1>6. QED
  BY <1>1, <1>2, <1>3, <1>4, <1>5 DEF DInv

LEMMA RestartKeeps ==
  ASSUME DInv, Restart
  PROVE  DInv'
<1>1. /\ stage = "down" /\ stage' = "done" /\ UNCHANGED <<lifecycle, step, localVars, dockerVars, history>>
      /\ Journal!RecoverOnStartup
  BY DEF Restart, GoTo, Keep, Journal!RecoverOnStartup, Journal!instanceVars
<1>2. Journal!Recorded(Delete)
  BY <1>1 DEF DInv, LifeOK
<1>3. PICK row \in Journal!OperationRows : operation[Delete] = row
  BY <1>2, Row DEF DInv
<1>4. /\ [row EXCEPT !.status = "OutcomeUnknown"] \in Journal!OperationRows
      /\ [row EXCEPT !.status = "OutcomeUnknown"].status = "OutcomeUnknown"
  BY DEF Journal!OperationRows, Journal!Statuses, Journal!Paused
<1>5. operation'[Delete] = IF row.status = "Executing" THEN [row EXCEPT !.status = "OutcomeUnknown"] ELSE row
  BY <1>1, <1>2, <1>3 DEF Journal!RecoverOnStartup, Journal!Is
<1>6. operation'[Delete] \in Journal!OperationRows
  BY <1>4, <1>5
<1>7. operation' \in [{Delete} -> Journal!OperationRows \cup {NoOperation}]
  BY <1>1, <1>6 DEF Journal!RecoverOnStartup
<1>8. Journal!Recorded(Delete)'
  BY <1>6, DeleteAssumption DEF Journal!Recorded
<1>9. /\ Journal!Is(Delete, Journal!Closed) <=> Journal!Is(Delete, Journal!Closed)'
      /\ Journal!Is(Delete, {"Succeeded"}) => Journal!Is(Delete, {"Succeeded"})'
  BY <1>2, <1>3, <1>4, <1>5, <1>8 DEF Journal!Is, Journal!Closed
<1>10. QED
  BY <1>1, <1>7, <1>8, <1>9, AtRestKeeps

LEMMA RepeatKeeps ==
  ASSUME DInv, Repeat
  PROVE  DInv'
<1>1. /\ stage = "done" /\ stage' = "accepted" /\ UNCHANGED <<localVars, dockerVars, history>>
  BY DEF Repeat, GoTo, Keep
<1>2. Journal!Recorded(Delete)
  BY <1>1 DEF DInv, LifeOK
<1>3. CASE Journal!Retry(Delete)
  <2>1. /\ ~Journal!Is(Delete, Journal!Closed) /\ ~Journal!Is(Delete, {"Succeeded"})
        /\ UNCHANGED <<lifecycle, step>>
    BY <1>3 DEF Journal!Retry, Journal!Is, Journal!Paused, Journal!Closed, Journal!instanceVars
  <2>2. operation[Delete].attempt + 1 \in Nat /\ "Executing" \in Journal!Statuses
    BY <1>2, Row DEF DInv, Journal!OperationRows, Journal!Statuses
  <2>3. operation' = [operation EXCEPT ![Delete].attempt = operation[Delete].attempt + 1,
                                       ![Delete].status = "Executing"]
    BY <1>3 DEF Journal!Retry, DInv, TypesOK
  <2>4. /\ operation' \in [{Delete} -> Journal!OperationRows \cup {NoOperation}]
        /\ Journal!Recorded(Delete)' /\ operation'[Delete].status = "Executing"
    BY <1>2, <2>2, <2>3, Written DEF DInv
  <2>5. QED
    BY <1>1, <2>1, <2>4, AtRestKeeps DEF Journal!Is, Journal!Closed
<1>4. CASE Journal!Is(Delete, {"Accepted"}) /\ UNCHANGED journalVars
  <2>1. UNCHANGED <<lifecycle, operation, step>>
    BY <1>4 DEF journalVars
  <2>2. QED
    BY <1>1, <1>2, <1>4, <2>1, AtRestKeeps DEF DInv, TypesOK, Journal!Is, Journal!Recorded
<1>5. QED
  BY <1>3, <1>4 DEF Repeat

-------------------------------------------------------------------------------
(* The theorems *)

LEMMA Inductive == DInv /\ [Next]_vars => DInv'
<1> SUFFICES ASSUME DInv, [Next]_vars PROVE DInv'
  OBVIOUS
<1>1. CASE Work
  <2>1. CASE Begin \/ ListContainers \/ ListNetworks \/ Checked
    BY <2>1, BeginKeeps, ListingKeeps, CheckedKeeps
  <2>2. ASSUME NEW x \in Objects, Check(x) \/ Pick(x) PROVE DInv'
    BY <2>2, CheckKeeps, PickKeeps
  <2>3. CASE InspectAgain \/ CliSucceeds \/ Prove \/ Removed
    BY <2>3, LooksKeep
  <2>4. CASE RecordEffect \/ Send \/ CliFails \/ RecordDoubt \/ FinishEffect
    BY <2>4, RecordEffectKeeps, SendKeeps, CliFailsKeeps, RecordDoubtKeeps, FinishEffectKeeps
  <2>5. CASE ConfirmAbsence \/ CheckStorage \/ RuntimeAbsent \/ Complete
    BY <2>5, AbsenceKeeps, CompleteKeeps
  <2>6. CASE ReadFails \/ Settle \/ Fallback
    BY <2>6, FailuresKeep, SettleKeeps, FallbackKeeps
  <2>7. QED
    BY <1>1, <2>1, <2>2, <2>3, <2>4, <2>5, <2>6 DEF Work
<1>2. CASE Accept \/ StoreFails \/ Exit \/ Restart \/ Reconcile \/ Repeat
  BY <1>2, AcceptKeeps, FailuresKeep, RestartKeeps, ReconcileKeeps, RepeatKeeps
<1>3. CASE (\E x \in Objects : OtherUser(x)) \/ \E q \in requests : Serve(q)
  BY <1>3, OtherUserKeeps, ServeKeeps
<1>4. CASE UNCHANGED vars
  BY <1>4 DEF vars, journalVars, dockerVars, workerVars, history, DInv, TypesOK, LifeOK, SoughtOK, InFlightOK,
     EntangledOK, ClearedOK, Journal!Recorded, Journal!Is, Present, Foreign, Endpoints
<1>5. QED
  BY <1>1, <1>2, <1>3, <1>4 DEF Next

\* Whatever others do with Docker, whatever fails or dies, and however often
\* the delete is repeated, DInv holds.
THEOREM Invariance == Spec => []DInv
BY Initially, Inductive, PTL DEF Spec

\* A delete never sends a command for an object that is not the instance's
\* own, and sends none while a container that is not stays connected to the
\* instance's network.
THEOREM StrangersUntouched == Spec => []StrangersAreSafe
<1>1. DInv => StrangersAreSafe
  BY DEF DInv, InFlightOK, EntangledOK, StrangersAreSafe, OnlyOwnTouched, ForeignEndpointBlocksAll
<1>2. QED
  BY <1>1, Invariance, PTL

\* When the instance is retired, every object of it that can be found has come
\* into being since the last look, and no request of the delete is under way.
THEOREM NothingLeft == Spec => []RetirementIsFinal
<1>1. DInv => RetirementIsFinal
  <2>1. DInv => RetiredSawAbsence
    BY DEF DInv, ClearedOK, RetiredSawAbsence, Visible
  <2>2. DInv => NothingInFlightAtRetirement
    BY DEF DInv, InFlightOK, NothingInFlightAtRetirement
  <2>3. QED
    BY <2>1, <2>2 DEF RetirementIsFinal
<1>2. QED
  BY <1>1, Invariance, PTL

-------------------------------------------------------------------------------
(* The steps of a delete are the journal's *)

\* All that a step of this module may do to the tables.
Writes ==
  \/ UNCHANGED journalVars
  \/ Journal!Accept(Request, Delete, Subject, "delete", 1)
  \/ Journal!RecordStep(Delete, Len(step[Delete]) + 1, operation[Delete].attempt)
  \/ \E x \in Journal!Outcomes : Journal!FinishStep(Delete, Len(step[Delete]), x)
  \/ \E x \in Journal!Paused \cup {"Executing"} : Journal!SetStatus(Delete, x)
  \/ Journal!CompleteDelete(Delete)
  \/ Journal!RecoverOnStartup
  \/ Journal!Retry(Delete)
  \/ \E n \in DOMAIN step[Delete], x \in Journal!Outcomes : Journal!ReconcileStep(Delete, n, x)

\* Every step is one of these writes.
LEMMA StepsWrite ==
  ASSUME [Next]_vars
  PROVE  Writes
<1>1. CASE Work
  <2>1. CASE Begin \/ Settle \/ Fallback
    BY <2>1 DEF Begin, Settle, Fallback, Writes, Journal!Paused
  <2>2. CASE ListContainers \/ ListNetworks \/ Checked \/ InspectAgain \/ Send \/ CliSucceeds \/ CliFails
    BY <2>2 DEF ListContainers, ListNetworks, Checked, InspectAgain, Send, CliSucceeds, CliFails, Writes
  <2>3. ASSUME NEW x \in Objects, Check(x) \/ Pick(x) PROVE Writes
    BY <2>3 DEF Check, Pick, Writes
  <2>4. CASE RecordEffect \/ RecordDoubt \/ FinishEffect
    BY <2>4 DEF RecordEffect, RecordDoubt, FinishEffect, Writes, Journal!Outcomes
  <2>5. CASE Prove \/ Removed \/ ConfirmAbsence \/ CheckStorage \/ RuntimeAbsent \/ ReadFails
    BY <2>5 DEF Prove, Removed, ConfirmAbsence, CheckStorage, RuntimeAbsent, FindNone, ReadFails, Writes
  <2>6. CASE Complete
    BY <2>6 DEF Complete, Writes
  <2>7. QED
    BY <1>1, <2>1, <2>2, <2>3, <2>4, <2>5, <2>6 DEF Work
<1>2. CASE Accept \/ StoreFails \/ Exit \/ Restart \/ Repeat
  BY <1>2 DEF Accept, StoreFails, Exit, Restart, Repeat, Writes
<1>3. CASE Reconcile
  BY <1>3 DEF Reconcile, Writes, Journal!Outcomes
<1>4. ASSUME NEW x \in Objects, OtherUser(x) PROVE Writes
  BY <1>4 DEF OtherUser, SetState, Writes
<1>5. ASSUME NEW q \in requests, Serve(q) PROVE Writes
  BY <1>5 DEF Serve, SetState, Writes
<1>6. CASE UNCHANGED vars
  BY <1>6 DEF vars, Writes
<1>7. QED
  BY <1>1, <1>2, <1>3, <1>4, <1>5, <1>6 DEF Next

\* The bounds of the model, which the journal's own step relation names too.
BoundsOK ==
  /\ Journal!Recorded(Delete) => operation[Delete].attempt \in 1..MaxAttempt
  /\ Len(step[Delete]) <= MaxSteps

\* No write leaves the bounds.
LEMMA BoundsKept ==
  ASSUME DInv, DInv', BoundsOK, Writes
  PROVE  BoundsOK'
<1>1. TypesOK /\ TypesOK' /\ MaxAttempt \in Nat \ {0} /\ MaxSteps \in Nat
  BY DeleteAssumption DEF DInv
<1>2. CASE UNCHANGED journalVars
  BY <1>2 DEF BoundsOK, journalVars, Journal!Recorded
<1>3. CASE Journal!Accept(Request, Delete, Subject, "delete", 1)
  BY <1>1, <1>3 DEF BoundsOK, Journal!Accept, Journal!NewOperation, TypesOK
<1>4. CASE Journal!RecordStep(Delete, Len(step[Delete]) + 1, operation[Delete].attempt)
  <2>1. Len(step[Delete]) + 1 <= MaxSteps /\ operation' = operation /\ Journal!Recorded(Delete)
    BY <1>4 DEF Journal!RecordStep, Journal!Is
  <2>2. Len(step'[Delete]) = Len(step[Delete]) + 1
    BY <1>1, <1>4, <2>1, StepAppended
  <2>3. QED
    BY <2>1, <2>2 DEF BoundsOK, Journal!Recorded
<1>5. ASSUME NEW n \in DOMAIN step[Delete], NEW x \in Journal!Outcomes,
             step' = [step EXCEPT ![Delete][n].outcome = x], operation' = operation
      PROVE  BoundsOK'
  BY <1>1, <1>5, OutcomeWritten DEF BoundsOK, Journal!Recorded
<1>6. CASE \E x \in Journal!Outcomes : Journal!FinishStep(Delete, Len(step[Delete]), x)
  BY <1>5, <1>6 DEF Journal!FinishStep
<1>7. CASE \E n \in DOMAIN step[Delete], x \in Journal!Outcomes : Journal!ReconcileStep(Delete, n, x)
  BY <1>5, <1>7 DEF Journal!ReconcileStep
<1>8. ASSUME NEW x \in Journal!Statuses, Journal!Recorded(Delete), step' = step,
             operation' = [operation EXCEPT ![Delete].status = x]
      PROVE  BoundsOK'
  <2>1. operation[Delete] \in Journal!OperationRows
    BY <1>1, <1>8, Row
  <2>2. operation'[Delete] = [operation[Delete] EXCEPT !.status = x]
    BY <1>1, <1>8 DEF TypesOK
  <2>3. operation'[Delete].attempt = operation[Delete].attempt
    BY <2>1, <2>2 DEF Journal!OperationRows
  <2>4. QED
    BY <1>8, <2>3 DEF BoundsOK
<1>9. CASE \E x \in Journal!Paused \cup {"Executing"} : Journal!SetStatus(Delete, x)
  BY <1>8, <1>9 DEF Journal!SetStatus, Journal!WriteStatus, Journal!Unresolved, Journal!Statuses
<1>10. CASE Journal!CompleteDelete(Delete)
  BY <1>8, <1>10 DEF Journal!CompleteDelete, Journal!WriteStatus, Journal!Is, Journal!Statuses, Journal!Closed
<1>11. CASE Journal!RecoverOnStartup
  <2>1. CASE Journal!Is(Delete, {"Executing"})
    <3>1. operation'[Delete] = [operation[Delete] EXCEPT !.status = "OutcomeUnknown"]
      BY <1>11, <2>1 DEF Journal!RecoverOnStartup
    <3>2. operation[Delete] \in Journal!OperationRows /\ Journal!Recorded(Delete)
      BY <1>1, <2>1, Row DEF Journal!Is
    <3>3. operation'[Delete].attempt = operation[Delete].attempt
      BY <3>1, <3>2 DEF Journal!OperationRows
    <3>4. QED
      BY <1>11, <3>2, <3>3 DEF BoundsOK, Journal!RecoverOnStartup
  <2>2. CASE ~Journal!Is(Delete, {"Executing"})
    BY <1>11, <2>2 DEF BoundsOK, Journal!RecoverOnStartup, Journal!Recorded
  <2>3. QED
    BY <2>1, <2>2
<1>12. CASE Journal!Retry(Delete)
  <2>1. /\ operation' = [operation EXCEPT ![Delete] =
             [operation[Delete] EXCEPT !.attempt = operation[Delete].attempt + 1, !.status = "Executing"]]
        /\ operation[Delete].attempt < MaxAttempt /\ Journal!Recorded(Delete) /\ step' = step
    BY <1>1, <1>12 DEF Journal!Retry, Journal!Is, TypesOK
  <2>2. operation[Delete] \in Journal!OperationRows
    BY <1>1, <2>1, Row
  <2>3. operation'[Delete] = [operation[Delete] EXCEPT !.attempt = operation[Delete].attempt + 1, !.status = "Executing"]
    BY <1>1, <2>1 DEF TypesOK
  <2>4. operation'[Delete].attempt = operation[Delete].attempt + 1
    BY <2>2, <2>3 DEF Journal!OperationRows
  <2>5. QED
    BY <1>1, <2>1, <2>4 DEF BoundsOK
<1>13. QED
  BY <1>2, <1>3, <1>4, <1>6, <1>7, <1>9, <1>10, <1>11, <1>12 DEF Writes

\* Each write is one of the journal's operations.
LEMMA WritesAreLegal ==
  ASSUME DInv, BoundsOK, Writes
  PROVE  Journal!Next \/ UNCHANGED journalVars
<1>1. TypesOK /\ MaxAttempt \in Nat \ {0} /\ MaxSteps \in Nat /\ Len(step[Delete]) \in Nat
  BY DeleteAssumption DEF DInv, TypesOK
<1>2. CASE Journal!Accept(Request, Delete, Subject, "delete", 1)
  <2>1. 1 \in 1..MaxRevision
    BY <1>2, DeleteAssumption DEF Journal!Accept
  <2>2. Journal!AcceptSome(Request, Delete, Subject)
    BY <1>2, <2>1 DEF Journal!AcceptSome
  <2>3. QED
    BY <2>2 DEF Journal!Next
<1>3. CASE Journal!RecordStep(Delete, Len(step[Delete]) + 1, operation[Delete].attempt)
  <2>1. operation[Delete].attempt \in 1..MaxAttempt /\ Len(step[Delete]) + 1 \in 1..MaxSteps
    BY <1>1, <1>3 DEF Journal!RecordStep, Journal!Is, BoundsOK
  <2>2. QED
    BY <1>3, <2>1 DEF Journal!Next, Journal!ExecuteSome
<1>4. CASE \E x \in Journal!Outcomes : Journal!FinishStep(Delete, Len(step[Delete]), x)
  <2>1. Len(step[Delete]) \in 1..MaxSteps
    BY <1>1, <1>4 DEF Journal!FinishStep, BoundsOK, TypesOK
  <2>2. QED
    BY <1>4, <2>1 DEF Journal!Next, Journal!ExecuteSome
<1>5. CASE \E x \in Journal!Paused \cup {"Executing"} : Journal!SetStatus(Delete, x)
  BY <1>5 DEF Journal!Next, Journal!ExecuteSome
<1>6. CASE Journal!CompleteDelete(Delete)
  BY <1>6 DEF Journal!Next, Journal!ExecuteSome
<1>7. CASE Journal!RecoverOnStartup
  BY <1>7 DEF Journal!Next
<1>8. CASE Journal!Retry(Delete)
  BY <1>8 DEF Journal!Next, Journal!RecoverSome
<1>9. CASE \E n \in DOMAIN step[Delete], x \in Journal!Outcomes : Journal!ReconcileStep(Delete, n, x)
  <2>1. \A n \in DOMAIN step[Delete] : n \in 1..MaxSteps
    BY <1>1 DEF BoundsOK, TypesOK
  <2>2. QED
    BY <1>9, <2>1 DEF Journal!Next, Journal!RecoverSome
<1>10. QED
  BY <1>2, <1>3, <1>4, <1>5, <1>6, <1>7, <1>8, <1>9 DEF Writes

\* The bounds hold in every behaviour.
LEMMA BoundsHold == Spec => []BoundsOK
<1>1. Init => BoundsOK
  BY DeleteAssumption DEF Init, BoundsOK, Journal!Recorded
<1>2. DInv /\ DInv' /\ BoundsOK /\ [Next]_vars => BoundsOK'
  BY StepsWrite, BoundsKept
<1>3. QED
  BY <1>1, <1>2, Invariance, PTL DEF Spec

\* Every write of a delete, its fallback, the restart and the callers who repeat
\* it is a legal step of the journal, whatever journal calls have failed.
THEOREM JournalFollowed == Spec => FollowsJournal
<1>1. DInv /\ BoundsOK /\ [Next]_vars => [Journal!Next]_journalVars
  BY StepsWrite, WritesAreLegal
<1>2. QED
  BY <1>1, BoundsHold, Invariance, PTL DEF Spec, FollowsJournal

-------------------------------------------------------------------------------
(* The journal's theorems hold of a delete, which starts from a managed instance *)

Tables == INSTANCE OperationJournalProofs WITH
  Instances <- {Subject}, Operations <- {Delete}, Requests <- {Request}, Plans <- {},
  ChangeKinds <- {"delete"}

\* What the journal assumes of its constants, here.
LEMMA JournalAssumptions ==
  /\ {"delete"} \subseteq {"start", "stop", "restart", "edit_port", "recover", "delete"}
  /\ MaxRevision \in Nat
  /\ MaxAttempt \in Nat
  /\ MaxSteps \in Nat
  /\ NoPlan \notin {}
  /\ NoSource \notin {Subject}
  /\ NoOperation \notin {Delete}
  /\ NoOperation \notin
       [instance : {Subject}, kind : Tables!Kinds, status : Tables!Statuses, attempt : Nat, expected : Nat]
  /\ NoReceipt \notin
       [operation : {Delete}, instance : {Subject}, plan : {} \cup {NoPlan}]
BY DeleteAssumption DEF Journal!OperationRows, Journal!ReceiptRows, Tables!Kinds, Journal!Kinds,
  Tables!CreationKinds, Journal!CreationKinds, Tables!Statuses, Journal!Statuses, Tables!Closed, Journal!Closed,
  Tables!Paused, Journal!Paused

\* The journal's steps are the same in the proofs about it.
LEMMA SameSteps == [Journal!Next]_journalVars <=> [Tables!Next]_(Tables!journalVars)
BY DEF journalVars, Tables!journalVars, Tables!instanceVars, Journal!instanceVars,
  Tables!Next, Journal!Next, Tables!ExecuteSome, Journal!ExecuteSome, Tables!RecoverSome, Journal!RecoverSome,
  Tables!AcceptSome, Journal!AcceptSome, Tables!CommitPlan, Journal!CommitPlan, Tables!Accept, Journal!Accept,
  Tables!Rename, Journal!Rename, Tables!RecordStep, Journal!RecordStep, Tables!FinishStep, Journal!FinishStep,
  Tables!SetStatus, Journal!SetStatus, Tables!CompleteDelete, Journal!CompleteDelete, Tables!Retry, Journal!Retry,
  Tables!ReconcileStep, Journal!ReconcileStep, Tables!Abandon, Journal!Abandon,
  Tables!RecoverOnStartup, Journal!RecoverOnStartup, Tables!WriteStatus, Journal!WriteStatus,
  Tables!Remembered, Journal!Remembered, Tables!NewOperation, Journal!NewOperation, Tables!Known, Journal!Known,
  Tables!HasStep, Journal!HasStep, Tables!Busy, Journal!Busy, Tables!Unresolved, Journal!Unresolved,
  Tables!Is, Journal!Is, Tables!Recorded, Journal!Recorded, Tables!Open, Journal!Open,
  Tables!Outcomes, Journal!Outcomes, Tables!Paused, Journal!Paused, Tables!Closed, Journal!Closed

\* So are the words of its properties.
LEMMA SameWords ==
  /\ Tables!TablesAgree <=> Journal!TablesAgree
  /\ [Journal!Changes!Next]_(Journal!Changes!changesVars)
       <=> Tables!Changes!Next \/ UNCHANGED Tables!Changes!changesVars
<1>1. Tables!TablesAgree <=> Journal!TablesAgree
  BY DEF Tables!TablesAgree, Journal!TablesAgree,
    Tables!OneUnresolvedOperation, Journal!OneUnresolvedOperation,
    Tables!OperationPinsInstance, Journal!OperationPinsInstance,
    Tables!RetirementIsADelete, Journal!RetirementIsADelete, Tables!OpenStepIsCurrent, Journal!OpenStepIsCurrent,
    Tables!ClosedIsSettled, Journal!ClosedIsSettled, Tables!AcceptedOnce, Journal!AcceptedOnce,
    Tables!HasStep, Journal!HasStep, Tables!Unresolved, Journal!Unresolved,
    Tables!Is, Journal!Is, Tables!Recorded, Journal!Recorded, Tables!Open, Journal!Open,
    Tables!Closed, Journal!Closed
<1>2. [Journal!Changes!Next]_(Journal!Changes!changesVars)
        <=> Tables!Changes!Next \/ UNCHANGED Tables!Changes!changesVars
  BY DEF Tables!Unresolved, Journal!Unresolved,
    Tables!Recorded, Journal!Recorded, Tables!Is, Journal!Is, Tables!Closed, Journal!Closed,
    Tables!Busy, Journal!Busy, Tables!Owner, Journal!Owner,
    Tables!Changes!Next, Journal!Changes!Next, Tables!Changes!Register, Journal!Changes!Register,
    Tables!Changes!Take, Journal!Changes!Take, Tables!Changes!GiveUp, Journal!Changes!GiveUp,
    Tables!Changes!Fresh, Journal!Changes!Fresh, Tables!Changes!changesVars, Journal!Changes!changesVars
<1>3. QED
  BY <1>1, <1>2

\* The tables a delete starts from: one managed instance and no operation.
LEMMA TablesInitially == Init => Tables!IInv
<1> SUFFICES ASSUME Init PROVE Tables!IInv
  OBVIOUS
<1>1. Tables!TypeOK
  BY DEF Init, Tables!TypeOK, Tables!Lifecycles
<1>2. \A o \in {Delete} : ~Tables!Recorded(o) /\ step[o] = <<>>
  BY DEF Init, Tables!Recorded
<1>3. QED
  BY <1>1, <1>2 DEF Init, Tables!IInv, Tables!OneUnresolvedOperation, Tables!OperationPinsInstance,
     Tables!RetirementIsADelete, Tables!OpenStepIsCurrent, Tables!ClosedIsSettled, Tables!AcceptedOnce,
     Tables!ReceiptsNameOperations, Tables!Unresolved, Tables!Is, Tables!HasStep

\* The journal's inductive invariant holds of a delete.
LEMMA TablesHold == Spec => []Tables!IInv
<1>1. Tables!IInv /\ [Journal!Next]_journalVars => Tables!IInv'
  BY SameSteps, JournalAssumptions, Tables!NextKeeps
<1>2. QED
  BY <1>1, TablesInitially, JournalFollowed, PTL DEF Spec, FollowsJournal

\* Through a delete, its failures, repetitions and restarts the tables agree as
\* the journal promises.
THEOREM Consistency == Spec => []Journal!TablesAgree
<1>1. Tables!IInv => Journal!TablesAgree
  BY SameWords DEF Tables!IInv, Tables!TablesAgree
<1>2. QED
  BY <1>1, TablesHold, PTL

\* The instance is taken once, for removal, and is given up only as retired.
THEOREM OwnershipKept == Spec => KeepsOwnership
<1>1. Tables!IInv => Tables!OwnersKnown
  BY JournalAssumptions, Tables!OneOwner DEF Tables!IInv
<1>2. Tables!IInv /\ Tables!OwnersKnown /\ Tables!OwnersKnown' /\ [Journal!Next]_journalVars
        => [Journal!Changes!Next]_(Journal!Changes!changesVars)
  BY SameSteps, SameWords, JournalAssumptions, Tables!StepsAreChanges
<1>3. QED
  BY <1>1, <1>2, TablesHold, JournalFollowed, PTL DEF FollowsJournal, KeepsOwnership

===============================================================================
