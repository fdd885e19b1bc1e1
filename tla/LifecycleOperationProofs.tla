----------------------- MODULE LifecycleOperationProofs -----------------------
(***************************************************************************)
(* Start, stop, restart and their recovery are correct for any instances,  *)
(* operations, requests, recovery commands, deaths of the application and  *)
(* bounds.  The inductive invariant says, for each place a task can have   *)
(* reached, what it holds of the gate, what the journal says of its        *)
(* operation, and which CLI may be alive; and who answers for a CLI whose  *)
(* task is gone.                                                           *)
(***************************************************************************)
EXTENDS LifecycleOperation, TLAPS

WorkerStages ==
  {Idle, "reserved", "accepted", "entered", "deciding", "recorded", "issuing", "running",
   "returned", "created", "failing", "verifying", "completing", "leaving", "givingUp",
   "fallback", "done"}
RecoveryStages ==
  {Idle, "inspecting", "resuming", "retrying", "retried", "abandoning", "issuing", "running",
   "returned", "failing", "completing", "leaving"}

TypesOK ==
  /\ lifecycle = [i \in Instances |-> "managed"]
  /\ revision \in [Instances -> Nat \ {0}]
  /\ operation \in [Operations -> Journal!OperationRows \cup {NoOperation}]
  /\ step \in [Operations -> Seq(Journal!StepRows)]
  /\ guard \in [Tasks -> Instances \cup {NoClaim, Unbound}]
  /\ stage \in [Tasks -> WorkerStages \cup RecoveryStages]
  /\ \A o \in Operations : stage[o] \in WorkerStages
  /\ \A q \in Recoverers : stage[q] \in RecoveryStages
  /\ job \in [Recoverers -> Operations \cup {NoOperation}]
  /\ result \in [Tasks -> {"none", "succeeded", "failed", "unknown"}]
  /\ live \subseteq Operations \X (Nat \ {0})
  /\ inherited \subseteq Operations
  /\ blocked \in BOOLEAN /\ up \in BOOLEAN /\ faults \in Nat

\* Who is inside holds the gate's claim to its instance, alone.
ClaimsOK ==
  /\ \A t \in Tasks : guard[t] \in Instances => guard[t] \in instances
  /\ \A t, u \in Tasks : guard[t] \in Instances /\ guard[t] = guard[u] => t = u
  /\ \A t \in Tasks : Inside(t) =>
       /\ Job(t) \in Operations
       /\ Journal!Recorded(Job(t))
       /\ guard[t] = operation[Job(t)].instance

-------------------------------------------------------------------------------
(* What holds of a task *)

Begun == {"deciding", "recorded", "issuing", "running", "returned", "created", "failing",
          "verifying", "completing", "resuming", "retrying", "retried", "abandoning"}
Decided == {"deciding", "created", "verifying", "completing", "resuming", "retrying",
            "retried", "abandoning", "failing"}

\* Where it may be, and what the journal says of its operation there.
StageOK(t) ==
  LET o == Job(t) IN
  /\ ~up => stage[t] \in {Idle, "done"}
  /\ stage[t] \notin {Idle, "reserved"} => o \in Operations /\ Journal!Recorded(o)
  /\ stage[t] \in {"accepted", "entered"} => operation[o].status = "Accepted"
  /\ stage[t] \in Begun => operation[o].status # "Accepted"
  /\ stage[t] = "deciding" => step[o] = <<>>
  /\ stage[t] = "leaving" /\ Worker(t) => operation[o].status = "Succeeded"
  /\ stage[t] \in {"returned", "failing"} => result[t] # "none"

\* A command at hand has its intent on record.
IntentIsRecorded(t) ==
  stage[t] \in {"recorded", "issuing", "running", "returned"} =>
    LET o == Job(t) IN
    /\ Journal!Unresolved(o)
    /\ step[o] # <<>>
    /\ step[o][Len(step[o])].outcome = Journal!Open

\* No CLI of its operation is alive when a task decides, records or completes,
\* nor after a conclusive result.
Quiet(o) == \A c \in live : c[1] # o
MustBeQuiet(t) ==
  \/ stage[t] \in {"entered", "deciding", "recorded", "issuing", "created", "verifying",
                   "completing", "resuming", "retrying", "retried", "abandoning"}
  \/ stage[t] \in {"returned", "failing"} /\ result[t] # "unknown"
IsQuiet(t) == MustBeQuiet(t) => Quiet(Job(t))

\* While the database answers, no effect is without outcome where the next one
\* is chosen.
NothingOpen(t) ==
  faults = 0 /\ stage[t] \in Decided => ~Journal!HasStep(Job(t), {Journal!Open})

TaskOK(t) == StageOK(t) /\ IntentIsRecorded(t) /\ IsQuiet(t) /\ NothingOpen(t)

-------------------------------------------------------------------------------
(* What holds of an operation *)

\* Steps are recorded only once it is begun, and an effect in doubt is the last.
RowsOK(o) ==
  /\ Journal!Recorded(o) => operation[o].attempt \in 1..MaxAttempt
  /\ step[o] # <<>> => Journal!Recorded(o) /\ operation[o].status # "Accepted"
  /\ Len(step[o]) <= MaxSteps
  /\ \A n \in DOMAIN step[o] : step[o][n].outcome = Journal!Open => n = Len(step[o])

\* While the database answers, an effect without outcome has a task at it or is
\* inherited.
AtStep(t, o) == Job(t) = o /\ stage[t] \in {"recorded", "issuing", "running", "returned"}
OpenIsAtHand(o) ==
  faults = 0 /\ up /\ Journal!Unresolved(o) /\ Journal!HasStep(o, {Journal!Open}) =>
    o \in inherited \/ \E t \in Tasks : AtStep(t, o)

\* While the database answers, an operation under way is carried by its worker
\* or by a recovery that has taken it over.
Carries(q, o) ==
  job[q] = o /\ stage[q] \in {"retried", "issuing", "running", "returned", "failing", "completing"}
Pending(o) ==
  Journal!Is(o, {"Executing"}) \/ (Journal!Is(o, {"Accepted"}) /\ o \notin inherited)
PendingIsCarried(o) ==
  up /\ faults = 0 /\ Pending(o) =>
    stage[o] \notin {Idle, "reserved", "done"} \/ \E q \in Recoverers : Carries(q, o)

OperationOK(o) == RowsOK(o) /\ OpenIsAtHand(o) /\ PendingIsCarried(o)

-------------------------------------------------------------------------------
(* What holds of a CLI that may be alive: it is its operation's last step, and *)
(* somebody answers for it: its task, the block on further commands, or the    *)
(* memory of the restart.                                                      *)

Attends(t, o) == stage[t] = "running" /\ Job(t) = o
CliOK(c) ==
  /\ Journal!Unresolved(c[1])
  /\ c[2] = Len(step[c[1]])
  /\ step[c[1]][c[2]].outcome \in {Journal!Open, "unknown"}
  /\ up => c[1] \in inherited \/ blocked \/ \E t \in Tasks : Attends(t, c[1])

LInv ==
  /\ TypesOK /\ Journal!OneUnresolvedOperation /\ ClaimsOK
  /\ \A t \in Tasks : TaskOK(t)
  /\ \A o \in Operations : OperationOK(o)
  /\ \A c \in live : CliOK(c)

-------------------------------------------------------------------------------
(* Facts about the tasks *)

LEMMA OneInside ==
  ASSUME LInv, NEW t \in Tasks, NEW u \in Tasks, Inside(t), Inside(u),
         operation[Job(t)].instance = operation[Job(u)].instance
  PROVE  t = u
<1>1. guard[t] = guard[u]
  BY DEF LInv, ClaimsOK
<1>2. operation[Job(t)] \in Journal!OperationRows
  BY DEF LInv, ClaimsOK, TypesOK, Journal!Recorded
<1>3. guard[t] \in Instances
  BY <1>2 DEF LInv, ClaimsOK, Journal!OperationRows
<1>4. QED
  BY <1>1, <1>3 DEF LInv, ClaimsOK

\* What a step of task t on operation p leaves to be shown, when it changes
\* nothing of the other tasks, operations and CLIs: it is the only task at
\* work on p, p is new, or p's effects stay as they are and its status becomes
\* OutcomeUnknown at most.
Touches(t, p) ==
  \/ Inside(t) /\ Job(t) = p
  \/ ~Journal!Recorded(p)
  \/ /\ step'[p] = step[p]
     /\ operation'[p] = operation[p] \/ (Journal!Recorded(p)' /\ operation'[p].status = "OutcomeUnknown" /\ t = p)
     /\ \A c \in live' \cup live : c[1] = p => c \in live' \cap live

OthersKept(t, p) ==
  /\ UNCHANGED <<up, inherited>>
  /\ blocked => blocked'
  /\ faults' = 0 => faults = 0
  /\ \A u \in Tasks \ {t} : stage'[u] = stage[u] /\ result'[u] = result[u]
  /\ \A q \in Recoverers \ {t} : job'[q] = job[q]
  /\ Job(t) = p \/ (t \in Recoverers /\ stage[t] = Idle)
  /\ Job(t)' \in {p, NoOperation}
  /\ \A o \in Operations \ {p} : operation'[o] = operation[o] /\ step'[o] = step[o]
  /\ \A c \in live' \cup live : c[1] # p => c \in live' \cap live
  /\ operation[p] # operation'[p] /\ t # p /\ Journal!Recorded(p) =>
       operation[p].status # "Accepted" /\ Journal!Recorded(p)'

LEMMA OtherTasks ==
  ASSUME LInv, NEW t \in Tasks, NEW p \in Operations, OthersKept(t, p), Touches(t, p),
         NEW u \in Tasks \ {t}
  PROVE  TaskOK(u)'
<1>1. TaskOK(u) /\ stage'[u] = stage[u] /\ result'[u] = result[u] /\ Job(u)' = Job(u)
  BY LifecycleAssumption DEF LInv, OthersKept, Tasks, Job, Worker
<1>2. CASE Job(u) \in Operations \ {p}
  <2>1. operation'[Job(u)] = operation[Job(u)] /\ step'[Job(u)] = step[Job(u)]
    BY <1>2 DEF OthersKept
  <2>2. Quiet(Job(u)) => Quiet(Job(u))'
    BY <1>1, <1>2 DEF OthersKept, Quiet
  <2>3. StageOK(u)' /\ IntentIsRecorded(u)'
    BY <1>1, <2>1 DEF TaskOK, StageOK, IntentIsRecorded, OthersKept, Journal!Recorded,
       Journal!Unresolved, Journal!Open, Worker
  <2>4. IsQuiet(u)'
    BY <1>1, <2>2 DEF TaskOK, IsQuiet, MustBeQuiet
  <2>5. NothingOpen(u)'
    BY <1>1, <2>1 DEF TaskOK, NothingOpen, OthersKept, Journal!HasStep
  <2>6. QED
    BY <2>3, <2>4, <2>5 DEF TaskOK
<1>3. CASE Job(u) \notin Operations
  <2>1. stage[u] = Idle
    BY <1>1, <1>3, LifecycleAssumption DEF TaskOK, StageOK, LInv, TypesOK, RecoveryStages, Idle, Tasks, Job, Worker
  <2>2. QED
    BY <1>1, <2>1 DEF TaskOK, StageOK, IntentIsRecorded, IsQuiet, MustBeQuiet, NothingOpen,
       Idle, Begun, Decided
<1>4. CASE Job(u) = p
  <2>1. CASE ~Inside(u)
    <3>1. stage[u] \in {Idle, "reserved", "accepted", "givingUp", "fallback", "done"}
      BY <2>1 DEF Inside
    <3>2. stage[u] \notin {Idle, "reserved"} => Journal!Recorded(p)' /\ Journal!Recorded(p)
      <4>1. stage[u] \notin {Idle, "reserved"} => u = p
        BY <1>4, <3>1 DEF LInv, TypesOK, RecoveryStages, Idle, Tasks, Job, Worker
      <4>2. stage[u] \notin {Idle, "reserved"} => Journal!Recorded(p)
        BY <1>1, <1>4 DEF TaskOK, StageOK
      <4>3. QED
        BY <4>1, <4>2 DEF OthersKept, Journal!Recorded
    <3>3. stage[u] = "accepted" => operation'[p].status = "Accepted"
      BY <1>1, <1>4, <3>1, <3>2, LifecycleAssumption
         DEF TaskOK, StageOK, OthersKept, LInv, TypesOK, RecoveryStages, Idle, Tasks, Job, Worker, Journal!Recorded
    <3>4. StageOK(u)'
      BY <1>1, <1>4, <3>1, <3>2, <3>3 DEF TaskOK, StageOK, OthersKept, Begun, Idle
    <3>5. QED
      BY <1>1, <3>1, <3>4 DEF TaskOK, IntentIsRecorded, IsQuiet, MustBeQuiet, NothingOpen, Decided, Idle
  <2>2. CASE Inside(u)
    <3>1. Journal!Recorded(p) /\ ~(Inside(t) /\ Job(t) = p)
      BY <1>4, <2>2, OneInside DEF LInv, ClaimsOK
    <3>2. step'[p] = step[p] /\ (Quiet(p) => Quiet(p)')
      BY <3>1 DEF Touches, Quiet
    <3>3. CASE operation'[p] = operation[p]
      <4>1. StageOK(u)' /\ IntentIsRecorded(u)'
        BY <1>1, <1>4, <3>2, <3>3 DEF TaskOK, StageOK, IntentIsRecorded, OthersKept, Journal!Recorded,
           Journal!Unresolved, Journal!Open, Worker
      <4>2. IsQuiet(u)' /\ NothingOpen(u)'
        BY <1>1, <1>4, <3>2 DEF TaskOK, IsQuiet, MustBeQuiet, NothingOpen, OthersKept, Journal!HasStep
      <4>3. QED
        BY <4>1, <4>2 DEF TaskOK
    <3>4. CASE Journal!Recorded(p)' /\ operation'[p].status = "OutcomeUnknown" /\ t = p
      <4>1. ~Worker(u) /\ stage[u] \in RecoveryStages
        BY <1>4, <3>4, LifecycleAssumption DEF Job, Worker, LInv, TypesOK, Tasks
      <4>2. StageOK(u)' /\ IntentIsRecorded(u)'
        BY <1>1, <1>4, <3>2, <3>4, <4>1 DEF TaskOK, StageOK, IntentIsRecorded, OthersKept, Journal!Recorded,
           Journal!Unresolved, Journal!Open, Worker, Journal!Closed, RecoveryStages, Idle
      <4>3. IsQuiet(u)' /\ NothingOpen(u)'
        BY <1>1, <1>4, <3>2 DEF TaskOK, IsQuiet, MustBeQuiet, NothingOpen, OthersKept, Journal!HasStep
      <4>4. QED
        BY <4>2, <4>3 DEF TaskOK
    <3>5. QED
      BY <3>1, <3>3, <3>4 DEF Touches
  <2>3. QED
    BY <2>1, <2>2
<1>5. QED
  BY <1>2, <1>3, <1>4

LEMMA OtherOperations ==
  ASSUME LInv, NEW t \in Tasks, NEW p \in Operations, OthersKept(t, p), Touches(t, p),
         NEW o \in Operations \ {p}
  PROVE  OperationOK(o)'
<1>1. OperationOK(o) /\ operation'[o] = operation[o] /\ step'[o] = step[o]
  BY DEF LInv, OthersKept
<1>2. RowsOK(o)'
  BY <1>1 DEF OperationOK, RowsOK, Journal!Recorded, Journal!Open
<1>3. ASSUME NEW u \in Tasks, Job(u) = o, stage[u] # Idle \/ u = o
      PROVE  u # t /\ stage'[u] = stage[u] /\ Job(u)' = o /\ (u \in Recoverers => job'[u] = job[u])
  BY <1>3, LifecycleAssumption DEF OthersKept, Job, Worker, Tasks
<1>4. OpenIsAtHand(o)'
  BY <1>1, <1>3 DEF OperationOK, OpenIsAtHand, OthersKept, AtStep, Idle, Journal!Unresolved, Journal!Recorded,
     Journal!HasStep, Journal!Open
<1>5. stage'[o] = stage[o]
  BY <1>3 DEF Job, Worker, Tasks
<1>6. ASSUME NEW q \in Recoverers, Carries(q, o) PROVE Carries(q, o)'
  BY <1>3, <1>6, LifecycleAssumption DEF Carries, Idle, Job, Worker, Tasks
<1>7. PendingIsCarried(o)'
  BY <1>1, <1>5, <1>6 DEF OperationOK, PendingIsCarried, OthersKept, Pending, Journal!Is, Journal!Recorded
<1>8. QED
  BY <1>2, <1>4, <1>7 DEF OperationOK

LEMMA OtherClis ==
  ASSUME LInv, NEW t \in Tasks, NEW p \in Operations, OthersKept(t, p), Touches(t, p),
         NEW c \in live', c[1] # p
  PROVE  CliOK(c)'
<1>1. c \in live /\ CliOK(c) /\ c[1] \in Operations \ {p}
  BY DEF OthersKept, LInv, TypesOK
<1>2. operation'[c[1]] = operation[c[1]] /\ step'[c[1]] = step[c[1]]
  BY <1>1 DEF OthersKept
<1>3. ASSUME NEW u \in Tasks, Attends(u, c[1]) PROVE Attends(u, c[1])'
  BY <1>1, <1>3, LifecycleAssumption DEF Attends, Idle, OthersKept, Job, Worker, Tasks
<1>4. QED
  BY <1>1, <1>2, <1>3 DEF CliOK, OthersKept, Journal!Unresolved, Journal!Recorded, Journal!Open

LEMMA Frame ==
  ASSUME LInv, NEW t \in Tasks, NEW p \in Operations, OthersKept(t, p), Touches(t, p),
         TypesOK', Journal!OneUnresolvedOperation', ClaimsOK',
         TaskOK(t)', OperationOK(p)', \A c \in live' : c[1] = p => CliOK(c)'
  PROVE  LInv'
<1>1. \A u \in Tasks : TaskOK(u)'
  BY OtherTasks
<1>2. \A o \in Operations : OperationOK(o)'
  BY OtherOperations
<1>3. \A c \in live' : CliOK(c)'
  BY OtherClis
<1>4. QED
  BY <1>1, <1>2, <1>3 DEF LInv

-------------------------------------------------------------------------------
(* Steps that move a task and at most write its operation's status *)

LEMMA Initially == Init => LInv
<1> SUFFICES ASSUME Init PROVE LInv
  OBVIOUS
<1>1. TypesOK
  <2>1. /\ stage \in [Tasks -> WorkerStages \cup RecoveryStages]
        /\ \A o \in Operations : stage[o] \in WorkerStages
        /\ \A q \in Recoverers : stage[q] \in RecoveryStages
    BY DEF Init, WorkerStages, RecoveryStages, Tasks
  <2>2. step \in [Operations -> Seq(Journal!StepRows)]
    BY DEF Init
  <2>3. guard \in [Tasks -> Instances \cup {NoClaim, Unbound}]
    BY DEF Init, Gate!Init, Tasks
  <2>4. /\ job \in [Recoverers -> Operations \cup {NoOperation}]
        /\ result \in [Tasks -> {"none", "succeeded", "failed", "unknown"}]
        /\ operation \in [Operations -> Journal!OperationRows \cup {NoOperation}]
        /\ revision \in [Instances -> Nat \ {0}]
    BY DEF Init, Tasks
  <2>5. QED
    BY <2>1, <2>2, <2>3, <2>4 DEF Init, TypesOK
<1>2. \A o \in Operations : ~Journal!Recorded(o) /\ step[o] = <<>>
  BY DEF Init, Journal!Recorded
<1>3. Journal!OneUnresolvedOperation
  BY <1>2 DEF Journal!OneUnresolvedOperation, Journal!Unresolved
<1>4. \A t \in Tasks : stage[t] = Idle /\ guard[t] = NoClaim
  BY DEF Init, Gate!Init, Tasks
<1>5. ClaimsOK
  BY <1>4, LifecycleAssumption DEF ClaimsOK, Inside
<1>6. \A t \in Tasks : TaskOK(t)
  BY <1>4 DEF TaskOK, StageOK, IntentIsRecorded, IsQuiet, MustBeQuiet, NothingOpen, Idle, Begun, Decided
<1>7. \A o \in Operations : OperationOK(o)
  BY <1>2, LifecycleAssumption
     DEF OperationOK, RowsOK, OpenIsAtHand, PendingIsCarried, Pending, Journal!Is, Journal!Unresolved
<1>8. live = {}
  BY DEF Init
<1>9. QED
  BY <1>1, <1>3, <1>5, <1>6, <1>7, <1>8 DEF LInv

\* The gate and the claims stay as they are, and nobody gets inside.
LEMMA ClaimsKept ==
  ASSUME LInv, NEW t \in Tasks, UNCHANGED <<guard, instances, job>>,
         \A u \in Tasks \ {t} : stage'[u] = stage[u], Inside(t)' => Inside(t),
         \A o \in Operations : Journal!Recorded(o) =>
           Journal!Recorded(o)' /\ operation'[o].instance = operation[o].instance
  PROVE  ClaimsOK'
<1>1. \A u \in Tasks : (Inside(u)' => Inside(u)) /\ Job(u)' = Job(u)
  BY DEF Inside, Job, Worker
<1>2. QED
  BY <1>1 DEF LInv, ClaimsOK

LEMMA OwnersKept ==
  ASSUME LInv, \A o \in Operations : Journal!Unresolved(o)' =>
           Journal!Unresolved(o) /\ operation'[o].instance = operation[o].instance
  PROVE  Journal!OneUnresolvedOperation'
BY DEF LInv, Journal!OneUnresolvedOperation

StatusBecomes(p, x) == operation' = [operation EXCEPT ![p].status = x]

LEMMA StatusWritten ==
  ASSUME TypesOK, NEW p \in Operations, Journal!Recorded(p),
         NEW x \in Journal!Statuses, StatusBecomes(p, x)
  PROVE  /\ operation' \in [Operations -> Journal!OperationRows \cup {NoOperation}]
         /\ \A o \in Operations \ {p} : operation'[o] = operation[o]
         /\ Journal!Recorded(p)'
         /\ operation'[p].status = x
         /\ operation'[p].instance = operation[p].instance
         /\ operation'[p].attempt = operation[p].attempt
<1>1. operation[p] \in Journal!OperationRows
  BY DEF TypesOK, Journal!Recorded
<1>2. operation'[p] = [operation[p] EXCEPT !.status = x]
  BY DEF TypesOK, StatusBecomes
<1>3. operation'[p] \in Journal!OperationRows /\ operation'[p].status = x
      /\ operation'[p].instance = operation[p].instance /\ operation'[p].attempt = operation[p].attempt
  BY <1>1, <1>2 DEF Journal!OperationRows
<1>4. \A o \in Operations \ {p} : operation'[o] = operation[o]
  BY DEF TypesOK, StatusBecomes
<1>5. operation' \in [Operations -> Journal!OperationRows \cup {NoOperation}]
  BY <1>3 DEF TypesOK, StatusBecomes
<1>6. QED
  BY <1>3, <1>4, <1>5, LifecycleAssumption DEF Journal!Recorded

LEMMA Retried ==
  ASSUME TypesOK, NEW p \in Operations, operation[p].attempt \in 1..MaxAttempt, Journal!Retry(p)
  PROVE  /\ operation' \in [Operations -> Journal!OperationRows \cup {NoOperation}]
         /\ \A o \in Operations \ {p} : operation'[o] = operation[o]
         /\ Journal!Unresolved(p) /\ Journal!Recorded(p)'
         /\ operation'[p].status = "Executing"
         /\ operation'[p].instance = operation[p].instance
         /\ operation'[p].attempt = operation[p].attempt + 1
         /\ operation'[p].attempt \in 1..MaxAttempt
<1>1. operation[p] \in Journal!OperationRows /\ Journal!Unresolved(p)
  BY DEF TypesOK, Journal!Retry, Journal!Is, Journal!Recorded, Journal!Unresolved, Journal!Paused, Journal!Closed
<1>2. operation' = [operation EXCEPT ![p] =
        [operation[p] EXCEPT !.attempt = operation[p].attempt + 1, !.status = "Executing"]]
  BY DEF TypesOK, Journal!Retry
<1>3. /\ operation'[p] \in Journal!OperationRows /\ operation'[p].status = "Executing"
      /\ operation'[p].instance = operation[p].instance
      /\ operation'[p].attempt = operation[p].attempt + 1
  <2>1. operation[p].attempt + 1 \in Nat
    OBVIOUS
  <2>2. operation'[p] = [operation[p] EXCEPT !.attempt = operation[p].attempt + 1, !.status = "Executing"]
    BY <1>2 DEF TypesOK
  <2>3. QED
    BY <1>1, <2>1, <2>2 DEF Journal!OperationRows, Journal!Statuses
<1>4. operation[p].attempt < MaxAttempt
  BY DEF Journal!Retry
<1>5. /\ \A o \in Operations \ {p} : operation'[o] = operation[o]
      /\ operation' \in [Operations -> Journal!OperationRows \cup {NoOperation}]
  BY <1>2, <1>3 DEF TypesOK
<1>6. QED
  BY <1>1, <1>3, <1>4, <1>5, LifecycleAssumption DEF Journal!Recorded

\* What a moving task has to show: its own duties at the new stage s, that a
\* status is written by who is inside, or by the fallback, and that what it
\* answered for is still answered for.
Moving(t, p, s) ==
  /\ GoTo(t, s)
  /\ s \in IF Worker(t) THEN WorkerStages ELSE RecoveryStages
  /\ Job(t) = p /\ Journal!Recorded(p)
  /\ UNCHANGED <<lifecycle, revision, step, guard, instances, job, cliVars, up, inherited>>
  /\ result' \in [Tasks -> {"none", "succeeded", "failed", "unknown"}]
  /\ \A u \in Tasks \ {t} : result'[u] = result[u]
  /\ faults' \in Nat /\ (faults' = 0 => faults = 0)
  /\ stage[t] # "running" /\ (Inside(t)' => Inside(t))
Writing(t, p) ==
  \/ operation' = operation
  \/ \E x \in Journal!Statuses \ {"Accepted"} :
       /\ StatusBecomes(p, x)
       /\ Journal!Unresolved(p)
       /\ x \in Journal!Closed => Quiet(p)
       /\ Inside(t) \/ (t = p /\ x = "OutcomeUnknown")
       /\ t = p \/ stage[t] \in Begun
  \/ Journal!Retry(p) /\ Inside(t) /\ stage[t] \in Begun
Answering(t, p) ==
  faults' = 0 =>
    /\ AtStep(t, p) => AtStep(t, p)'
    /\ Pending(p)' => IF Worker(t) THEN stage'[t] \notin {Idle, "reserved", "done"}
                      ELSE Carries(t, p)' \/ (Pending(p) /\ ~Carries(t, p))

\* The rows after such a step.
RowKept(t, p) ==
  /\ operation' \in [Operations -> Journal!OperationRows \cup {NoOperation}]
  /\ \A o \in Operations \ {p} : operation'[o] = operation[o]
  /\ Journal!Recorded(p)'
  /\ operation'[p].instance = operation[p].instance
  /\ operation'[p].attempt \in 1..MaxAttempt
  /\ Journal!Unresolved(p)' => Journal!Unresolved(p)
  /\ Journal!Unresolved(p) => Journal!Unresolved(p)' \/ Quiet(p)
  /\ operation'[p] # operation[p] =>
       /\ operation'[p].status # "Accepted"
       /\ Inside(t) \/ (t = p /\ operation'[p].status = "OutcomeUnknown")
       /\ t = p \/ stage[t] \in Begun

LEMMA Moves ==
  ASSUME LInv, NEW t \in Tasks, NEW p \in Operations, NEW s,
         Moving(t, p, s), Writing(t, p), Answering(t, p), TaskOK(t)'
  PROVE  LInv'
<1>1. RowKept(t, p)
  <2>1. operation[p].attempt \in 1..MaxAttempt
    BY DEF LInv, OperationOK, RowsOK, Moving
  <2>2. CASE operation' = operation
    BY <2>1, <2>2 DEF LInv, TypesOK, Moving, RowKept, Journal!Recorded, Journal!Unresolved
  <2>3. ASSUME NEW x \in Journal!Statuses \ {"Accepted"}, StatusBecomes(p, x), Journal!Unresolved(p),
               x \in Journal!Closed => Quiet(p), Inside(t) \/ (t = p /\ x = "OutcomeUnknown"),
               t = p \/ stage[t] \in Begun
        PROVE  RowKept(t, p)
    BY <2>1, <2>3, StatusWritten DEF LInv, Moving, RowKept, Journal!Unresolved
  <2>4. CASE Journal!Retry(p) /\ Inside(t) /\ stage[t] \in Begun
    BY <2>1, <2>4, Retried DEF LInv, Moving, RowKept, Journal!Unresolved, Journal!Closed
  <2>5. QED
    BY <2>2, <2>3, <2>4 DEF Writing
<1>2. TypesOK'
  <2>1. /\ stage' \in [Tasks -> WorkerStages \cup RecoveryStages]
        /\ \A o \in Operations : stage'[o] \in WorkerStages
        /\ \A q \in Recoverers : stage'[q] \in RecoveryStages
    BY LifecycleAssumption DEF LInv, TypesOK, Moving, GoTo, Tasks, Worker
  <2>2. QED
    BY <1>1, <2>1 DEF RowKept, LInv, TypesOK, Moving, cliVars
<1>3. stage'[t] = s /\ \A u \in Tasks \ {t} : stage'[u] = stage[u]
  BY DEF LInv, TypesOK, Moving, GoTo
<1>4. \A o \in Operations : Journal!Unresolved(o)' =>
        Journal!Unresolved(o) /\ operation'[o].instance = operation[o].instance
  BY <1>1 DEF RowKept, Journal!Unresolved, Journal!Recorded
<1>5. ClaimsOK'
  BY <1>1, <1>3, ClaimsKept DEF RowKept, Moving, Journal!Recorded
<1>6. OthersKept(t, p)
  <2>1. operation[p] # operation'[p] /\ t # p => operation[p].status # "Accepted"
    BY <1>1 DEF RowKept, LInv, TaskOK, StageOK, Moving
  <2>2. QED
    BY <1>1, <1>3, <2>1 DEF RowKept, OthersKept, Moving, cliVars, Job, Worker
<1>7. Touches(t, p)
  BY <1>1 DEF RowKept, Touches, Moving, cliVars
<1>8. OperationOK(p)'
  <2>1. OperationOK(p)
    BY DEF LInv
  <2>2. RowsOK(p)'
    BY <1>1, <2>1 DEF RowKept, OperationOK, RowsOK, Moving, Journal!Recorded, Journal!Open
  <2>3. ASSUME NEW u \in Tasks \ {t} PROVE AtStep(u, p) => AtStep(u, p)'
    BY <1>3 DEF AtStep, Moving, Job, Worker
  <2>4. OpenIsAtHand(p)'
    BY <1>1, <2>1, <2>3 DEF RowKept, OperationOK, OpenIsAtHand, Moving, Answering, Journal!HasStep, Journal!Open
  <2>5. ASSUME NEW q \in Recoverers \ {t} PROVE Carries(q, p) => Carries(q, p)'
    BY <1>3 DEF Carries, Moving, Tasks
  <2>6. ASSUME Worker(t) PROVE PendingIsCarried(p)'
    <3>1. t = p
      BY <2>6 DEF Moving, Job
    <3>2. QED
      BY <3>1, <2>6 DEF PendingIsCarried, Answering, Worker, Idle
  <2>7. ASSUME ~Worker(t) PROVE PendingIsCarried(p)'
    <3>1. t \in Recoverers /\ stage'[p] = stage[p]
      BY <2>7, <1>3 DEF Worker, Tasks
    <3>2. SUFFICES ASSUME up', faults' = 0, Pending(p)', stage[p] \in {Idle, "reserved", "done"}
                   PROVE  \E q \in Recoverers : Carries(q, p)'
      BY <3>1 DEF PendingIsCarried, Idle
    <3>3. Carries(t, p)' \/ (Pending(p) /\ ~Carries(t, p))
      BY <3>2, <2>7 DEF Answering, Worker
    <3>4. CASE Pending(p) /\ ~Carries(t, p)
      <4>1. PICK q \in Recoverers : Carries(q, p)
        BY <2>1, <3>2, <3>4 DEF OperationOK, PendingIsCarried, Moving
      <4>2. QED
        BY <4>1, <2>5, <3>4
    <3>5. QED
      BY <3>1, <3>3, <3>4
  <2>8. QED
    BY <2>2, <2>4, <2>6, <2>7 DEF OperationOK
<1>9. \A c \in live' : c[1] = p => CliOK(c)'
  <2>1. SUFFICES ASSUME NEW c \in live, c[1] = p PROVE CliOK(c)'
    BY DEF Moving, cliVars
  <2>2. CliOK(c) /\ ~Quiet(p)
    BY <2>1 DEF LInv, Quiet
  <2>3. ASSUME NEW u \in Tasks, Attends(u, p) PROVE Attends(u, p)'
    BY <1>3, <2>3 DEF Attends, Moving, Job, Worker
  <2>4. QED
    BY <1>1, <2>1, <2>2, <2>3 DEF RowKept, CliOK, Moving, cliVars, Journal!Open
<1>10. QED
  BY <1>2, <1>4, <1>5, <1>6, <1>7, <1>8, <1>9, OwnersKept, Frame

-------------------------------------------------------------------------------
(* The moves, one by one *)

\* What a task finds at its operation.
LEMMA Here ==
  ASSUME LInv, NEW t \in Tasks, stage[t] \notin {Idle, "reserved", "done"}
  PROVE  /\ Job(t) \in Operations /\ Journal!Recorded(Job(t)) /\ up
         /\ TaskOK(t) /\ OperationOK(Job(t)) /\ TypesOK
         /\ operation[Job(t)] \in Journal!OperationRows
         /\ ~Worker(t) => t \in Recoverers /\ stage[t] \in RecoveryStages
         /\ operation[Job(t)].status # "Accepted" => ~Pending(Job(t)) \/ operation[Job(t)].status = "Executing"
<1>1. TaskOK(t) /\ TypesOK
  BY DEF LInv
<1>2. Job(t) \in Operations /\ Journal!Recorded(Job(t)) /\ up
  BY <1>1 DEF TaskOK, StageOK
<1>3. operation[Job(t)] \in Journal!OperationRows
  BY <1>1, <1>2 DEF TypesOK, Journal!Recorded
<1>4. ~Worker(t) => t \in Recoverers /\ stage[t] \in RecoveryStages
  BY <1>1 DEF TypesOK, Worker, Tasks
<1>5. operation[Job(t)].status # "Accepted" => ~Pending(Job(t)) \/ operation[Job(t)].status = "Executing"
  BY DEF Pending, Journal!Is
<1>6. QED
  BY <1>1, <1>2, <1>3, <1>4, <1>5 DEF LInv

LEMMA BeginRefusedStep ==
  ASSUME LInv, NEW o \in Operations, BeginRefused(o)
  PROVE  LInv'
<1>1. stage[o] = "accepted" /\ o \in Tasks /\ Job(o) = o /\ Worker(o)
  BY DEF BeginRefused, Job, Worker, Tasks
<1>2. stage'[o] = "givingUp"
  BY <1>1, Here DEF BeginRefused, GoTo, TypesOK, Idle
<1>3. Moving(o, o, "givingUp")
  BY <1>1, <1>2, Here DEF BeginRefused, Moving, Inside, Idle, TypesOK, WorkerStages, journalVars,
     gateVars, cliVars, processVars
<1>4. Writing(o, o) /\ Answering(o, o)
  BY <1>1, <1>2 DEF BeginRefused, Writing, Answering, journalVars, AtStep, Idle, Worker
<1>5. TaskOK(o)'
  <2>1. Job(o)' = o /\ Journal!Recorded(o)' /\ up'
    BY <1>1, Here DEF BeginRefused, journalVars, processVars, Journal!Recorded, Idle, Job, Worker
  <2>2. QED
    BY <1>2, <2>1 DEF TaskOK, StageOK, IntentIsRecorded, IsQuiet, MustBeQuiet, NothingOpen, Decided, Begun
<1>6. QED
  BY <1>1, <1>3, <1>4, <1>5, Moves

LEMMA AlreadyStoppedStep ==
  ASSUME LInv, NEW o \in Operations, AlreadyStopped(o)
  PROVE  LInv'
<1>1. stage[o] = "deciding" /\ o \in Tasks /\ Job(o) = o /\ Worker(o)
  BY DEF AlreadyStopped, Job, Worker, Tasks
<1>2. stage'[o] = "completing"
  BY <1>1, Here DEF AlreadyStopped, GoTo, TypesOK, Idle
<1>3. Moving(o, o, "completing")
  BY <1>1, <1>2, Here DEF AlreadyStopped, Moving, Inside, Idle, TypesOK, WorkerStages, journalVars,
     gateVars, cliVars, processVars
<1>4. Writing(o, o) /\ Answering(o, o)
  BY <1>1, <1>2 DEF AlreadyStopped, Writing, Answering, journalVars, AtStep, Idle, Worker
<1>5. TaskOK(o)'
  <2>1. TaskOK(o) /\ Job(o)' = o /\ UNCHANGED <<operation, step, live, up, faults>>
    BY <1>1, Here DEF AlreadyStopped, journalVars, cliVars, processVars, Idle, Job, Worker
  <2>2. QED
    BY <1>1, <1>2, <2>1 DEF TaskOK, StageOK, IntentIsRecorded, IsQuiet, Quiet, MustBeQuiet, NothingOpen,
       Decided, Begun, Journal!Recorded, Journal!HasStep, Idle
<1>6. QED
  BY <1>1, <1>3, <1>4, <1>5, Moves

LEMMA NotLaunchedStep ==
  ASSUME LInv, NEW t \in Tasks, NotLaunched(t)
  PROVE  LInv'
<1> DEFINE p == Job(t)
<1>1. stage[t] = "issuing" /\ stage'[t] = "returned"
  BY DEF NotLaunched, GoTo, LInv, TypesOK
<1>2. /\ result' \in [Tasks -> {"none", "succeeded", "failed", "unknown"}]
      /\ result'[t] # "none" /\ \A u \in Tasks \ {t} : result'[u] = result[u]
  BY DEF NotLaunched, LInv, TypesOK
<1>3. Moving(t, p, "returned")
  BY <1>1, <1>2, Here DEF NotLaunched, Moving, Inside, Idle, TypesOK, WorkerStages, RecoveryStages, journalVars,
     gateVars, cliVars, processVars
<1>4. Writing(t, p)
  BY DEF NotLaunched, Writing, journalVars
<1>5. Job(t)' = p /\ UNCHANGED <<operation, step, live, up, faults, job, inherited>>
  BY DEF NotLaunched, journalVars, cliVars, processVars, Job, Worker
<1>6. Answering(t, p)
  BY <1>1, <1>5, Here DEF Answering, AtStep, Carries, Idle, Worker, Pending, Journal!Is, Journal!Recorded
<1>7. TaskOK(t)'
  BY <1>1, <1>2, <1>5, Here DEF TaskOK, StageOK, IntentIsRecorded, IsQuiet, Quiet, MustBeQuiet, NothingOpen,
     Decided, Begun, Journal!Recorded, Journal!HasStep, Idle, Journal!Unresolved, Journal!Open
<1>8. QED
  BY <1>1, <1>3, <1>4, <1>6, <1>7, Here, Moves DEF Idle

\* When a recovery command finds the previous CLI gone, no CLI of the operation
\* is alive, and while the database answers no effect is without outcome.
LEMMA ExitIsVerified ==
  ASSUME LInv, NEW q \in Recoverers, stage[q] = "inspecting",
         Journal!Is(job[q], Journal!Paused), PreviousCliExited(job[q])
  PROVE  /\ Quiet(job[q])
         /\ faults = 0 => ~Journal!HasStep(job[q], {Journal!Open})
<1> DEFINE o == job[q]
<1>1. q \in Tasks /\ ~Worker(q) /\ Job(q) = o /\ up /\ o \in Operations /\ Inside(q)
  BY LifecycleAssumption, Here DEF Tasks, Worker, Job, Idle, Inside
<1>2. Journal!HasStep(o, {Journal!Open}) => Journal!HasStep(o, {Journal!Open, "unknown"})
  BY DEF Journal!HasStep
<1>3. ASSUME NEW c \in live, c[1] = o PROVE FALSE
  <2>1. CliOK(c) /\ c[2] \in Nat \ {0} /\ step[o] \in Seq(Journal!StepRows)
    BY <1>1 DEF LInv, TypesOK
  <2>2. c[2] \in DOMAIN step[o] /\ step[o][c[2]].outcome \in {Journal!Open, "unknown"}
    BY <1>3, <2>1 DEF CliOK
  <2>3. Journal!HasStep(o, {Journal!Open, "unknown"})
    BY <2>2 DEF Journal!HasStep
  <2>4. PICK u \in Tasks : Attends(u, o)
    BY <1>1, <1>3, <2>1, <2>3 DEF CliOK, PreviousCliExited
  <2>5. QED
    BY <2>4 DEF PreviousCliExited, Attends, Running
<1>4. ASSUME faults = 0, Journal!HasStep(o, {Journal!Open}) PROVE FALSE
  <2>1. Journal!Unresolved(o) /\ OpenIsAtHand(o)
    BY <1>1 DEF LInv, OperationOK, Journal!Is, Journal!Unresolved, Journal!Paused, Journal!Closed
  <2>2. PICK u \in Tasks : AtStep(u, o)
    BY <1>1, <1>2, <1>4, <2>1 DEF OpenIsAtHand, PreviousCliExited
  <2>3. Inside(u) /\ Job(u) = o /\ stage[u] # "inspecting"
    BY <2>2 DEF AtStep, Inside, Idle
  <2>4. QED
    BY <1>1, <2>3, OneInside
<1>5. QED
  BY <1>3, <1>4 DEF Quiet

LEMMA InspectStep ==
  ASSUME LInv, NEW q \in Recoverers, Inspect(q)
  PROVE  LInv'
<1> DEFINE o == job[q]
<1>1. stage[q] = "inspecting" /\ q \in Tasks /\ Job(q) = o /\ ~Worker(q)
  BY LifecycleAssumption DEF Inspect, Job, Worker, Tasks
<1>2. UNCHANGED <<operation, step, live, up, faults, job, inherited, lifecycle, revision, guard, instances,
                  blocked, result>> /\ Job(q)' = o
  BY <1>1 DEF Inspect, journalVars, gateVars, cliVars, processVars, Job, Worker
<1>3. Answering(q, o)
  BY <1>1, <1>2, Here DEF Answering, AtStep, Carries, Idle, Pending, Journal!Is, Journal!Recorded, Worker
<1>4. ASSUME NEW s \in {"resuming", "retrying", "abandoning", "leaving"}, GoTo(q, s) PROVE Moving(q, o, s)
  BY <1>1, <1>2, <1>4, Here DEF Moving, Inside, Idle, TypesOK, RecoveryStages, cliVars
<1>5. ASSUME NEW s \in {"resuming", "retrying", "abandoning"}, GoTo(q, s),
             Journal!Is(o, Journal!Paused), PreviousCliExited(o)
      PROVE  TaskOK(q)'
  <2>1. stage'[q] = s
    BY <1>1, <1>5, Here DEF GoTo, TypesOK, Idle
  <2>2. Quiet(o)' /\ (faults' = 0 => ~Journal!HasStep(o, {Journal!Open})')
    BY <1>1, <1>2, <1>5, ExitIsVerified DEF Quiet, Journal!HasStep
  <2>3. o \in Operations /\ Journal!Recorded(o)' /\ operation'[o].status # "Accepted" /\ up'
    BY <1>1, <1>2, <1>5, Here DEF Idle, Journal!Is, Journal!Paused, Journal!Recorded
  <2>4. QED
    BY <1>2, <2>1, <2>2, <2>3 DEF TaskOK, StageOK, IntentIsRecorded, IsQuiet, MustBeQuiet, NothingOpen, Idle, Journal!Open
<1>6. ASSUME GoTo(q, "leaving") PROVE TaskOK(q)'
  <2>1. stage'[q] = "leaving" /\ o \in Operations /\ Journal!Recorded(o)' /\ up' /\ ~Worker(q)'
    BY <1>1, <1>2, <1>6, Here DEF GoTo, TypesOK, Idle, Journal!Recorded, Worker
  <2>2. QED
    BY <1>2, <2>1 DEF TaskOK, StageOK, IntentIsRecorded, IsQuiet, MustBeQuiet, NothingOpen, Begun, Decided
<1>7. PICK s \in {"resuming", "retrying", "abandoning", "leaving"} : GoTo(q, s) /\ TaskOK(q)'
  BY <1>5, <1>6 DEF Inspect
<1>8. Writing(q, o) /\ o \in Operations
  BY <1>1, <1>2, Here DEF Writing, Idle
<1>9. QED
  BY <1>1, <1>3, <1>4, <1>7, <1>8, Moves

\* A status written by a task inside: what is left is its own duties.
LEMMA StatusMoves ==
  ASSUME LInv, NEW t \in Tasks, Inside(t), stage[t] # "running", t = Job(t) \/ stage[t] \in Begun,
         NEW x \in Journal!Statuses \ {"Accepted"}, StatusBecomes(Job(t), x), Journal!Unresolved(Job(t)),
         x \in Journal!Closed => Quiet(Job(t)),
         UNCHANGED <<lifecycle, revision, step, gateVars, job, doing, result, commands, cliVars, processVars, faults>>,
         NEW s \in IF Worker(t) THEN WorkerStages ELSE RecoveryStages, GoTo(t, s),
         s \notin {Idle, "reserved", "accepted", "fallback", "done"},
         stage[t] \in {"issuing", "returned"} => FALSE,
         stage[t] = "recorded" => s = "issuing",
         x = "Executing" /\ ~Worker(t) => s \in {"retried", "completing"},
         \* its own duties
         s = "deciding" => step[Job(t)] = <<>>,
         s = "leaving" /\ Worker(t) => x = "Succeeded",
         s \notin {"entered", "recorded", "running", "returned", "failing"},
         s = "issuing" => stage[t] = "recorded" /\ x = "Executing",
         s \in {"deciding", "created", "verifying", "completing", "issuing", "resuming", "retrying", "retried",
                "abandoning"} => Quiet(Job(t)),
         s \in Decided /\ faults = 0 => ~Journal!HasStep(Job(t), {Journal!Open})
  PROVE  LInv'
<1> DEFINE p == Job(t)
<1>1. p \in Operations /\ Journal!Recorded(p) /\ up /\ TaskOK(t)
  BY Here DEF Inside
<1>2. stage'[t] = s /\ Job(t)' = p
  BY DEF GoTo, LInv, TypesOK, Job, Worker
<1>3. /\ Journal!Recorded(p)' /\ operation'[p].status = x
      /\ step' = step /\ faults' = faults /\ live' = live
  BY <1>1, <1>2, StatusWritten DEF LInv, cliVars
<1>4. Moving(t, p, s)
  BY <1>1 DEF Moving, gateVars, processVars, LInv, TypesOK
<1>5. Writing(t, p)
  BY DEF Writing
<1>6. Answering(t, p)
  <2>1. ~Worker(t) => t \in Recoverers /\ job[t] = p /\ job'[t] = p
    BY DEF Worker, Tasks, Job
  <2>2. AtStep(t, p) => AtStep(t, p)'
    BY <1>2 DEF AtStep
  <2>3. Pending(p)' => x = "Executing"
    BY <1>2, <1>3 DEF Pending, Journal!Is
  <2>4. QED
    BY <1>2, <2>1, <2>2, <2>3 DEF Answering, Carries, Idle, Worker
<1>7. TaskOK(t)'
  <2>1. StageOK(t)'
    BY <1>1, <1>2, <1>3 DEF StageOK, processVars, Idle, Worker
  <2>2. IntentIsRecorded(t)'
    BY <1>1, <1>2, <1>3 DEF TaskOK, IntentIsRecorded, Journal!Unresolved, Journal!Open, Journal!Closed
  <2>3. IsQuiet(t)' /\ NothingOpen(t)'
    BY <1>2, <1>3 DEF IsQuiet, MustBeQuiet, Quiet, NothingOpen, Journal!HasStep, Journal!Open, Decided
  <2>4. QED
    BY <2>1, <2>2, <2>3 DEF TaskOK
<1>8. QED
  BY <1>1, <1>4, <1>5, <1>6, <1>7, Moves

LEMMA MarkExecutingStep ==
  ASSUME LInv, NEW o \in Operations, MarkExecuting(o)
  PROVE  LInv'
<1>1. stage[o] \in {"entered", "recorded"} /\ o \in Tasks /\ Job(o) = o /\ Worker(o) /\ Inside(o)
  BY DEF MarkExecuting, Job, Worker, Tasks, Inside, Idle
<1>2. TaskOK(o) /\ OperationOK(o)
  BY DEF LInv, Tasks
<1>3. stage[o] = "entered" => step[o] = <<>> /\ ~Journal!HasStep(o, {Journal!Open})
  BY <1>1, <1>2 DEF TaskOK, StageOK, OperationOK, RowsOK, Journal!HasStep
<1>4. Quiet(o)
  BY <1>1, <1>2 DEF TaskOK, IsQuiet, MustBeQuiet
<1>5. StatusBecomes(o, "Executing") /\ Journal!Unresolved(o)
  BY DEF MarkExecuting, Journal!SetStatus, Journal!WriteStatus, StatusBecomes
<1>6. UNCHANGED <<lifecycle, revision, step, gateVars, job, doing, result, commands, cliVars, processVars, faults>>
  BY DEF MarkExecuting, Journal!SetStatus, Journal!instanceVars
<1>7. CASE stage[o] = "entered"
  <2>1. GoTo(o, "deciding")
    BY <1>7 DEF MarkExecuting
  <2>2. QED
    BY <1>1, <1>3, <1>4, <1>5, <1>6, <1>7, <2>1, StatusMoves
       DEF WorkerStages, Idle, Journal!Statuses, Journal!Closed
<1>8. CASE stage[o] = "recorded"
  <2>1. GoTo(o, "issuing")
    BY <1>8 DEF MarkExecuting
  <2>2. QED
    BY <1>1, <1>4, <1>5, <1>6, <1>8, <2>1, StatusMoves
       DEF WorkerStages, Idle, Decided, Journal!Statuses, Journal!Closed
<1>9. QED
  BY <1>1, <1>7, <1>8

LEMMA RefuseStep ==
  ASSUME LInv, NEW o \in Operations,
         \/ Refuse(o)
         \/ /\ stage[o] = "verifying" /\ GoTo(o, "givingUp")
            /\ Journal!SetStatus(o, "OutcomeUnknown") \/ Journal!SetStatus(o, "Failed")
            /\ UNCHANGED <<gateVars, job, doing, result, commands, cliVars, processVars, faults>>
  PROVE  LInv'
<1>1. stage[o] \in {"deciding", "verifying"} /\ o \in Tasks /\ Job(o) = o /\ Worker(o) /\ Inside(o)
  BY DEF Refuse, Job, Worker, Tasks, Inside, Idle
<1>2. PICK x \in {"Failed", "OutcomeUnknown"} : Journal!SetStatus(o, x)
  BY DEF Refuse
<1>3. StatusBecomes(o, x) /\ Journal!Unresolved(o)
  BY <1>2 DEF Journal!SetStatus, Journal!WriteStatus, StatusBecomes
<1>4. UNCHANGED <<lifecycle, revision, step, gateVars, job, doing, result, commands, cliVars, processVars, faults>>
  BY <1>2 DEF Refuse, Journal!SetStatus, Journal!instanceVars
<1>5. GoTo(o, "givingUp")
  BY DEF Refuse
<1>6. QED
  BY <1>1, <1>3, <1>4, <1>5, StatusMoves
     DEF WorkerStages, Idle, Decided, Journal!Statuses, Journal!Paused, Journal!Closed

LEMMA VerifyStep ==
  ASSUME LInv, NEW o \in Operations, Verify(o)
  PROVE  LInv'
<1>1. stage[o] = "verifying" /\ o \in Tasks /\ Job(o) = o /\ Worker(o)
  BY DEF Verify, Job, Worker, Tasks
<1>2. CASE GoTo(o, "completing") /\ UNCHANGED journalVars
  <2>1. stage'[o] = "completing"
    BY <1>1, <1>2, Here DEF GoTo, TypesOK, Idle
  <2>2. Moving(o, o, "completing")
    BY <1>1, <1>2, Here DEF Verify, Moving, Inside, Idle, TypesOK, WorkerStages, journalVars,
       gateVars, cliVars, processVars
  <2>3. Writing(o, o) /\ Answering(o, o)
    BY <1>1, <1>2, <2>1 DEF Writing, Answering, journalVars, AtStep, Idle, Worker
  <2>4. TaskOK(o)'
    <3>1. TaskOK(o) /\ Job(o)' = o /\ UNCHANGED <<operation, step, live, up, faults>>
      BY <1>1, <1>2, Here DEF Verify, journalVars, cliVars, processVars, Idle, Job, Worker
    <3>2. QED
      BY <1>1, <2>1, <3>1 DEF TaskOK, StageOK, IntentIsRecorded, IsQuiet, Quiet, MustBeQuiet, NothingOpen,
         Decided, Begun, Journal!Recorded, Journal!HasStep, Idle
  <2>5. QED
    BY <1>1, <2>2, <2>3, <2>4, Moves
<1>3. CASE ~GoTo(o, "completing")
  BY <1>3, RefuseStep DEF Verify
<1>4. CASE GoTo(o, "completing") /\ ~UNCHANGED journalVars
  <2>1. GoTo(o, "givingUp")
    BY <1>4 DEF Verify
  <2>2. QED
    BY <1>1, <1>4, <2>1, RefuseStep DEF Verify
<1>5. QED
  BY <1>2, <1>3, <1>4

LEMMA FailStep ==
  ASSUME LInv, NEW t \in Tasks, Fail(t)
  PROVE  LInv'
<1>1. stage[t] = "failing" /\ Inside(t) /\ stage[t] \in Begun
  BY DEF Fail, Inside, Idle, Begun
<1>2. PICK x \in {"Failed", "OutcomeUnknown"} : Journal!SetStatus(Job(t), x)
  BY DEF Fail
<1>3. StatusBecomes(Job(t), x) /\ Journal!Unresolved(Job(t))
  BY <1>2 DEF Journal!SetStatus, Journal!WriteStatus, StatusBecomes
<1>4. UNCHANGED <<lifecycle, revision, step, gateVars, job, doing, result, commands, cliVars, processVars, faults>>
  BY <1>2 DEF Fail, Journal!SetStatus, Journal!instanceVars
<1>5. PICK s \in {"givingUp", "leaving"} :
        GoTo(t, s) /\ (IF Worker(t) THEN s = "givingUp" ELSE s = "leaving")
  BY DEF Fail, ErrorStage
<1>6. s \in IF Worker(t) THEN WorkerStages ELSE RecoveryStages
  BY <1>5 DEF WorkerStages, RecoveryStages
<1>7. QED
  BY <1>1, <1>3, <1>4, <1>5, <1>6, StatusMoves
     DEF Idle, Decided, Journal!Statuses, Journal!Paused, Journal!Closed, Worker

LEMMA ResumeStep ==
  ASSUME LInv, NEW q \in Recoverers, Resume(q)
  PROVE  LInv'
<1>1. stage[q] = "resuming" /\ q \in Tasks /\ Job(q) = job[q] /\ ~Worker(q) /\ Inside(q) /\ stage[q] \in Begun
  BY LifecycleAssumption DEF Resume, Job, Worker, Tasks, Inside, Idle, Begun
<1>2. Quiet(job[q]) /\ (faults = 0 => ~Journal!HasStep(job[q], {Journal!Open}))
  BY <1>1, Here DEF Idle, TaskOK, IsQuiet, MustBeQuiet, NothingOpen, Decided
<1>3. StatusBecomes(job[q], "Executing") /\ Journal!Unresolved(job[q])
  BY DEF Resume, Journal!SetStatus, Journal!WriteStatus, StatusBecomes
<1>4. UNCHANGED <<lifecycle, revision, step, gateVars, job, doing, result, commands, cliVars, processVars, faults>>
  BY DEF Resume, Journal!SetStatus, Journal!instanceVars
<1>5. GoTo(q, "completing") /\ "completing" \in RecoveryStages
  BY DEF Resume, RecoveryStages
<1>6. QED
  BY <1>1, <1>2, <1>3, <1>4, <1>5, StatusMoves
     DEF Idle, Decided, Journal!Statuses, Journal!Closed, Worker

LEMMA AbandonStep ==
  ASSUME LInv, NEW q \in Recoverers, Abandon(q)
  PROVE  LInv'
<1>1. stage[q] = "abandoning" /\ q \in Tasks /\ Job(q) = job[q] /\ ~Worker(q) /\ Inside(q) /\ stage[q] \in Begun
  BY LifecycleAssumption DEF Abandon, Job, Worker, Tasks, Inside, Idle, Begun
<1>2. Quiet(job[q])
  BY <1>1, Here DEF Idle, TaskOK, IsQuiet, MustBeQuiet
<1>3. StatusBecomes(job[q], "Abandoned") /\ Journal!Unresolved(job[q])
  BY DEF Abandon, Journal!Abandon, Journal!WriteStatus, StatusBecomes, Journal!Is, Journal!Unresolved,
     Journal!Paused, Journal!Closed
<1>4. UNCHANGED <<lifecycle, revision, step, gateVars, job, doing, result, commands, cliVars, processVars, faults>>
  BY DEF Abandon, Journal!Abandon, Journal!instanceVars
<1>5. GoTo(q, "leaving") /\ "leaving" \in RecoveryStages
  BY DEF Abandon, RecoveryStages
<1>6. QED
  BY <1>1, <1>2, <1>3, <1>4, <1>5, StatusMoves
     DEF Idle, Decided, Journal!Statuses, Journal!Closed, Worker

LEMMA CompleteStep ==
  ASSUME LInv, NEW t \in Tasks, Complete(t)
  PROVE  LInv'
<1> DEFINE p == Job(t)
<1>1. stage[t] = "completing" /\ Inside(t) /\ stage[t] \in Begun
  BY DEF Complete, Inside, Idle, Begun
<1>2. /\ p \in Operations /\ Journal!Recorded(p) /\ up /\ TaskOK(t) /\ Quiet(p) /\ TypesOK
      /\ operation[p] \in Journal!OperationRows /\ operation[p].status # "Accepted"
      /\ ~Worker(t) => t \in Recoverers
  BY <1>1, Here DEF TaskOK, StageOK, IsQuiet, MustBeQuiet, Idle
<1>3. UNCHANGED <<lifecycle, revision, step, gateVars, job, doing, result, commands, cliVars, processVars, faults>>
  BY DEF Complete
<1>4. CASE Journal!Is(p, {"Executing"}) /\ lifecycle[operation[p].instance] = "managed"
  <2>1. StatusBecomes(p, "Succeeded") /\ GoTo(t, "leaving") /\ Journal!Unresolved(p)
    BY <1>4 DEF Complete, Journal!WriteStatus, StatusBecomes, Journal!Is, Journal!Unresolved, Journal!Closed
  <2>2. "leaving" \in IF Worker(t) THEN WorkerStages ELSE RecoveryStages
    BY DEF WorkerStages, RecoveryStages
  <2>3. QED
    BY <1>1, <1>2, <1>3, <2>1, <2>2, StatusMoves DEF Idle, Decided, Journal!Statuses, Journal!Closed
<1>5. CASE ~(Journal!Is(p, {"Executing"}) /\ lifecycle[operation[p].instance] = "managed")
  <2>1. operation' = operation /\ GoTo(t, ErrorStage(t))
    BY <1>5 DEF Complete
  <2>2. lifecycle[operation[p].instance] = "managed"
    BY <1>2 DEF TypesOK, Journal!OperationRows
  <2>3. stage'[t] = ErrorStage(t) /\ Job(t)' = p
    BY <1>2, <1>3, <2>1 DEF GoTo, TypesOK, Job, Worker
  <2>4. ~Pending(p)'
    BY <1>2, <1>3, <1>5, <2>1, <2>2, <2>3 DEF Pending, Journal!Is, Journal!Recorded
  <2>5. Moving(t, p, ErrorStage(t))
    BY <1>1, <1>2, <1>3, <2>1, <2>3 DEF Moving, ErrorStage, WorkerStages, RecoveryStages, Inside, Idle,
       gateVars, processVars, TypesOK
  <2>6. Writing(t, p) /\ Answering(t, p)
    BY <1>1, <2>1, <2>3, <2>4 DEF Writing, Answering, AtStep
  <2>7. TaskOK(t)'
    BY <1>2, <1>3, <2>1, <2>3 DEF TaskOK, StageOK, IntentIsRecorded, IsQuiet, MustBeQuiet, NothingOpen,
       Decided, Begun, ErrorStage, Worker, processVars, Journal!Recorded
  <2>8. QED
    BY <1>2, <2>5, <2>6, <2>7, Moves
<1>6. QED
  BY <1>4, <1>5

LEMMA FallbackStep ==
  ASSUME LInv, NEW o \in Operations, Fallback(o)
  PROVE  LInv'
<1>1. stage[o] = "fallback" /\ o \in Tasks /\ Job(o) = o /\ Worker(o)
  BY DEF Fallback, Job, Worker, Tasks
<1>2. Journal!Recorded(o) /\ up /\ TypesOK
  BY <1>1, Here DEF Idle
<1>3. stage'[o] = "done" /\ Job(o)' = o
  BY <1>2, <1>1 DEF Fallback, GoTo, TypesOK, Job, Worker
<1>4. UNCHANGED <<lifecycle, revision, step, gateVars, job, doing, result, commands, cliVars, processVars, faults>>
  BY DEF Fallback
<1>5. Writing(o, o) /\ ~Pending(o)' /\ Journal!Recorded(o)'
  <2>1. CASE Journal!Is(o, {"Accepted", "Executing"})
    <3>1. StatusBecomes(o, "OutcomeUnknown")
      BY <2>1 DEF Fallback, Journal!WriteStatus, StatusBecomes
    <3>2. Journal!Recorded(o)' /\ operation'[o].status = "OutcomeUnknown"
      BY <1>2, <3>1, StatusWritten DEF Journal!Statuses, Journal!Paused
    <3>3. QED
      BY <2>1, <3>1, <3>2 DEF Writing, Pending, Journal!Is, Journal!Unresolved, Journal!Closed,
         Journal!Statuses, Journal!Paused
  <2>2. CASE ~Journal!Is(o, {"Accepted", "Executing"})
    BY <1>2, <2>2 DEF Fallback, Writing, Pending, Journal!Is, Journal!Recorded
  <2>3. QED
    BY <2>1, <2>2
<1>6. Moving(o, o, "done")
  BY <1>1, <1>2, <1>3, <1>4 DEF Fallback, Moving, Inside, Idle, TypesOK, WorkerStages, gateVars, processVars
<1>7. Answering(o, o)
  BY <1>1, <1>5 DEF Answering, AtStep
<1>8. TaskOK(o)'
  BY <1>2, <1>3, <1>4, <1>5 DEF TaskOK, StageOK, IntentIsRecorded, IsQuiet, MustBeQuiet, NothingOpen, Decided, Begun
<1>9. QED
  BY <1>1, <1>5, <1>6, <1>7, <1>8, Moves

LEMMA RetryStep ==
  ASSUME LInv, NEW q \in Recoverers, Retry(q)
  PROVE  LInv'
<1> DEFINE o == job[q]
<1>1. stage[q] = "retrying" /\ q \in Tasks /\ Job(q) = o /\ ~Worker(q) /\ Inside(q) /\ stage[q] \in Begun
  BY LifecycleAssumption DEF Retry, Job, Worker, Tasks, Inside, Idle, Begun
<1>2. o \in Operations /\ Journal!Recorded(o) /\ up /\ TaskOK(q) /\ OperationOK(o) /\ TypesOK
  BY <1>1, Here DEF Idle
<1>3. Quiet(o) /\ (faults = 0 => ~Journal!HasStep(o, {Journal!Open}))
  BY <1>1, <1>2 DEF TaskOK, IsQuiet, MustBeQuiet, NothingOpen, Decided
<1>4. Journal!Retry(o) /\ operation[o].attempt \in 1..MaxAttempt
  BY <1>2 DEF Retry, OperationOK, RowsOK
<1>5. /\ stage'[q] = "retried" /\ Job(q)' = o
      /\ UNCHANGED <<lifecycle, revision, step, gateVars, job, result, cliVars, processVars, faults>>
  BY <1>1, <1>2 DEF Retry, GoTo, TypesOK, Journal!Retry, Journal!instanceVars, Job, Worker
<1>6. Journal!Recorded(o)' /\ operation'[o].status = "Executing"
  BY <1>1, <1>2, <1>4, <1>5, Retried DEF gateVars
<1>7. Moving(q, o, "retried")
  BY <1>1, <1>2, <1>5 DEF Retry, Moving, RecoveryStages, gateVars, processVars, TypesOK
<1>8. Writing(q, o) /\ Answering(q, o)
  BY <1>1, <1>4, <1>5 DEF Writing, Answering, AtStep, Carries, Worker
<1>9. TaskOK(q)'
  BY <1>2, <1>3, <1>5, <1>6 DEF TaskOK, StageOK, IntentIsRecorded, IsQuiet, MustBeQuiet, Quiet, NothingOpen,
     Decided, Begun, Journal!HasStep, processVars, cliVars
<1>10. QED
  BY <1>1, <1>2, <1>7, <1>8, <1>9, Moves

LEMMA StoreFailsStep ==
  ASSUME LInv, NEW t \in Tasks, StoreFails(t)
  PROVE  LInv'
<1> DEFINE p == Job(t)
<1>1. /\ p \in Operations /\ Journal!Recorded(p) /\ up /\ TaskOK(t) /\ TypesOK
      /\ ~Worker(t) => t \in Recoverers /\ stage[t] \in RecoveryStages
  BY Here DEF StoreFails, Idle
<1>2. /\ UNCHANGED <<journalVars, gateVars, job, doing, result, commands, cliVars, processVars>>
      /\ faults' \in Nat /\ faults' # 0
  BY <1>1 DEF StoreFails, TypesOK
<1>3. PICK s \in {ErrorStage(t), "done"} :
        /\ GoTo(t, s)
        /\ s = "done" => Worker(t)
        /\ stage[t] # "running" /\ (s = "done" \/ Inside(t))
  <2>1. CASE stage[t] = "fallback" /\ GoTo(t, "done")
    BY <1>1, <2>1 DEF RecoveryStages, Idle
  <2>2. CASE GoTo(t, ErrorStage(t)) /\ stage[t] \in
               {"entered", "deciding", "recorded", "created", "returned", "failing", "verifying", "completing",
                "resuming", "retrying", "retried", "abandoning"}
    BY <2>2 DEF Inside, Idle, ErrorStage
  <2>3. QED
    BY <2>1, <2>2 DEF StoreFails
<1>4. stage'[t] = s /\ Job(t)' = p
  BY <1>1, <1>2, <1>3 DEF GoTo, TypesOK, Job, Worker
<1>5. Moving(t, p, s)
  BY <1>1, <1>2, <1>3, <1>4 DEF Moving, ErrorStage, WorkerStages, RecoveryStages, Inside, Idle,
     gateVars, processVars, journalVars, TypesOK
<1>6. Writing(t, p) /\ Answering(t, p)
  BY <1>2 DEF Writing, Answering, journalVars
<1>7. TaskOK(t)'
  BY <1>1, <1>2, <1>3, <1>4 DEF TaskOK, StageOK, IntentIsRecorded, IsQuiet, MustBeQuiet, NothingOpen,
     Decided, Begun, ErrorStage, Worker, processVars, journalVars, Journal!Recorded
<1>8. QED
  BY <1>1, <1>5, <1>6, <1>7, Moves

-------------------------------------------------------------------------------
(* Steps of the journal, with a task at them *)

\* A step appended, its effect in doubt.
LEMMA StepRecorded ==
  ASSUME LInv, NEW p \in Operations, NEW a \in Nat, Journal!RecordStep(p, Len(step[p]) + 1, a)
  PROVE  /\ step' \in [Operations -> Seq(Journal!StepRows)]
         /\ \A o \in Operations \ {p} : step'[o] = step[o]
         /\ step'[p] # <<>> /\ step'[p][Len(step'[p])].outcome = Journal!Open
         /\ UNCHANGED <<lifecycle, revision, operation>>
         /\ RowsOK(p) => RowsOK(p)' \/ operation[p].status = "Accepted"
<1>1. /\ step[p] \in Seq(Journal!StepRows)
      /\ step' = [step EXCEPT ![p] = Append(step[p], [attempt |-> a, outcome |-> Journal!Open])]
  BY DEF LInv, TypesOK, Journal!RecordStep
<1> DEFINE e == [attempt |-> a, outcome |-> Journal!Open]
<1>2. e \in Journal!StepRows /\ e.outcome = Journal!Open
  BY DEF Journal!StepRows, Journal!Open
<1>3. step'[p] = Append(step[p], e) /\ \A o \in Operations \ {p} : step'[o] = step[o]
  BY <1>1 DEF LInv, TypesOK
<1> HIDE DEF e
<1>4. /\ step'[p] \in Seq(Journal!StepRows) /\ Len(step'[p]) = Len(step[p]) + 1
      /\ step'[p][Len(step[p]) + 1] = e /\ Len(step[p]) \in Nat
      /\ \A n \in DOMAIN step[p] : step'[p][n] = step[p][n]
      /\ DOMAIN step'[p] = 1..Len(step[p]) + 1 /\ DOMAIN step[p] = 1..Len(step[p])
  BY <1>1, <1>2, <1>3
<1>5. step' \in [Operations -> Seq(Journal!StepRows)]
  BY <1>1, <1>2 DEF LInv, TypesOK, e
<1>6. UNCHANGED <<lifecycle, revision, operation>> /\ Journal!Recorded(p) /\ Len(step[p]) + 1 <= MaxSteps
      /\ (step[p] # <<>> => step[p][Len(step[p])].outcome # Journal!Open)
  BY DEF Journal!RecordStep, Journal!instanceVars, Journal!Is
<1>7. ASSUME RowsOK(p), operation[p].status # "Accepted" PROVE RowsOK(p)'
  <2>1. \A n \in DOMAIN step[p] : step[p][n].outcome # Journal!Open
    <3>1. SUFFICES ASSUME NEW n \in DOMAIN step[p], step[p][n].outcome = Journal!Open PROVE FALSE
      OBVIOUS
    <3>2. n = Len(step[p]) /\ step[p] # <<>>
      BY <1>4, <1>7, <3>1 DEF RowsOK
    <3>3. QED
      BY <1>6, <3>1, <3>2
  <2>2. \A n \in DOMAIN step'[p] : step'[p][n].outcome = Journal!Open => n = Len(step'[p])
    BY <1>4, <2>1
  <2>3. Journal!Recorded(p)' /\ operation' = operation
    BY <1>6 DEF Journal!Recorded
  <2>4. QED
    BY <1>4, <1>6, <1>7, <2>2, <2>3 DEF RowsOK, Journal!Open
<1>8. QED
  BY <1>2, <1>3, <1>4, <1>5, <1>6, <1>7

\* The task at an operation writes one of its steps and moves on.
AtOwnStep(t, p, s) ==
  /\ GoTo(t, s) /\ s \in IF Worker(t) THEN WorkerStages ELSE RecoveryStages
  /\ Inside(t) /\ Inside(t)' /\ Job(t) = p /\ stage[t] # "running"
  /\ ~Worker(t) => s \in {"issuing", "failing", "completing"}
  /\ UNCHANGED <<lifecycle, revision, operation, gateVars, job, result, cliVars, processVars, faults>>
  /\ step' \in [Operations -> Seq(Journal!StepRows)]
  /\ \A o \in Operations \ {p} : step'[o] = step[o]

LEMMA StepMoves ==
  ASSUME LInv, NEW t \in Tasks, NEW p \in Operations, NEW s, AtOwnStep(t, p, s),
         TaskOK(t)', RowsOK(p)', Journal!HasStep(p, {Journal!Open})' => AtStep(t, p)',
         \A c \in live : c[1] = p =>
           c[2] = Len(step'[p]) /\ step'[p][c[2]].outcome \in {Journal!Open, "unknown"}
  PROVE  LInv'
<1>1. /\ stage' \in [Tasks -> WorkerStages \cup RecoveryStages]
      /\ \A o \in Operations : stage'[o] \in WorkerStages
      /\ \A q \in Recoverers : stage'[q] \in RecoveryStages
      /\ stage'[t] = s /\ \A u \in Tasks \ {t} : stage'[u] = stage[u]
  BY LifecycleAssumption DEF LInv, TypesOK, AtOwnStep, GoTo, Tasks, Worker
<1>2. TypesOK'
  BY <1>1 DEF LInv, TypesOK, AtOwnStep, gateVars, cliVars, processVars
<1>3. Journal!OneUnresolvedOperation' /\ ClaimsOK'
  BY <1>1, OwnersKept, ClaimsKept DEF AtOwnStep, gateVars, Journal!Unresolved, Journal!Recorded
<1>4. OthersKept(t, p) /\ Touches(t, p)
  BY <1>1 DEF OthersKept, Touches, AtOwnStep, cliVars, processVars, Job, Worker
<1>5. OperationOK(p)'
  <2>1. PendingIsCarried(p)'
    <3>1. CASE Worker(t)
      BY <1>1, <3>1 DEF PendingIsCarried, AtOwnStep, Inside, Job, Idle
    <3>2. CASE ~Worker(t)
      <4>1. Carries(t, p)' /\ t \in Recoverers
        BY <1>1, <3>2 DEF Carries, AtOwnStep, Job, Worker, Tasks
      <4>2. QED
        BY <4>1 DEF PendingIsCarried
    <3>3. QED
      BY <3>1, <3>2
  <2>2. QED
    BY <2>1 DEF OperationOK, OpenIsAtHand
<1>6. ASSUME NEW c \in live', c[1] = p PROVE CliOK(c)'
  <2>1. c \in live /\ CliOK(c)
    BY <1>6 DEF LInv, AtOwnStep, cliVars
  <2>2. ASSUME NEW u \in Tasks, Attends(u, p) PROVE Attends(u, p)'
    BY <1>1, <2>2 DEF Attends, AtOwnStep, Job, Worker
  <2>3. QED
    BY <1>6, <2>1, <2>2 DEF CliOK, AtOwnStep, cliVars, processVars, Journal!Unresolved, Journal!Recorded, Journal!Open
<1>7. QED
  BY <1>2, <1>3, <1>4, <1>5, <1>6, Frame

LEMMA RecordCommandStep ==
  ASSUME LInv, NEW o \in Operations, RecordCommand(o)
  PROVE  LInv'
<1>1. stage[o] \in {"deciding", "created"} /\ o \in Tasks /\ Job(o) = o /\ Worker(o) /\ Inside(o)
  BY DEF RecordCommand, Job, Worker, Tasks, Inside, Idle
<1>2. /\ Journal!Recorded(o) /\ up /\ RowsOK(o) /\ TypesOK /\ Quiet(o)
      /\ operation[o].status # "Accepted"
  BY <1>1, Here DEF Idle, TaskOK, StageOK, IsQuiet, MustBeQuiet, Begun, OperationOK
<1>3. Journal!RecordStep(o, Len(step[o]) + 1, 1) /\ Journal!Unresolved(o)
  BY DEF RecordCommand, Journal!RecordStep, Journal!Is, Journal!Unresolved, Journal!Closed
<1>4. /\ step' \in [Operations -> Seq(Journal!StepRows)]
      /\ \A p \in Operations \ {o} : step'[p] = step[p]
      /\ step'[o] # <<>> /\ step'[o][Len(step'[o])].outcome = Journal!Open
      /\ UNCHANGED <<lifecycle, revision, operation>>
      /\ RowsOK(o)'
  BY <1>2, <1>3, StepRecorded
<1>5. stage'[o] = "recorded" /\ Job(o)' = o
  BY <1>2, <1>1 DEF RecordCommand, GoTo, TypesOK, Job, Worker
<1>6. AtOwnStep(o, o, "recorded")
  BY <1>1, <1>4, <1>5 DEF AtOwnStep, RecordCommand, WorkerStages, Inside, Idle
<1>7. AtStep(o, o)'
  BY <1>5 DEF AtStep
<1>8. TaskOK(o)'
  <2>1. StageOK(o)'
    BY <1>2, <1>4, <1>5 DEF StageOK, RecordCommand, processVars, Idle, Journal!Recorded
  <2>2. IntentIsRecorded(o)'
    BY <1>3, <1>4, <1>5 DEF IntentIsRecorded, Journal!Unresolved, Journal!Recorded, Journal!Open
  <2>3. IsQuiet(o)' /\ NothingOpen(o)'
    BY <1>2, <1>5 DEF IsQuiet, Quiet, NothingOpen, RecordCommand, cliVars, Decided
  <2>4. QED
    BY <2>1, <2>2, <2>3 DEF TaskOK
<1>9. QED
  BY <1>1, <1>2, <1>4, <1>6, <1>7, <1>8, StepMoves DEF Quiet

LEMMA RecordRetryStep ==
  ASSUME LInv, NEW q \in Recoverers, RecordRetry(q)
  PROVE  LInv'
<1>0. PICK o \in Operations : o = job[q]
  BY LifecycleAssumption, Here DEF RecordRetry, Tasks, Idle, Job, Worker
<1>1. stage[q] = "retried" /\ q \in Tasks /\ Job(q) = o /\ ~Worker(q) /\ Inside(q)
  BY <1>0, LifecycleAssumption DEF RecordRetry, Job, Worker, Tasks, Inside, Idle
<1>2. /\ Journal!Recorded(o) /\ up /\ RowsOK(o) /\ TypesOK /\ Quiet(o) /\ TaskOK(q)
      /\ operation[o].status # "Accepted" /\ operation[o].attempt \in Nat
  BY <1>1, Here DEF Idle, TaskOK, StageOK, IsQuiet, MustBeQuiet, Begun, OperationOK, Journal!OperationRows
<1>3. CASE Journal!Is(o, {"Accepted", "Executing"})
  <2>1. Journal!RecordStep(o, Len(step[o]) + 1, operation[o].attempt) /\ Journal!Unresolved(o)
    BY <1>0, <1>3 DEF RecordRetry, Journal!Is, Journal!Unresolved, Journal!Closed
  <2>2. /\ step' \in [Operations -> Seq(Journal!StepRows)]
        /\ \A p \in Operations \ {o} : step'[p] = step[p]
        /\ step'[o] # <<>> /\ step'[o][Len(step'[o])].outcome = Journal!Open
        /\ UNCHANGED <<lifecycle, revision, operation>>
        /\ RowsOK(o)'
    BY <1>2, <2>1, StepRecorded
  <2>3. stage'[q] = "issuing" /\ Job(q)' = o /\ GoTo(q, "issuing")
    BY <1>0, <1>1, <1>2, <1>3 DEF RecordRetry, GoTo, TypesOK, Job, Worker
  <2>4. AtOwnStep(q, o, "issuing")
    BY <1>1, <2>2, <2>3 DEF AtOwnStep, RecordRetry, RecoveryStages, Inside, Idle, Worker
  <2>5. AtStep(q, o)'
    BY <2>3 DEF AtStep
  <2>6. TaskOK(q)'
    <3>1. StageOK(q)'
      BY <1>1, <1>2, <2>2, <2>3 DEF StageOK, RecordRetry, processVars, Idle, Journal!Recorded
    <3>2. IntentIsRecorded(q)'
      BY <2>1, <2>2, <2>3 DEF IntentIsRecorded, Journal!Unresolved, Journal!Recorded, Journal!Open
    <3>3. IsQuiet(q)' /\ NothingOpen(q)'
      BY <1>2, <2>3 DEF IsQuiet, Quiet, NothingOpen, RecordRetry, cliVars, Decided
    <3>4. QED
      BY <3>1, <3>2, <3>3 DEF TaskOK
  <2>7. QED
    BY <1>1, <1>2, <2>2, <2>4, <2>5, <2>6, StepMoves DEF Quiet
<1>4. CASE ~Journal!Is(o, {"Accepted", "Executing"})
  <2>1. GoTo(q, "leaving") /\ UNCHANGED journalVars
    BY <1>0, <1>4 DEF RecordRetry
  <2>2. stage'[q] = "leaving" /\ Job(q)' = o /\ ~Pending(o)'
    BY <1>0, <1>1, <1>2, <1>4, <2>1 DEF RecordRetry, GoTo, TypesOK, Job, Worker, Pending, Journal!Is,
       Journal!Recorded, journalVars
  <2>3. Moving(q, o, "leaving")
    BY <1>1, <1>2, <2>1, <2>2 DEF RecordRetry, Moving, RecoveryStages, gateVars, processVars, cliVars, TypesOK, journalVars
  <2>4. Writing(q, o) /\ Answering(q, o)
    BY <1>1, <2>1, <2>2 DEF Writing, Answering, AtStep, journalVars
  <2>5. TaskOK(q)'
    BY <1>1, <1>2, <2>1, <2>2 DEF RecordRetry, TaskOK, StageOK, IntentIsRecorded, IsQuiet, MustBeQuiet, NothingOpen,
       Decided, Begun, Worker, processVars, journalVars, Journal!Recorded
  <2>6. QED
    BY <1>1, <2>3, <2>4, <2>5, Moves
<1>5. QED
  BY <1>3, <1>4

LEMMA OutcomeOf ==
  ASSUME NEW r \in Journal!StepRows, NEW x \in Journal!Outcomes
  PROVE  [r EXCEPT !.outcome = x] \in Journal!StepRows /\ [r EXCEPT !.outcome = x].outcome = x
BY DEF Journal!StepRows

LEMMA EntryReplaced ==
  ASSUME NEW q \in Seq(Journal!StepRows), NEW n \in DOMAIN q, NEW e \in Journal!StepRows,
         NEW r, r = [q EXCEPT ![n] = e]
  PROVE  /\ r \in Seq(Journal!StepRows) /\ Len(r) = Len(q) /\ DOMAIN r = DOMAIN q /\ r[n] = e
         /\ \A m \in DOMAIN q : m # n => r[m] = q[m]
OBVIOUS

\* The outcome of the last step is written.
LEMMA StepFinished ==
  ASSUME LInv, NEW p \in Operations, RowsOK(p), NEW x \in {"succeeded", "failed", "unknown"},
         Journal!FinishStep(p, Len(step[p]), x)
  PROVE  /\ step' \in [Operations -> Seq(Journal!StepRows)]
         /\ \A o \in Operations \ {p} : step'[o] = step[o]
         /\ UNCHANGED <<lifecycle, revision, operation>>
         /\ Len(step'[p]) = Len(step[p]) /\ step'[p][Len(step[p])].outcome = x
         /\ RowsOK(p)' /\ ~Journal!HasStep(p, {Journal!Open})'
<1> DEFINE n == Len(step[p])
<1>1. /\ step[p] \in Seq(Journal!StepRows) /\ n \in DOMAIN step[p]
      /\ step' = [step EXCEPT ![p][n].outcome = x]
      /\ UNCHANGED <<lifecycle, revision, operation>>
  BY DEF LInv, TypesOK, Journal!FinishStep, Journal!instanceVars
<1>2. step[p][n] \in Journal!StepRows
  BY <1>1
<1>3. PICK r \in Journal!StepRows : r = step[p][n]
  BY <1>2
<1> DEFINE e == [r EXCEPT !.outcome = x]
<1>4. e \in Journal!StepRows /\ e.outcome = x /\ step' = [step EXCEPT ![p] = [step[p] EXCEPT ![n] = e]]
  <2>1. x \in Journal!Outcomes
    BY DEF Journal!Outcomes
  <2>2. e \in Journal!StepRows /\ e.outcome = x
    BY <2>1, OutcomeOf
  <2>3. step' = [step EXCEPT ![p] = [step[p] EXCEPT ![n] = e]]
    BY <1>1, <1>3
  <2>4. QED
    BY <2>2, <2>3
<1> HIDE DEF e
<1>5. step'[p] = [step[p] EXCEPT ![n] = e] /\ \A o \in Operations \ {p} : step'[o] = step[o]
  BY <1>4 DEF LInv, TypesOK
<1>6. /\ step'[p] \in Seq(Journal!StepRows) /\ Len(step'[p]) = n
      /\ DOMAIN step'[p] = DOMAIN step[p] /\ step'[p][n] = e
      /\ \A m \in DOMAIN step[p] : m # n => step'[p][m] = step[p][m]
  <2>1. step'[p] = [step[p] EXCEPT ![n] = e] /\ step[p] \in Seq(Journal!StepRows) /\ n \in DOMAIN step[p]
        /\ n = Len(step[p])
    BY <1>1, <1>5
  <2> HIDE DEF n
  <2>2. QED
    BY <2>1, <1>4, EntryReplaced
<1>7. step' \in [Operations -> Seq(Journal!StepRows)]
  BY <1>4, <1>5, <1>6 DEF LInv, TypesOK
<1>8. \A m \in DOMAIN step'[p] : step'[p][m].outcome # Journal!Open
  BY <1>4, <1>6 DEF RowsOK, Journal!Open
<1>9. ~Journal!HasStep(p, {Journal!Open})'
  BY <1>8 DEF Journal!HasStep, Journal!Open
<1>10. RowsOK(p)'
  <2>1. step[p] # <<>>
    BY <1>1
  <2>2. QED
    BY <1>1, <1>6, <1>8, <2>1 DEF RowsOK, Journal!Recorded, Journal!Open
<1>11. QED
  BY <1>1, <1>4, <1>5, <1>6, <1>7, <1>9, <1>10

LEMMA FinishStepStep ==
  ASSUME LInv, NEW t \in Tasks, FinishStep(t)
  PROVE  LInv'
<1>0. PICK p \in Operations : p = Job(t)
  BY Here DEF FinishStep, Idle
<1>1. stage[t] = "returned" /\ Inside(t)
  BY DEF FinishStep, Inside, Idle
<1>2. /\ Journal!Recorded(p) /\ up /\ RowsOK(p) /\ TypesOK /\ TaskOK(t)
      /\ operation[p].status # "Accepted" /\ result[t] \in {"succeeded", "failed", "unknown"}
      /\ result[t] # "unknown" => Quiet(p)
  BY <1>0, <1>1, Here DEF Idle, TaskOK, StageOK, IsQuiet, MustBeQuiet, Begun, OperationOK, TypesOK
<1>3. Outcome(t) \in {"succeeded", "failed", "unknown"}
  BY <1>2 DEF Outcome
<1>4. Journal!FinishStep(p, Len(step[p]), Outcome(t))
  BY <1>0 DEF FinishStep
<1>5. /\ step' \in [Operations -> Seq(Journal!StepRows)]
      /\ \A o \in Operations \ {p} : step'[o] = step[o]
      /\ UNCHANGED <<lifecycle, revision, operation>>
      /\ Len(step'[p]) = Len(step[p]) /\ step'[p][Len(step[p])].outcome = Outcome(t)
      /\ RowsOK(p)' /\ ~Journal!HasStep(p, {Journal!Open})'
  BY <1>2, <1>3, <1>4, StepFinished
<1>6. PICK s \in {"failing", "completing", "created", "verifying"} :
        /\ GoTo(t, s)
        /\ s # "failing" => result[t] = "succeeded"
        /\ s \in {"failing", "completing"} \/ Worker(t)
        /\ s = "completing" => ~Worker(t)
  <2>1. ASSUME result[t] # "succeeded" PROVE GoTo(t, "failing")
    BY <2>1 DEF FinishStep, GoTo
  <2>2. ASSUME result[t] = "succeeded", ~Worker(t) PROVE GoTo(t, "completing")
    BY <2>2 DEF FinishStep, GoTo
  <2>3. ASSUME result[t] = "succeeded", Worker(t) PROVE GoTo(t, "created") \/ GoTo(t, "verifying")
    BY <2>3 DEF FinishStep, GoTo
  <2>4. QED
    BY <2>1, <2>2, <2>3
<1>7. stage'[t] = s /\ Job(t)' = p /\ result' = result
  BY <1>0, <1>2, <1>6 DEF FinishStep, GoTo, TypesOK, Job, Worker
<1>8. AtOwnStep(t, p, s)
  BY <1>0, <1>1, <1>5, <1>6, <1>7 DEF AtOwnStep, FinishStep, WorkerStages, RecoveryStages, Inside, Idle, Worker
<1>9. TaskOK(t)'
  <2>1. StageOK(t)' /\ IntentIsRecorded(t)'
    BY <1>2, <1>5, <1>6, <1>7 DEF StageOK, IntentIsRecorded, FinishStep, processVars, Idle, Journal!Recorded, Worker
  <2>2. IsQuiet(t)' /\ NothingOpen(t)'
    BY <1>2, <1>5, <1>6, <1>7 DEF IsQuiet, MustBeQuiet, Quiet, NothingOpen, FinishStep, cliVars
  <2>3. QED
    BY <2>1, <2>2 DEF TaskOK
<1>10. ASSUME NEW c \in live, c[1] = p
       PROVE  c[2] = Len(step'[p]) /\ step'[p][c[2]].outcome \in {Journal!Open, "unknown"}
  <2>1. CliOK(c) /\ result[t] = "unknown"
    BY <1>2, <1>10 DEF LInv, Quiet
  <2>2. QED
    BY <1>5, <1>10, <2>1 DEF CliOK, Outcome
<1>11. QED
  BY <1>5, <1>8, <1>9, <1>10, StepMoves

-------------------------------------------------------------------------------
(* Steps of a CLI *)

\* The task in charge of an operation's CLI starts it or gives it up.
AtOwnCli(t, p, s) ==
  /\ GoTo(t, s) /\ s \in {"running", "returned"}
  /\ Job(t) = p /\ stage[t] \in {"issuing", "running"}
  /\ UNCHANGED <<journalVars, gateVars, job, processVars, faults>>
  /\ result' \in [Tasks -> {"none", "succeeded", "failed", "unknown"}]
  /\ \A u \in Tasks \ {t} : result'[u] = result[u]
  /\ s = "returned" => result'[t] # "none"
  /\ blocked' \in BOOLEAN /\ (blocked => blocked')
  /\ live' \subseteq live \cup {<<p, Len(step[p])>>}
  /\ \A c \in live : c[1] # p => c \in live'

LEMMA CliMoves ==
  ASSUME LInv, NEW t \in Tasks, NEW p \in Operations, NEW s, AtOwnCli(t, p, s),
         s = "returned" /\ result'[t] # "unknown" => Quiet(p)',
         ~Quiet(p)' => s = "running" \/ blocked'
  PROVE  LInv'
<1>1. /\ TaskOK(t) /\ OperationOK(p) /\ TypesOK /\ Journal!Recorded(p) /\ up /\ Inside(t)
      /\ Job(t) = p /\ (~Worker(t) => t \in Recoverers)
  BY Here DEF AtOwnCli, Inside, Idle
<1>2. /\ Journal!Unresolved(p) /\ step[p] # <<>> /\ step[p][Len(step[p])].outcome = Journal!Open
      /\ operation[p].status # "Accepted"
  BY <1>1 DEF AtOwnCli, TaskOK, IntentIsRecorded, StageOK, Begun
<1>3. Len(step[p]) \in Nat \ {0}
  BY <1>1, <1>2 DEF TypesOK
<1>4. /\ stage' \in [Tasks -> WorkerStages \cup RecoveryStages]
      /\ \A o \in Operations : stage'[o] \in WorkerStages
      /\ \A q \in Recoverers : stage'[q] \in RecoveryStages
      /\ stage'[t] = s /\ \A u \in Tasks \ {t} : stage'[u] = stage[u]
  BY <1>1 DEF TypesOK, AtOwnCli, GoTo, WorkerStages, RecoveryStages
<1>5. live' \subseteq Operations \X (Nat \ {0})
  BY <1>1, <1>3 DEF TypesOK, AtOwnCli
<1>6. TypesOK'
  BY <1>1, <1>4, <1>5 DEF TypesOK, AtOwnCli, journalVars, gateVars, processVars
<1>7. Job(t)' = p /\ UNCHANGED <<operation, step, job, up, inherited, faults>> /\ Inside(t)'
  BY <1>1, <1>4 DEF AtOwnCli, journalVars, processVars, Job, Worker, Inside, Idle
<1>8. Journal!OneUnresolvedOperation' /\ ClaimsOK'
  BY <1>1, <1>4, <1>7, OwnersKept, ClaimsKept DEF AtOwnCli, gateVars, Journal!Unresolved, Journal!Recorded
<1>9. OthersKept(t, p)
  <2>1. \A c \in live' \cup live : c[1] # p => c \in live' \cap live
    BY DEF AtOwnCli
  <2>2. QED
    BY <1>1, <1>4, <1>7, <2>1 DEF OthersKept, AtOwnCli
<1>10. Touches(t, p)
  BY <1>1 DEF Touches
<1>11. TaskOK(t)'
  <2>1. StageOK(t)' /\ IntentIsRecorded(t)' /\ NothingOpen(t)'
    BY <1>1, <1>2, <1>4, <1>7 DEF AtOwnCli, StageOK, IntentIsRecorded, NothingOpen, Decided, Idle,
       Journal!Recorded, Journal!Unresolved, Journal!Open
  <2>2. IsQuiet(t)'
    BY <1>4, <1>7 DEF AtOwnCli, IsQuiet, MustBeQuiet
  <2>3. QED
    BY <2>1, <2>2 DEF TaskOK
<1>12. OperationOK(p)'
  <2>1. RowsOK(p)'
    BY <1>1, <1>7 DEF OperationOK, RowsOK, Journal!Recorded, Journal!Open
  <2>2. AtStep(t, p)'
    BY <1>4, <1>7 DEF AtOwnCli, AtStep
  <2>3. PendingIsCarried(p)'
    <3>1. CASE Worker(t)
      BY <1>1, <1>4, <3>1 DEF PendingIsCarried, AtOwnCli, Job, Idle
    <3>2. CASE ~Worker(t)
      <4>1. Carries(t, p)' /\ t \in Recoverers
        BY <1>1, <1>4, <1>7, <3>2 DEF Carries, AtOwnCli, Job, Worker
      <4>2. QED
        BY <4>1 DEF PendingIsCarried
    <3>3. QED
      BY <3>1, <3>2
  <2>4. QED
    BY <2>1, <2>2, <2>3 DEF OperationOK, OpenIsAtHand
<1>13. ASSUME NEW c \in live', c[1] = p PROVE CliOK(c)'
  <2>1. s = "running" => Attends(t, p)'
    BY <1>4, <1>7 DEF Attends
  <2>2. s = "running" \/ blocked'
    BY <1>13 DEF Quiet
  <2>3. Journal!Unresolved(c[1]) /\ c[2] = Len(step[c[1]]) /\ step[c[1]][c[2]].outcome \in {Journal!Open, "unknown"}
    <3>1. CASE c \in live
      BY <3>1 DEF LInv, CliOK
    <3>2. CASE c = <<p, Len(step[p])>>
      BY <1>2, <3>2
    <3>3. QED
      BY <3>1, <3>2 DEF AtOwnCli
  <2>4. QED
    BY <1>7, <1>13, <2>1, <2>2, <2>3 DEF CliOK, Journal!Unresolved, Journal!Recorded, Journal!Open
<1>14. QED
  BY <1>6, <1>8, <1>9, <1>10, <1>11, <1>12, <1>13, Frame

LEMMA CliStep ==
  ASSUME LInv, NEW t \in Tasks, Launch(t) \/ CliReturns(t) \/ CliLost(t)
  PROVE  LInv'
<1>0. PICK p \in Operations : p = Job(t)
  BY Here DEF Launch, CliReturns, CliLost, Idle
<1>1. CASE Launch(t)
  <2>1. AtOwnCli(t, p, "running")
    BY <1>0, <1>1 DEF AtOwnCli, Launch, LInv, TypesOK, cliVars
  <2>2. QED
    BY <1>0, <2>1, CliMoves
<1>2. CASE CliReturns(t)
  <2>1. AtOwnCli(t, p, "returned")
    <3>1. /\ result' \in [Tasks -> {"none", "succeeded", "failed", "unknown"}] /\ result'[t] # "none"
          /\ \A u \in Tasks \ {t} : result'[u] = result[u]
          /\ blocked' \in {blocked, TRUE}
      BY <1>2 DEF CliReturns, LInv, TypesOK
    <3>2. blocked' \in BOOLEAN /\ (blocked => blocked')
      <4>1. blocked \in BOOLEAN
        BY DEF LInv, TypesOK
      <4>2. CASE blocked' = blocked
        BY <4>1, <4>2
      <4>3. CASE blocked' = TRUE
        BY <4>3
      <4>4. QED
        BY <3>1, <4>2, <4>3
    <3>3. QED
      BY <1>0, <1>2, <3>1, <3>2 DEF AtOwnCli, CliReturns
  <2>2. Quiet(p)'
    <3>1. SUFFICES ASSUME NEW c \in live, c \in live', c[1] = p PROVE FALSE
      BY <1>0, <1>2 DEF CliReturns, Quiet
    <3>2. c[2] = Len(step[p]) /\ c = <<c[1], c[2]>>
      BY <3>1 DEF LInv, CliOK, TypesOK
    <3>3. QED
      BY <1>0, <1>2, <3>1, <3>2 DEF CliReturns
  <2>3. QED
    BY <2>1, <2>2, CliMoves
<1>3. CASE CliLost(t)
  <2>1. AtOwnCli(t, p, "returned") /\ blocked' /\ result'[t] = "unknown"
    BY <1>0, <1>3 DEF AtOwnCli, CliLost, LInv, TypesOK
  <2>2. QED
    BY <2>1, CliMoves
<1>4. QED
  BY <1>1, <1>2, <1>3

\* A CLI that ends by itself, or nothing at all.
LEMMA Unmoved ==
  ASSUME LInv, OrphanEnds \/ UNCHANGED vars
  PROVE  LInv'
<1>1. /\ UNCHANGED <<lifecycle, revision, operation, step, guard, instances, stage, job, result, blocked, up,
                     inherited, faults>>
      /\ live' \subseteq live
  BY DEF OrphanEnds, vars, journalVars, gateVars, taskVars, cliVars, processVars
<1>2. \A t \in Tasks : Job(t)' = Job(t) /\ Inside(t)' = Inside(t)
  BY <1>1 DEF Job, Worker, Inside
<1>3. TypesOK' /\ Journal!OneUnresolvedOperation' /\ ClaimsOK'
  BY <1>1, <1>2 DEF LInv, TypesOK, ClaimsOK, Journal!OneUnresolvedOperation, Journal!Unresolved, Journal!Recorded
<1>4. ASSUME NEW t \in Tasks PROVE TaskOK(t)'
  <2>1. TaskOK(t)
    BY DEF LInv
  <2>2. StageOK(t)' /\ IntentIsRecorded(t)' /\ NothingOpen(t)'
    BY <1>1, <1>2, <2>1 DEF TaskOK, StageOK, IntentIsRecorded, NothingOpen, Journal!Recorded, Journal!Unresolved,
       Journal!HasStep, Journal!Open, Worker
  <2>3. IsQuiet(t)'
    BY <1>1, <1>2, <2>1 DEF TaskOK, IsQuiet, MustBeQuiet, Quiet
  <2>4. QED
    BY <2>2, <2>3 DEF TaskOK
<1>5. ASSUME NEW o \in Operations PROVE OperationOK(o)'
  <2>1. OperationOK(o)
    BY DEF LInv
  <2>2. RowsOK(o)'
    BY <1>1, <2>1 DEF OperationOK, RowsOK, Journal!Recorded, Journal!Open
  <2>3. OpenIsAtHand(o)'
    BY <1>1, <1>2, <2>1 DEF OperationOK, OpenIsAtHand, AtStep, Journal!Recorded, Journal!Unresolved, Journal!HasStep, Journal!Open
  <2>4. PendingIsCarried(o)'
    BY <1>1, <2>1 DEF OperationOK, PendingIsCarried, Pending, Carries, Journal!Is, Journal!Recorded
  <2>5. QED
    BY <2>2, <2>3, <2>4 DEF OperationOK
<1>6. ASSUME NEW c \in live' PROVE CliOK(c)'
  BY <1>1, <1>2 DEF LInv, CliOK, Attends, Journal!Unresolved, Journal!Recorded, Journal!Open
<1>7. QED
  BY <1>3, <1>4, <1>5, <1>6 DEF LInv

-------------------------------------------------------------------------------
(* Steps of the gate *)

\* A task takes, binds or gives back its claim and moves on; the journal and
\* the CLIs stay as they are.
AtGate(t, p, s) ==
  /\ s \in IF Worker(t) THEN WorkerStages ELSE RecoveryStages
  /\ stage' = [stage EXCEPT ![t] = s]
  /\ Job(t) = p \/ (t \in Recoverers /\ stage[t] = Idle)
  /\ UNCHANGED <<journalVars, cliVars, processVars, faults>>
  /\ guard' \in [Tasks -> Instances \cup {NoClaim, Unbound}]
  /\ job' \in [Recoverers -> Operations \cup {NoOperation}]
  /\ \A q \in Recoverers \ {t} : job'[q] = job[q]
  /\ result' \in [Tasks -> {"none", "succeeded", "failed", "unknown"}]
  /\ \A u \in Tasks \ {t} : result'[u] = result[u]
  /\ stage[t] \notin {"recorded", "issuing", "running", "returned"}

LEMMA GateMoves ==
  ASSUME LInv, NEW t \in Tasks, NEW p \in Operations, NEW s, AtGate(t, p, s),
         Job(t)' \in {p, NoOperation}, ClaimsOK', TaskOK(t)',
         ~Worker(t) => ~Carries(t, p), 
         Worker(t) => \/ s \notin {Idle, "reserved", "done"} \/ ~Pending(p)
                      \/ stage[t] \in {Idle, "reserved", "done"}
  PROVE  LInv'
<1>1. /\ stage' \in [Tasks -> WorkerStages \cup RecoveryStages]
      /\ \A o \in Operations : stage'[o] \in WorkerStages
      /\ \A q \in Recoverers : stage'[q] \in RecoveryStages
      /\ stage'[t] = s /\ \A u \in Tasks \ {t} : stage'[u] = stage[u]
  BY LifecycleAssumption DEF LInv, TypesOK, AtGate, Tasks, Worker
<1>2. UNCHANGED <<lifecycle, revision, operation, step, live, blocked, up, inherited, faults>>
  BY DEF AtGate, journalVars, cliVars, processVars
<1>3. TypesOK'
  BY <1>1, <1>2 DEF LInv, TypesOK, AtGate
<1>4. Journal!OneUnresolvedOperation'
  BY <1>2 DEF LInv, Journal!OneUnresolvedOperation, Journal!Unresolved, Journal!Recorded
<1>5. OthersKept(t, p) /\ Touches(t, p)
  BY <1>1, <1>2 DEF AtGate, OthersKept, Touches
<1>6. OperationOK(p)'
  <2>1. OperationOK(p)
    BY DEF LInv
  <2>2. RowsOK(p)'
    BY <1>2, <2>1 DEF OperationOK, RowsOK, Journal!Recorded, Journal!Open
  <2>3. ASSUME NEW u \in Tasks, AtStep(u, p) PROVE AtStep(u, p)'
    BY <1>1, <2>3, LifecycleAssumption DEF AtStep, AtGate, Job, Worker, Tasks
  <2>4. OpenIsAtHand(p)'
    BY <1>2, <2>1, <2>3 DEF OperationOK, OpenIsAtHand, Journal!Recorded, Journal!Unresolved, Journal!HasStep, Journal!Open
  <2>5. ASSUME NEW q \in Recoverers, Carries(q, p) PROVE Carries(q, p)'
    BY <1>1, <2>5, LifecycleAssumption DEF Carries, AtGate, Worker, Tasks, Job
  <2>6. PendingIsCarried(p)'
    <3>1. Pending(p)' = Pending(p)
      BY <1>2 DEF Pending, Journal!Is, Journal!Recorded
    <3>2. CASE Worker(t)
      <4>1. t = p /\ t \notin Recoverers
        BY <3>2, LifecycleAssumption DEF AtGate, Worker, Job
      <4>2. QED
        BY <1>1, <1>2, <2>1, <2>5, <3>1, <3>2, <4>1 DEF OperationOK, PendingIsCarried, Idle
    <3>3. CASE ~Worker(t)
      <4>1. stage'[p] = stage[p]
        BY <1>1, <3>3 DEF Worker, Tasks
      <4>2. QED
        BY <1>2, <2>1, <2>5, <3>1, <4>1 DEF OperationOK, PendingIsCarried, Idle
    <3>4. QED
      BY <3>2, <3>3
  <2>7. QED
    BY <2>2, <2>4, <2>6 DEF OperationOK
<1>7. ASSUME NEW c \in live', c[1] = p PROVE CliOK(c)'
  <2>1. CliOK(c)
    BY <1>2, <1>7 DEF LInv
  <2>2. ASSUME NEW u \in Tasks, Attends(u, p) PROVE Attends(u, p)'
    BY <1>1, <2>2, LifecycleAssumption DEF Attends, AtGate, Job, Worker, Tasks
  <2>3. QED
    BY <1>2, <1>7, <2>1, <2>2 DEF CliOK, Journal!Unresolved, Journal!Recorded, Journal!Open
<1>8. QED
  BY <1>3, <1>4, <1>5, <1>6, <1>7, Frame

LEMMA ReserveStep ==
  ASSUME LInv, NEW o \in Operations, Reserve(o)
  PROVE  LInv'
<1>1. stage[o] = Idle /\ o \in Tasks /\ Job(o) = o /\ Job(o)' = o /\ Worker(o) /\ TypesOK /\ up
  BY DEF Reserve, Job, Worker, Tasks, LInv
<1>2. guard' = [guard EXCEPT ![o] = Unbound] /\ instances' = instances /\ stage' = [stage EXCEPT ![o] = "reserved"]
      /\ UNCHANGED <<journalVars, cliVars, processVars, faults, job, result>>
  BY DEF Reserve, Gate!Reserve, GoTo
<1>3. AtGate(o, o, "reserved")
  BY <1>1, <1>2 DEF AtGate, TypesOK, WorkerStages, Idle
<1>4. stage'[o] = "reserved" /\ up'
  BY <1>1, <1>2 DEF TypesOK, processVars
<1>5. ClaimsOK'
  <2>1. \A t \in Tasks : guard'[t] \in Instances => guard'[t] = guard[t]
    BY <1>1, <1>2, LifecycleAssumption DEF TypesOK
  <2>2. \A t \in Tasks : Inside(t)' => Inside(t) /\ t # o
    BY <1>1, <1>2 DEF TypesOK, Inside, Idle
  <2>3. \A t \in Tasks : Job(t)' = Job(t)
    BY <1>2 DEF Job, Worker
  <2>4. \A t \in Tasks \ {o} : guard'[t] = guard[t]
    BY <1>1, <1>2 DEF TypesOK
  <2>5. QED
    BY <1>2, <2>1, <2>2, <2>3, <2>4 DEF LInv, ClaimsOK, journalVars, Journal!Recorded
<1>6. TaskOK(o)'
  BY <1>4 DEF TaskOK, StageOK, IntentIsRecorded, IsQuiet, MustBeQuiet, NothingOpen, Begun, Decided
<1>7. ~Pending(o)
  BY DEF Reserve, Pending, Journal!Is
<1>8. QED
  BY <1>1, <1>3, <1>5, <1>6, <1>7, GateMoves

\* A claim given back: what the others hold is another instance.
LEMMA ClaimDropped ==
  ASSUME LInv, NEW t \in Tasks, Gate!DropGuard(t), UNCHANGED operation,
         \A u \in Tasks \ {t} : stage'[u] = stage[u] /\ Job(u)' = Job(u), ~Inside(t)'
  PROVE  ClaimsOK' /\ guard' \in [Tasks -> Instances \cup {NoClaim, Unbound}]
<1>1. /\ guard' \in [Tasks -> Instances \cup {NoClaim, Unbound}]
      /\ guard'[t] = NoClaim /\ \A u \in Tasks \ {t} : guard'[u] = guard[u]
  BY DEF LInv, TypesOK, Gate!DropGuard
<1>2. \A i \in Instances : i \in instances /\ i # guard[t] => i \in instances'
  BY DEF Gate!DropGuard, Gate!GiveBack
<1>3. \A u \in Tasks \ {t} : guard[u] \in Instances => guard[u] # guard[t]
  BY DEF LInv, ClaimsOK
<1>4. \A u \in Tasks : guard'[u] \in Instances => guard'[u] \in instances'
  BY <1>1, <1>2, <1>3, LifecycleAssumption DEF LInv, ClaimsOK
<1>5. \A u, v \in Tasks : guard'[u] \in Instances /\ guard'[u] = guard'[v] => u = v
  BY <1>1, LifecycleAssumption DEF LInv, ClaimsOK
<1>6. \A u \in Tasks : Inside(u)' => u # t /\ Inside(u)
  BY DEF Inside
<1>7. QED
  BY <1>1, <1>4, <1>5, <1>6 DEF LInv, ClaimsOK, Journal!Recorded

LEMMA AcceptRefusedStep ==
  ASSUME LInv, NEW o \in Operations, AcceptRefused(o)
  PROVE  LInv'
<1>1. stage[o] = "reserved" /\ o \in Tasks /\ Job(o) = o /\ Job(o)' = o /\ Worker(o) /\ TypesOK /\ OperationOK(o)
  BY DEF AcceptRefused, Job, Worker, Tasks, LInv
<1>2. Gate!DropGuard(o) /\ stage' = [stage EXCEPT ![o] = Idle]
      /\ UNCHANGED <<journalVars, cliVars, processVars, faults, job, result>>
  BY DEF AcceptRefused, GoTo
<1>3. stage'[o] = Idle /\ \A u \in Tasks \ {o} : stage'[u] = stage[u] /\ Job(u)' = Job(u)
  BY <1>1, <1>2 DEF TypesOK, Job, Worker
<1>4. ClaimsOK' /\ guard' \in [Tasks -> Instances \cup {NoClaim, Unbound}]
  BY <1>1, <1>2, <1>3, ClaimDropped DEF Inside, journalVars, Idle
<1>5. AtGate(o, o, Idle)
  BY <1>1, <1>2, <1>4 DEF AtGate, TypesOK, WorkerStages
<1>6. TaskOK(o)'
  BY <1>3 DEF TaskOK, StageOK, IntentIsRecorded, IsQuiet, MustBeQuiet, NothingOpen, Begun, Decided, Idle
<1>7. QED
  BY <1>1, <1>4, <1>5, <1>6, GateMoves

LEMMA BeginStep ==
  ASSUME LInv, NEW o \in Operations, Begin(o)
  PROVE  LInv'
<1>1. /\ stage[o] = "accepted" /\ o \in Tasks /\ Job(o) = o /\ Job(o)' = o /\ Worker(o) /\ TypesOK /\ up
      /\ Journal!Recorded(o) /\ operation[o].status = "Accepted" /\ RowsOK(o)
      /\ operation[o].instance \in Instances
  <2>1. stage[o] = "accepted" /\ o \in Tasks /\ Job(o) = o /\ Job(o)' = o /\ Worker(o)
    BY DEF Begin, Job, Worker, Tasks
  <2>2. QED
    BY <2>1, Here DEF Idle, TaskOK, StageOK, OperationOK, Journal!OperationRows
<1> DEFINE i == operation[o].instance
<1>2. /\ guard[o] = Unbound /\ i \notin instances /\ instances' = instances \cup {i}
      /\ guard' = [guard EXCEPT ![o] = i] /\ stage' = [stage EXCEPT ![o] = "entered"]
      /\ UNCHANGED <<journalVars, cliVars, processVars, faults, job, result>>
  BY DEF Begin, Gate!RunReserved, GoTo
<1>3. AtGate(o, o, "entered")
  BY <1>1, <1>2 DEF AtGate, TypesOK, WorkerStages, Idle
<1>4. /\ guard'[o] = i /\ \A u \in Tasks \ {o} : guard'[u] = guard[u] /\ guard[u] # i
      /\ stage'[o] = "entered" /\ \A u \in Tasks : Job(u)' = Job(u) /\ (u # o => stage'[u] = stage[u])
  BY <1>1, <1>2 DEF TypesOK, LInv, ClaimsOK, Job, Worker
<1>5. ClaimsOK'
  <2>1. \A t \in Tasks : guard'[t] \in Instances => guard'[t] \in instances'
    BY <1>2, <1>4 DEF LInv, ClaimsOK
  <2>2. \A t, u \in Tasks : guard'[t] \in Instances /\ guard'[t] = guard'[u] => t = u
    BY <1>4 DEF LInv, ClaimsOK
  <2>3. \A t \in Tasks : Inside(t)' => t = o \/ Inside(t)
    BY <1>4 DEF Inside
  <2>4. UNCHANGED operation
    BY <1>2 DEF journalVars
  <2>5. QED
    BY <1>1, <1>4, <2>1, <2>2, <2>3, <2>4 DEF LInv, ClaimsOK, Journal!Recorded
<1>6. Quiet(o)
  <2>1. SUFFICES ASSUME NEW c \in live, c[1] = o PROVE FALSE
    BY DEF Quiet
  <2>2. step[o] = <<>>
    BY <1>1 DEF RowsOK
  <2>3. c[2] = 0 /\ c[2] \in Nat \ {0}
    BY <2>1, <2>2 DEF LInv, CliOK, TypesOK
  <2>4. QED
    BY <2>3
<1>7. TaskOK(o)'
  BY <1>1, <1>2, <1>4, <1>6 DEF TaskOK, StageOK, IntentIsRecorded, IsQuiet, MustBeQuiet, Quiet, NothingOpen,
     Begun, Decided, journalVars, cliVars, processVars, Journal!Recorded
<1>8. QED
  BY <1>1, <1>3, <1>5, <1>7, GateMoves DEF Idle

LEMMA EnterStep ==
  ASSUME LInv, NEW q \in Recoverers, NEW o \in Operations, Enter(q, o)
  PROVE  LInv'
<1>1. /\ stage[q] = Idle /\ q \in Tasks /\ ~Worker(q) /\ TypesOK /\ up /\ Journal!Recorded(o)
      /\ operation[o].instance \in Instances
  BY LifecycleAssumption DEF Enter, Worker, Tasks, LInv, TypesOK, Journal!Recorded, Journal!OperationRows
<1> DEFINE i == operation[o].instance
<1>2. /\ guard[q] = NoClaim /\ i \notin instances /\ instances' = instances \cup {i}
      /\ guard' = [guard EXCEPT ![q] = i] /\ stage' = [stage EXCEPT ![q] = "inspecting"]
      /\ job' = [job EXCEPT ![q] = o]
      /\ UNCHANGED <<journalVars, cliVars, processVars, faults, result>>
  BY DEF Enter, Gate!Enter, GoTo
<1>3. AtGate(q, o, "inspecting")
  BY <1>1, <1>2 DEF AtGate, TypesOK, RecoveryStages, Idle
<1>4. /\ guard'[q] = i /\ \A u \in Tasks \ {q} : guard'[u] = guard[u] /\ guard[u] # i
      /\ stage'[q] = "inspecting" /\ Job(q)' = o
      /\ \A u \in Tasks \ {q} : Job(u)' = Job(u) /\ stage'[u] = stage[u]
  BY <1>1, <1>2 DEF TypesOK, LInv, ClaimsOK, Job, Worker, Tasks
<1>5. ClaimsOK'
  <2>1. \A t \in Tasks : guard'[t] \in Instances => guard'[t] \in instances'
    BY <1>2, <1>4 DEF LInv, ClaimsOK
  <2>2. \A t, u \in Tasks : guard'[t] \in Instances /\ guard'[t] = guard'[u] => t = u
    BY <1>4 DEF LInv, ClaimsOK
  <2>3. \A t \in Tasks \ {q} : Inside(t)' => Inside(t)
    BY <1>4 DEF Inside
  <2>4. UNCHANGED operation
    BY <1>2 DEF journalVars
  <2>5. QED
    BY <1>1, <1>4, <2>1, <2>2, <2>3, <2>4 DEF LInv, ClaimsOK, Journal!Recorded
<1>6. TaskOK(q)'
  BY <1>1, <1>2, <1>4 DEF TaskOK, StageOK, IntentIsRecorded, IsQuiet, MustBeQuiet, NothingOpen,
     Begun, Decided, journalVars, processVars, Journal!Recorded, Worker
<1>7. ~Carries(q, o)
  BY <1>1 DEF Carries, Idle
<1>8. QED
  BY <1>1, <1>3, <1>4, <1>5, <1>6, <1>7, GateMoves

LEMMA LeaveStep ==
  ASSUME LInv, NEW t \in Tasks, Leave(t)
  PROVE  LInv'
<1>0. PICK p \in Operations : p = Job(t)
  BY Here DEF Leave, Idle
<1>1. /\ stage[t] \in {"leaving", "givingUp"} /\ Journal!Recorded(p) /\ TypesOK /\ TaskOK(t) /\ up
      /\ ~Worker(t) => t \in Recoverers /\ stage[t] = "leaving"
  BY <1>0, Here DEF Leave, Idle, RecoveryStages
<1> DEFINE s == IF stage[t] = "givingUp" THEN "fallback" ELSE IF Worker(t) THEN "done" ELSE Idle
<1>2. /\ stage' = [stage EXCEPT ![t] = s] /\ Gate!DropGuard(t)
      /\ job' = [q \in Recoverers |-> IF q = t THEN NoOperation ELSE job[q]]
      /\ result' = [result EXCEPT ![t] = "none"]
      /\ UNCHANGED <<journalVars, cliVars, processVars, faults>>
  BY DEF Leave, GoTo
<1>3. /\ job' \in [Recoverers -> Operations \cup {NoOperation}]
      /\ \A q \in Recoverers \ {t} : job'[q] = job[q]
      /\ result' \in [Tasks -> {"none", "succeeded", "failed", "unknown"}]
      /\ \A u \in Tasks \ {t} : result'[u] = result[u]
      /\ stage'[t] = s /\ \A u \in Tasks \ {t} : stage'[u] = stage[u]
  BY <1>1, <1>2 DEF TypesOK
<1>4. \A u \in Tasks \ {t} : Job(u)' = Job(u)
  BY <1>3 DEF Job, Worker, Tasks
<1>5. Worker(t) => Job(t)' = p /\ p = t
  BY <1>0 DEF Job, Worker
<1>6. ~Worker(t) => Job(t)' = NoOperation
  BY <1>1, <1>2 DEF Job, Worker
<1>7. ClaimsOK' /\ guard' \in [Tasks -> Instances \cup {NoClaim, Unbound}]
  BY <1>2, <1>3, <1>4, ClaimDropped DEF Inside, journalVars, Idle
<1>8. AtGate(t, p, s)
  BY <1>0, <1>1, <1>2, <1>3, <1>7 DEF AtGate, WorkerStages, RecoveryStages, Idle
<1>9. TaskOK(t)'
  <2>1. CASE Worker(t)
    BY <1>1, <1>2, <1>3, <1>5, <2>1 DEF TaskOK, StageOK, IntentIsRecorded, IsQuiet, MustBeQuiet, NothingOpen,
       Begun, Decided, journalVars, processVars, Journal!Recorded, Idle
  <2>2. CASE ~Worker(t)
    BY <1>1, <1>3, <2>2 DEF TaskOK, StageOK, IntentIsRecorded, IsQuiet, MustBeQuiet, NothingOpen, Begun, Decided, Idle
  <2>3. QED
    BY <2>1, <2>2
<1>10. ~Worker(t) => ~Carries(t, p)
  BY <1>1 DEF Carries
<1>11. Worker(t) => s \notin {Idle, "reserved", "done"} \/ ~Pending(p)
  BY <1>0, <1>1 DEF TaskOK, StageOK, Pending, Journal!Is, Idle
<1>12. QED
  BY <1>5, <1>6, <1>7, <1>8, <1>9, <1>10, <1>11, GateMoves

-------------------------------------------------------------------------------
(* Acceptance, and the end and start of the application *)

LEMMA AcceptStep ==
  ASSUME LInv, NEW o \in Operations, Accept(o)
  PROVE  LInv'
<1>1. /\ stage[o] = "reserved" /\ o \in Tasks /\ Job(o) = o /\ Job(o)' = o /\ Worker(o) /\ TypesOK
      /\ OperationOK(o) /\ TaskOK(o)
  BY DEF Accept, Job, Worker, Tasks, LInv
<1>2. up
  BY <1>1 DEF TaskOK, StageOK, Idle
<1>3. PICK r \in Requests, i \in Instances, kind \in LifecycleKinds : Journal!Accept(r, o, i, kind, revision[i])
  BY DEF Accept
<1> DEFINE row == [instance |-> i, kind |-> kind, status |-> "Accepted", attempt |-> 1, expected |-> revision[i]]
<1>4. /\ operation' = [operation EXCEPT ![o] = row] /\ ~Journal!Recorded(o) /\ ~Journal!Busy(i)
      /\ lifecycle' = [lifecycle EXCEPT ![i] = IF kind = "delete" THEN "retiring" ELSE lifecycle[i]]
      /\ revision' = [revision EXCEPT ![i] = IF kind = "delete" THEN revision[i] + 1 ELSE revision[i]]
      /\ step' = step
  BY <1>3 DEF Journal!Accept, Journal!NewOperation
<1>5. lifecycle' = lifecycle /\ revision' = revision
  BY <1>1, <1>4 DEF TypesOK, LifecycleKinds
<1>6. row \in Journal!OperationRows /\ row.instance = i /\ row.status = "Accepted" /\ row.attempt = 1
  <2>1. kind \in Journal!Kinds /\ "Accepted" \in Journal!Statuses /\ revision[i] \in Nat
    BY <1>1, LifecycleAssumption DEF Journal!Kinds, Journal!Statuses, TypesOK
  <2>2. QED
    BY <2>1 DEF Journal!OperationRows
<1> HIDE DEF row
<1>7. /\ operation' \in [Operations -> Journal!OperationRows \cup {NoOperation}]
      /\ operation'[o] = row /\ \A p \in Operations \ {o} : operation'[p] = operation[p]
  BY <1>1, <1>4, <1>6 DEF TypesOK
<1>8. /\ UNCHANGED <<guard, instances, job, result, live, blocked, up, inherited, faults>>
      /\ stage' = [stage EXCEPT ![o] = "accepted"]
  BY DEF Accept, GoTo, gateVars, cliVars, processVars
<1>9. /\ stage' \in [Tasks -> WorkerStages \cup RecoveryStages]
      /\ \A p \in Operations : stage'[p] \in WorkerStages
      /\ \A q \in Recoverers : stage'[q] \in RecoveryStages
      /\ stage'[o] = "accepted" /\ \A u \in Tasks \ {o} : stage'[u] = stage[u]
  BY <1>1, <1>8, LifecycleAssumption DEF TypesOK, WorkerStages, Tasks
<1>10. TypesOK'
  BY <1>1, <1>4, <1>5, <1>7, <1>8, <1>9 DEF TypesOK
<1>11. Journal!Recorded(o)' /\ operation'[o].status = "Accepted" /\ operation'[o].instance = i
       /\ operation'[o].attempt = 1
  BY <1>6, <1>7, LifecycleAssumption DEF Journal!Recorded
<1>12. Journal!OneUnresolvedOperation'
  <2>1. \A p \in Operations \ {o} : Journal!Unresolved(p)' <=> Journal!Unresolved(p)
    BY <1>7 DEF Journal!Unresolved, Journal!Recorded
  <2>2. \A p \in Operations \ {o} : Journal!Unresolved(p) => operation[p].instance # i
    BY <1>4 DEF Journal!Busy
  <2>3. QED
    BY <1>7, <1>11, <2>1, <2>2 DEF LInv, Journal!OneUnresolvedOperation
<1>13. \A u \in Tasks : Job(u)' = Job(u)
  BY <1>8 DEF Job, Worker
<1>14. ClaimsOK'
  <2>1. \A u \in Tasks : Inside(u)' => u # o /\ Inside(u)
    BY <1>9 DEF Inside
  <2>2. \A u \in Tasks : Inside(u) => Job(u) \in Operations \ {o}
    BY <1>4 DEF LInv, ClaimsOK
  <2>3. \A u \in Tasks : Inside(u) =>
          Journal!Recorded(Job(u))' /\ operation'[Job(u)].instance = operation[Job(u)].instance
    BY <1>7, <1>13, <2>2 DEF LInv, ClaimsOK, Journal!Recorded
  <2>4. QED
    BY <1>8, <1>13, <2>1, <2>2, <2>3 DEF LInv, ClaimsOK
<1>15. OthersKept(o, o) /\ Touches(o, o)
  BY <1>1, <1>4, <1>7, <1>8, <1>9 DEF OthersKept, Touches
<1>16. TaskOK(o)'
  BY <1>1, <1>2, <1>8, <1>9, <1>11 DEF TaskOK, StageOK, IntentIsRecorded, IsQuiet, MustBeQuiet, NothingOpen, Begun,
     Decided, Idle
<1>17. step[o] = <<>>
  BY <1>1, <1>4 DEF OperationOK, RowsOK
<1>18. OperationOK(o)'
  <2>1. RowsOK(o)'
    BY <1>4, <1>11, <1>17, LifecycleAssumption DEF RowsOK
  <2>2. OpenIsAtHand(o)'
    BY <1>4, <1>17 DEF OpenIsAtHand, Journal!HasStep
  <2>3. PendingIsCarried(o)'
    BY <1>9 DEF PendingIsCarried, Idle
  <2>4. QED
    BY <2>1, <2>2, <2>3 DEF OperationOK
<1>19. ASSUME NEW c \in live', c[1] = o PROVE CliOK(c)'
  BY <1>4, <1>8, <1>19 DEF LInv, CliOK, Journal!Unresolved
<1>20. QED
  BY <1>1, <1>10, <1>12, <1>14, <1>15, <1>16, <1>18, <1>19, Frame

LEMMA ExitStep ==
  ASSUME LInv, Exit
  PROVE  LInv'
<1>1. /\ UNCHANGED <<lifecycle, revision, operation, step, live, inherited, faults>> /\ up' = FALSE
      /\ blocked' = FALSE
      /\ guard' = [t \in Tasks |-> NoClaim]
      /\ stage' = [t \in Tasks |-> IF Worker(t) /\ Journal!Recorded(t) THEN "done" ELSE Idle]
      /\ job' = [q \in Recoverers |-> NoOperation]
      /\ result' = [t \in Tasks |-> "none"]
  BY DEF Exit, journalVars
<1>2. \A t \in Tasks : stage'[t] \in {Idle, "done"} /\ (stage'[t] = "done" => Worker(t) /\ Journal!Recorded(t))
      /\ guard'[t] \notin Instances
  <2>1. \A t \in Tasks : guard'[t] \notin Instances
    BY <1>1, LifecycleAssumption
  <2>2. ASSUME NEW t \in Tasks
        PROVE  stage'[t] \in {Idle, "done"} /\ (stage'[t] = "done" => Worker(t) /\ Journal!Recorded(t))
    BY <1>1 DEF Worker, Idle
  <2>3. QED
    BY <2>1, <2>2
<1>3. TypesOK'
  <2>1. /\ stage' \in [Tasks -> WorkerStages \cup RecoveryStages]
        /\ \A o \in Operations : stage'[o] \in WorkerStages
    BY <1>1 DEF Tasks, WorkerStages
  <2>2. \A q \in Recoverers : stage'[q] \in RecoveryStages
    BY <1>1, LifecycleAssumption DEF Tasks, RecoveryStages, Worker
  <2>3. /\ guard' \in [Tasks -> Instances \cup {NoClaim, Unbound}]
        /\ job' \in [Recoverers -> Operations \cup {NoOperation}]
        /\ result' \in [Tasks -> {"none", "succeeded", "failed", "unknown"}]
    BY <1>1
  <2>4. QED
    BY <1>1, <2>1, <2>2, <2>3 DEF LInv, TypesOK
<1>4. Journal!OneUnresolvedOperation'
  BY <1>1 DEF LInv, Journal!OneUnresolvedOperation, Journal!Unresolved, Journal!Recorded
<1>5. ClaimsOK'
  BY <1>2 DEF ClaimsOK, Inside, Idle
<1>6. ASSUME NEW t \in Tasks PROVE TaskOK(t)'
  <2>1. stage'[t] = "done" => Job(t)' = t /\ t \in Operations /\ Journal!Recorded(t)'
    BY <1>1, <1>2 DEF Job, Worker, Journal!Recorded
  <2>2. QED
    BY <1>2, <2>1 DEF TaskOK, StageOK, IntentIsRecorded, IsQuiet, MustBeQuiet, NothingOpen, Begun, Decided, Idle
<1>7. ASSUME NEW o \in Operations PROVE OperationOK(o)'
  <2>1. RowsOK(o)
    BY DEF LInv, OperationOK
  <2>2. QED
    BY <1>1, <2>1 DEF OperationOK, RowsOK, OpenIsAtHand, PendingIsCarried, Journal!Recorded, Journal!Open
<1>8. ASSUME NEW c \in live' PROVE CliOK(c)'
  BY <1>1, <1>8 DEF LInv, CliOK, Journal!Unresolved, Journal!Recorded, Journal!Open
<1>9. QED
  BY <1>3, <1>4, <1>5, <1>6, <1>7, <1>8 DEF LInv

LEMMA RestartStep ==
  ASSUME LInv, Restart
  PROVE  LInv'
<1>1. /\ UNCHANGED <<lifecycle, revision, step, guard, instances, stage, job, result, live, blocked, faults>>
      /\ ~up /\ up' = TRUE
      /\ inherited' = {o \in Operations : Journal!Unresolved(o)}
      /\ operation' = [o \in Operations |->
           IF Journal!Is(o, {"Executing"}) THEN [operation[o] EXCEPT !.status = "OutcomeUnknown"] ELSE operation[o]]
  BY DEF Restart, Journal!RecoverOnStartup, Journal!instanceVars, gateVars, taskVars, cliVars
<1>2. ASSUME NEW o \in Operations
      PROVE  /\ operation'[o] \in Journal!OperationRows \cup {NoOperation}
             /\ Journal!Recorded(o)' <=> Journal!Recorded(o)
             /\ Journal!Recorded(o) =>
                  /\ operation'[o].instance = operation[o].instance
                  /\ operation'[o].attempt = operation[o].attempt
                  /\ operation'[o].status # "Executing"
                  /\ operation'[o].status = "Accepted" <=> operation[o].status = "Accepted"
                  /\ operation'[o].status \in Journal!Closed <=> operation[o].status \in Journal!Closed
  <2>1. CASE Journal!Is(o, {"Executing"})
    <3>1. operation[o] \in Journal!OperationRows /\ Journal!Recorded(o) /\ operation[o].status = "Executing"
      BY <2>1 DEF LInv, TypesOK, Journal!Is, Journal!Recorded
    <3>2. operation'[o] = [operation[o] EXCEPT !.status = "OutcomeUnknown"]
      BY <1>1, <2>1
    <3>3. operation'[o] \in Journal!OperationRows /\ operation'[o].status = "OutcomeUnknown"
          /\ operation'[o].instance = operation[o].instance /\ operation'[o].attempt = operation[o].attempt
      BY <3>1, <3>2 DEF Journal!OperationRows, Journal!Statuses, Journal!Paused
    <3>4. QED
      BY <3>1, <3>3, LifecycleAssumption DEF Journal!Recorded, Journal!Closed
  <2>2. CASE ~Journal!Is(o, {"Executing"})
    <3>1. operation'[o] = operation[o]
      BY <1>1, <2>2
    <3>2. QED
      BY <2>2, <3>1 DEF LInv, TypesOK, Journal!Is, Journal!Recorded
  <2>3. QED
    BY <2>1, <2>2
<1>3. \A o \in Operations : Journal!Unresolved(o)' <=> Journal!Unresolved(o)
  BY <1>2 DEF Journal!Unresolved, Journal!Closed
<1>4. TypesOK'
  <2>1. operation' \in [Operations -> Journal!OperationRows \cup {NoOperation}]
    BY <1>1, <1>2
  <2>2. QED
    BY <1>1, <2>1 DEF LInv, TypesOK
<1>5. Journal!OneUnresolvedOperation'
  BY <1>2, <1>3, OwnersKept DEF Journal!Unresolved
<1>6. \A t \in Tasks : stage[t] \in {Idle, "done"} /\ Job(t)' = Job(t)
  BY <1>1 DEF LInv, TaskOK, StageOK, Job, Worker
<1>7. ClaimsOK'
  BY <1>1, <1>6 DEF LInv, ClaimsOK, Inside, Idle
<1>8. ASSUME NEW t \in Tasks PROVE TaskOK(t)'
  <2>1. TaskOK(t)
    BY DEF LInv
  <2>2. QED
    BY <1>1, <1>2, <1>6, <2>1 DEF TaskOK, StageOK, IntentIsRecorded, IsQuiet, MustBeQuiet, NothingOpen, Begun, Decided, Idle
<1>9. ASSUME NEW o \in Operations PROVE OperationOK(o)'
  <2>1. RowsOK(o)
    BY DEF LInv, OperationOK
  <2>2. RowsOK(o)'
    BY <1>1, <1>2, <2>1 DEF RowsOK, Journal!Open
  <2>3. Journal!Unresolved(o)' => o \in inherited'
    BY <1>1, <1>3
  <2>4. ~Pending(o)'
    BY <1>2, <2>3 DEF Pending, Journal!Is, Journal!Unresolved, Journal!Closed
  <2>5. QED
    BY <2>2, <2>3, <2>4 DEF OperationOK, OpenIsAtHand, PendingIsCarried
<1>10. ASSUME NEW c \in live' PROVE CliOK(c)'
  <2>1. CliOK(c) /\ c[1] \in Operations
    BY <1>1, <1>10 DEF LInv, TypesOK
  <2>2. QED
    BY <1>1, <1>3, <2>1 DEF CliOK, Journal!Open
<1>11. QED
  BY <1>4, <1>5, <1>7, <1>8, <1>9, <1>10 DEF LInv

-------------------------------------------------------------------------------
(* The theorems *)

LEMMA Inductive == LInv /\ [Next]_vars => LInv'
<1> SUFFICES ASSUME LInv, [Next]_vars PROVE LInv'
  OBVIOUS
<1>1. ASSUME NEW o \in Operations, Reserve(o) \/ WorkerStep(o) PROVE LInv'
  BY <1>1, ReserveStep, AcceptStep, AcceptRefusedStep, BeginStep, BeginRefusedStep, MarkExecutingStep,
     RecordCommandStep, RefuseStep, AlreadyStoppedStep, VerifyStep, FallbackStep DEF WorkerStep
<1>2. ASSUME NEW t \in Tasks, CommandStep(t) \/ StoreFails(t) PROVE LInv'
  BY <1>2, CliStep, NotLaunchedStep, FinishStepStep, FailStep, CompleteStep, LeaveStep, StoreFailsStep
     DEF CommandStep
<1>3. ASSUME NEW q \in Recoverers, RecoveryStep(q) PROVE LInv'
  BY <1>3, InspectStep, ResumeStep, RetryStep, RecordRetryStep, AbandonStep DEF RecoveryStep
<1>4. ASSUME NEW q \in Recoverers, NEW o \in Operations, Enter(q, o) PROVE LInv'
  BY <1>4, EnterStep
<1>5. CASE Exit \/ Restart \/ OrphanEnds \/ UNCHANGED vars
  BY <1>5, ExitStep, RestartStep, Unmoved
<1>6. QED
  BY <1>1, <1>2, <1>3, <1>4, <1>5 DEF Next

\* Whatever requests, recovery commands, lost CLIs, failed journal calls, deaths
\* and restarts come together: each task holds of the gate and finds in the
\* journal what it relies on, and every CLI that may be alive is answered for.
THEOREM Invariance == Spec => []LInv
  BY Initially, Inductive, PTL DEF Spec

\* No change CLI is forgotten: while it may be alive its operation is unresolved
\* and its last step has no conclusive outcome.
THEOREM LiveOwned == Spec => []LiveCliIsOwned
<1>1. LInv => LiveCliIsOwned
  BY DEF LInv, CliOK, LiveCliIsOwned
<1>2. QED
  BY <1>1, Invariance, PTL

\* Two change CLIs of an instance are never alive together, and no two tasks
\* work on it, through retries, new operations and restarts of the application.
THEOREM OneChange == Spec => []OneChangeAtATime
<1>1. LInv => OneChangeCli
  <2>1. SUFFICES ASSUME LInv, NEW c \in live, NEW d \in live,
                        operation[c[1]].instance = operation[d[1]].instance
                 PROVE  c = d
    BY DEF OneChangeCli
  <2>2. CliOK(c) /\ CliOK(d) /\ c[1] \in Operations /\ d[1] \in Operations
        /\ c = <<c[1], c[2]>> /\ d = <<d[1], d[2]>>
    BY <2>1 DEF LInv, TypesOK
  <2>3. c[1] = d[1]
    BY <2>1, <2>2 DEF CliOK, LInv, Journal!OneUnresolvedOperation
  <2>4. c[2] = d[2]
    BY <2>2, <2>3 DEF CliOK
  <2>5. QED
    BY <2>2, <2>3, <2>4
<1>2. LInv => OneTaskPerInstance
  BY OneInside DEF OneTaskPerInstance
<1>3. QED
  BY <1>1, <1>2, Invariance, PTL DEF OneChangeAtATime

\* While the database answers, a begun operation always has a task at work on
\* it, whoever took it over from whom.
THEOREM NobodyForgotten == Spec => []NobodyIsForgotten
<1>1. LInv => NobodyIsForgotten
  <2>1. SUFFICES ASSUME LInv, up, faults = 0, NEW o \in Operations, Pending(o) PROVE Working(o)
    BY DEF NobodyIsForgotten, Pending
  <2>2. stage[o] \notin {Idle, "reserved", "done"} \/ \E q \in Recoverers : Carries(q, o)
    BY <2>1 DEF LInv, OperationOK, PendingIsCarried
  <2>3. QED
    BY <2>2 DEF Working, Carries, Idle
<1>2. QED
  BY <1>1, Invariance, PTL

-------------------------------------------------------------------------------
(* The lifecycle's steps are the journal's *)

LEMMA StatusIsLegal ==
  ASSUME NEW o \in Operations, NEW x \in Journal!Paused \cup {"Executing"}, Journal!SetStatus(o, x)
  PROVE  Journal!Next
BY DEF Journal!Next, Journal!ExecuteSome

LEMMA StepIsLegal ==
  ASSUME LInv, NEW o \in Operations, NEW n \in 1..MaxSteps,
         \/ \E a \in 1..MaxAttempt : Journal!RecordStep(o, n, a)
         \/ \E x \in Journal!Outcomes : Journal!FinishStep(o, n, x)
  PROVE  Journal!Next
BY DEF Journal!Next, Journal!ExecuteSome

LEMMA WorkerFollows ==
  ASSUME LInv, NEW o \in Operations, Reserve(o) \/ WorkerStep(o)
  PROVE  Journal!Next \/ UNCHANGED journalVars
<1>1. o \in Tasks /\ Worker(o) /\ Job(o) = o
  BY DEF Tasks, Worker, Job
<1>2. CASE Reserve(o) \/ AcceptRefused(o) \/ Begin(o) \/ BeginRefused(o) \/ AlreadyStopped(o)
  BY <1>2 DEF Reserve, AcceptRefused, Begin, BeginRefused, AlreadyStopped
<1>3. CASE Accept(o)
  <2>1. PICK r \in Requests, i \in Instances, kind \in LifecycleKinds : Journal!Accept(r, o, i, kind, revision[i])
    BY <1>3 DEF Accept
  <2>2. kind \in ChangeKinds /\ revision[i] \in 1..MaxRevision
    BY <2>1, LifecycleAssumption DEF LInv, TypesOK, Journal!Accept
  <2>3. Journal!AcceptSome(r, o, i)
    BY <2>1, <2>2 DEF Journal!AcceptSome
  <2>4. QED
    BY <2>1, <2>3 DEF Journal!Next
<1>4. CASE MarkExecuting(o) \/ Refuse(o) \/ Verify(o)
  BY <1>4, StatusIsLegal DEF MarkExecuting, Refuse, Verify, Journal!Paused
<1>5. CASE RecordCommand(o)
  <2>1. Journal!RecordStep(o, Len(step[o]) + 1, 1)
    BY <1>5 DEF RecordCommand
  <2>2. Len(step[o]) + 1 \in 1..MaxSteps /\ 1 \in 1..MaxAttempt
    <3>1. Len(step[o]) \in Nat
      BY DEF LInv, TypesOK
    <3>2. QED
      BY <2>1, <3>1, LifecycleAssumption DEF Journal!RecordStep
  <2>3. QED
    BY <2>1, <2>2, StepIsLegal
<1>6. CASE Fallback(o)
  <2>1. CASE Journal!Is(o, {"Accepted", "Executing"})
    <3>1. Journal!SetStatus(o, "OutcomeUnknown")
      BY <1>6, <2>1 DEF Fallback, Journal!SetStatus, Journal!Is, Journal!Unresolved, Journal!Closed, Journal!instanceVars
    <3>2. QED
      BY <3>1, StatusIsLegal DEF Journal!Paused
  <2>2. CASE ~Journal!Is(o, {"Accepted", "Executing"})
    BY <1>6, <2>2 DEF Fallback, journalVars
  <2>3. QED
    BY <2>1, <2>2
<1>7. QED
  BY <1>2, <1>3, <1>4, <1>5, <1>6 DEF WorkerStep

LEMMA CommandFollows ==
  ASSUME LInv, NEW t \in Tasks, CommandStep(t), faults' = 0
  PROVE  Journal!Next \/ UNCHANGED journalVars
<1>1. CASE Launch(t) \/ NotLaunched(t) \/ CliReturns(t) \/ CliLost(t) \/ Leave(t)
  BY <1>1 DEF Launch, NotLaunched, CliReturns, CliLost, Leave
<1>2. CASE FinishStep(t)
  <2>1. stage[t] = "returned" /\ Job(t) \in Operations /\ RowsOK(Job(t)) /\ result[t] \in Journal!Outcomes
    BY <1>2, Here DEF FinishStep, Idle, OperationOK, TaskOK, StageOK, TypesOK, Journal!Outcomes
  <2>2. Journal!FinishStep(Job(t), Len(step[Job(t)]), Outcome(t)) /\ Outcome(t) \in Journal!Outcomes
    BY <1>2, <2>1 DEF FinishStep, Outcome, Journal!Outcomes
  <2>3. Len(step[Job(t)]) \in 1..MaxSteps
    BY <2>1, <2>2, LifecycleAssumption DEF LInv, TypesOK, RowsOK, Journal!FinishStep
  <2>4. QED
    BY <2>1, <2>2, <2>3, StepIsLegal
<1>3. CASE Fail(t)
  BY <1>3, Here, StatusIsLegal DEF Fail, Idle, Journal!Paused
<1>4. CASE Complete(t)
  <2>1. /\ stage[t] = "completing" /\ Job(t) \in Operations /\ faults = 0
        /\ operation[Job(t)] \in Journal!OperationRows /\ ~Journal!HasStep(Job(t), {Journal!Open})
    BY <1>4, Here DEF Complete, Idle, TaskOK, NothingOpen, Decided
  <2>2. CASE Journal!Is(Job(t), {"Executing"}) /\ lifecycle[operation[Job(t)].instance] = "managed"
    <3>1. Journal!SetStatus(Job(t), "Succeeded") /\ Journal!Recorded(Job(t))
      BY <1>4, <2>1, <2>2 DEF Complete, Journal!SetStatus, Journal!Is, Journal!Unresolved, Journal!Closed,
         Journal!instanceVars
    <3>2. operation[Job(t)].kind # "delete"
      BY <2>1, LifecycleAssumption DEF Journal!OperationRows, Journal!Kinds, Journal!CreationKinds, LifecycleKinds
    <3>3. QED
      BY <2>1, <3>1, <3>2 DEF Journal!Next, Journal!ExecuteSome
  <2>3. CASE ~(Journal!Is(Job(t), {"Executing"}) /\ lifecycle[operation[Job(t)].instance] = "managed")
    BY <1>4, <2>3 DEF Complete, journalVars
  <2>4. QED
    BY <2>2, <2>3
<1>5. QED
  BY <1>1, <1>2, <1>3, <1>4 DEF CommandStep

LEMMA RecoveryFollows ==
  ASSUME LInv, NEW q \in Recoverers, RecoveryStep(q)
  PROVE  Journal!Next \/ UNCHANGED journalVars
<1>0. /\ q \in Tasks /\ Job(q) = job[q] /\ job[q] \in Operations /\ RowsOK(job[q])
      /\ Journal!Recorded(job[q]) /\ operation[job[q]].attempt \in 1..MaxAttempt
  <2>1. q \in Tasks /\ Job(q) = job[q] /\ stage[q] \notin {Idle, "reserved", "done"}
    BY LifecycleAssumption DEF RecoveryStep, Inspect, Resume, Retry, RecordRetry, Abandon, Idle, Tasks, Job, Worker
  <2>2. QED
    BY <2>1, Here DEF OperationOK, RowsOK
<1>1. CASE Inspect(q)
  BY <1>1 DEF Inspect
<1>2. CASE Resume(q)
  BY <1>0, <1>2, StatusIsLegal DEF Resume
<1>3. CASE Retry(q)
  BY <1>0, <1>3 DEF Retry, Journal!Next, Journal!RecoverSome
<1>4. CASE RecordRetry(q)
  <2>1. CASE Journal!Is(job[q], {"Accepted", "Executing"})
    <3>1. Journal!RecordStep(job[q], Len(step[job[q]]) + 1, operation[job[q]].attempt)
      BY <1>4, <2>1 DEF RecordRetry
    <3>2. Len(step[job[q]]) \in Nat
      BY <1>0 DEF LInv, TypesOK
    <3>3. Len(step[job[q]]) + 1 \in 1..MaxSteps
      BY <3>1, <3>2, LifecycleAssumption DEF Journal!RecordStep
    <3>4. QED
      BY <1>0, <3>1, <3>3, StepIsLegal
  <2>2. CASE ~Journal!Is(job[q], {"Accepted", "Executing"})
    BY <1>4, <2>2 DEF RecordRetry
  <2>3. QED
    BY <2>1, <2>2
<1>5. CASE Abandon(q)
  BY <1>0, <1>5 DEF Abandon, Journal!Next, Journal!RecoverSome
<1>6. QED
  BY <1>1, <1>2, <1>3, <1>4, <1>5 DEF RecoveryStep

\* Every write of the workers, of recovery and of their completions is a legal
\* step of the journal as long as no journal call has failed: in particular
\* nothing succeeds with an effect in doubt.
THEOREM JournalFollowed == Spec => FollowsJournal
<1>1. ASSUME LInv, [Next]_vars PROVE [faults' = 0 => Journal!Next]_journalVars
  <2>1. SUFFICES ASSUME faults' = 0 PROVE Journal!Next \/ UNCHANGED journalVars
    OBVIOUS
  <2>2. ASSUME NEW t \in Tasks, StoreFails(t) PROVE UNCHANGED journalVars
    BY <2>2 DEF StoreFails
  <2>3. ASSUME NEW q \in Recoverers, NEW o \in Operations, Enter(q, o) PROVE UNCHANGED journalVars
    BY <2>3 DEF Enter
  <2>4. CASE Exit \/ OrphanEnds \/ UNCHANGED vars
    BY <2>4 DEF Exit, OrphanEnds, vars
  <2>5. CASE Restart
    BY <2>5 DEF Restart, Journal!Next
  <2>6. QED
    BY <1>1, <2>1, <2>2, <2>3, <2>4, <2>5, WorkerFollows, CommandFollows, RecoveryFollows DEF Next
<1>2. QED
  BY <1>1, Invariance, PTL DEF Spec, FollowsJournal

-------------------------------------------------------------------------------
(* The lifecycle's steps are those of InstanceChanges, by the lemmas of the    *)
(* journal on the three kinds of step there are: nothing changes hands, a new  *)
(* operation takes an instance, one gives it up.                               *)

Tables == INSTANCE OperationJournalProofs

\* The words of the journal mean the same in the proofs about it.
LEMMA SameWords ==
  /\ Tables!OneUnresolvedOperation <=> Journal!OneUnresolvedOperation
  /\ Tables!Changes!Next <=> Journal!Changes!Next
  /\ UNCHANGED Tables!Changes!changesVars <=> UNCHANGED Journal!Changes!changesVars
BY DEF Tables!OneUnresolvedOperation, Journal!OneUnresolvedOperation, Tables!Unresolved, Journal!Unresolved,
  Tables!Recorded, Journal!Recorded, Tables!Is, Journal!Is, Tables!Closed, Journal!Closed,
  Tables!Busy, Journal!Busy, Tables!Owner, Journal!Owner,
  Tables!Changes!Next, Journal!Changes!Next, Tables!Changes!Register, Journal!Changes!Register,
  Tables!Changes!Take, Journal!Changes!Take, Tables!Changes!GiveUp, Journal!Changes!GiveUp,
  Tables!Changes!Fresh, Journal!Changes!Fresh, Tables!Changes!changesVars, Journal!Changes!changesVars

\* The facts on owners that the steps of the abstract specification need.
OwnersOK == Tables!OneUnresolvedOperation /\ Tables!OwnersKnown
\* What a step makes of the owners.
Moved == Journal!Changes!Next \/ UNCHANGED Journal!Changes!changesVars

\* What the journal assumes of its constants, here.
LEMMA JournalAssumptions ==
  /\ ChangeKinds \subseteq {"start", "stop", "restart", "edit_port", "recover", "delete"}
  /\ MaxRevision \in Nat
  /\ MaxAttempt \in Nat
  /\ MaxSteps \in Nat
  /\ NoPlan \notin Plans
  /\ NoSource \notin Instances
  /\ NoOperation \notin Operations
  /\ NoOperation \notin
       [instance : Instances, kind : Tables!Kinds, status : Tables!Statuses, attempt : Nat, expected : Nat]
  /\ NoReceipt \notin
       [operation : Operations, instance : Instances, plan : Plans \cup {NoPlan}]
BY LifecycleAssumption DEF LifecycleKinds, Journal!OperationRows, Journal!ReceiptRows, Tables!Kinds, Journal!Kinds,
  Tables!CreationKinds, Journal!CreationKinds, Tables!Statuses, Journal!Statuses, Tables!Closed, Journal!Closed,
  Tables!Paused, Journal!Paused

\* The facts on owners hold wherever the invariant does.
LEMMA OwnersFollow == LInv => OwnersOK
  BY SameWords, JournalAssumptions, Tables!OneOwner DEF LInv, OwnersOK

\* A step that leaves what is unresolved moves no instance.
LEMMA HandsKept ==
  ASSUME LInv, OwnersOK, OwnersOK', lifecycle' = lifecycle,
         \A o \in Operations :
           /\ Journal!Unresolved(o)' <=> Journal!Unresolved(o)
           /\ Journal!Unresolved(o) => operation'[o].instance = operation[o].instance
           /\ Journal!Recorded(o)' <=> Journal!Recorded(o)
  PROVE  Moved
<1>1. \A o \in Operations :
        /\ Tables!Unresolved(o)' <=> Tables!Unresolved(o)
        /\ Tables!Unresolved(o) => operation'[o].instance = operation[o].instance
        /\ Tables!Is(o, Tables!Closed)' <=> Tables!Is(o, Tables!Closed)
  BY DEF Tables!Unresolved, Journal!Unresolved, Tables!Recorded, Journal!Recorded, Tables!Is, Tables!Closed,
     Journal!Closed
<1>2. UNCHANGED Tables!Changes!changesVars
  BY <1>1, JournalAssumptions, Tables!NothingChangesHands DEF OwnersOK
<1>3. QED
  BY <1>2, SameWords DEF Moved

\* A status that becomes closed gives the instance up, any other keeps it.
LEMMA StatusMovesHands ==
  ASSUME LInv, OwnersOK, OwnersOK', NEW o \in Operations, NEW x \in Journal!Statuses,
         Journal!Unresolved(o), StatusBecomes(o, x), lifecycle' = lifecycle
  PROVE  Moved
<1>1. /\ Journal!Recorded(o) /\ operation[o] \in Journal!OperationRows /\ TypesOK
      /\ operation[o].instance \in Instances
  BY DEF LInv, TypesOK, Journal!Unresolved, Journal!Recorded, Journal!OperationRows
<1>2. /\ \A p \in Operations \ {o} : operation'[p] = operation[p]
      /\ Journal!Recorded(o)' /\ operation'[o].status = x
      /\ operation'[o].instance = operation[o].instance
  BY <1>1, StatusWritten
<1>3. CASE x \notin Journal!Closed
  <2>1. \A p \in Operations :
          /\ Journal!Unresolved(p)' <=> Journal!Unresolved(p)
          /\ Journal!Unresolved(p) => operation'[p].instance = operation[p].instance
          /\ Journal!Recorded(p)' <=> Journal!Recorded(p)
    BY <1>1, <1>2, <1>3 DEF Journal!Unresolved, Journal!Recorded
  <2>2. QED
    BY <2>1, HandsKept
<1>4. CASE x \in Journal!Closed
  <2>1. Tables!Unresolved(o) /\ Tables!Is(o, Tables!Closed)'
    BY <1>2, <1>4 DEF Tables!Unresolved, Journal!Unresolved, Tables!Recorded, Journal!Recorded, Tables!Is,
       Tables!Closed, Journal!Closed
  <2>2. /\ lifecycle[operation[o].instance] = "managed"
        /\ lifecycle' = [lifecycle EXCEPT ![operation[o].instance] = "managed"]
    BY <1>1 DEF TypesOK
  <2>3. Tables!Changes!Next
    BY <1>1, <1>2, <2>1, <2>2, JournalAssumptions, Tables!InstanceGivenUp DEF OwnersOK
  <2>4. QED
    BY <2>3, SameWords DEF Moved
<1>5. QED
  BY <1>3, <1>4

\* The same of the journal's calls that set a status.
LEMMA SetMovesHands ==
  ASSUME LInv, OwnersOK, OwnersOK', NEW o \in Operations, NEW x \in Journal!Statuses,
         Journal!SetStatus(o, x) \/ \E a : x = "Abandoned" /\ Journal!Abandon(o, a)
  PROVE  Moved
BY StatusMovesHands DEF StatusBecomes, Journal!SetStatus, Journal!Abandon, Journal!WriteStatus, Journal!instanceVars,
  Journal!Is, Journal!Unresolved, Journal!Paused, Journal!Closed

\* A step that writes neither table moves nothing.
LEMMA RowsMoveNothing ==
  ASSUME LInv, OwnersOK, OwnersOK', UNCHANGED <<lifecycle, operation>>
  PROVE  Moved
BY HandsKept DEF Journal!Unresolved, Journal!Recorded

\* The worker takes the instance with Accept and gives it up with a last status.
LEMMA WorkerMovesHands ==
  ASSUME LInv, OwnersOK, OwnersOK', NEW o \in Operations, Reserve(o) \/ WorkerStep(o)
  PROVE  Moved
<1>1. CASE Reserve(o) \/ AcceptRefused(o) \/ Begin(o) \/ BeginRefused(o) \/ AlreadyStopped(o) \/ RecordCommand(o)
  BY <1>1, RowsMoveNothing DEF Reserve, AcceptRefused, Begin, BeginRefused, AlreadyStopped, RecordCommand, journalVars,
     Journal!RecordStep, Journal!instanceVars
<1>2. CASE Accept(o)
  <2>1. PICK r \in Requests, i \in Instances, kind \in LifecycleKinds :
          Journal!Accept(r, o, i, kind, revision[i])
    BY <1>2 DEF Accept
  <2> DEFINE row == [instance |-> i, kind |-> kind, status |-> "Accepted", attempt |-> 1, expected |-> revision[i]]
  <2>2. /\ operation' = [operation EXCEPT ![o] = row] /\ ~Journal!Recorded(o) /\ ~Journal!Busy(i)
        /\ lifecycle' = [lifecycle EXCEPT ![i] = IF kind = "delete" THEN "retiring" ELSE lifecycle[i]]
        /\ lifecycle[i] = "managed"
    BY <2>1 DEF Journal!Accept, Journal!NewOperation
  <2>3. lifecycle' = [lifecycle EXCEPT ![i] = "managed"]
    BY <2>2 DEF LifecycleKinds
  <2>4. row \in Journal!OperationRows /\ row.instance = i /\ row.status = "Accepted"
    <3>1. kind \in Journal!Kinds /\ "Accepted" \in Journal!Statuses /\ revision[i] \in Nat
      BY LifecycleAssumption DEF Journal!Kinds, Journal!Statuses, LInv, TypesOK
    <3>2. QED
      BY <3>1 DEF Journal!OperationRows
  <2> HIDE DEF row
  <2>5. operation'[o] = row /\ \A p \in Operations : p # o => operation'[p] = operation[p]
    BY <2>2 DEF LInv, TypesOK
  <2>6. ~Tables!Recorded(o) /\ ~Tables!Busy(i)
    BY <2>2 DEF Tables!Recorded, Journal!Recorded, Tables!Busy, Journal!Busy, Tables!Unresolved, Journal!Unresolved,
       Tables!Closed, Journal!Closed
  <2>7. Tables!Unresolved(o)' /\ operation'[o].instance = i
    BY <2>4, <2>5, LifecycleAssumption DEF Tables!Unresolved, Tables!Recorded, Tables!Closed
  <2>8. Tables!Changes!Next
    BY <2>2, <2>3, <2>5, <2>6, <2>7, JournalAssumptions, Tables!InstanceTaken DEF OwnersOK
  <2>9. QED
    BY <2>8, SameWords DEF Moved
<1>3. CASE MarkExecuting(o) \/ Refuse(o) \/ Verify(o)
  BY <1>3, SetMovesHands, RowsMoveNothing
     DEF MarkExecuting, Refuse, Verify, journalVars, Journal!Statuses, Journal!Paused
<1>4. CASE Fallback(o)
  <2>1. CASE Journal!Is(o, {"Accepted", "Executing"})
    BY <1>4, <2>1, StatusMovesHands DEF Fallback, StatusBecomes, Journal!WriteStatus, Journal!Is, Journal!Unresolved,
       Journal!Closed, Journal!Statuses, Journal!Paused
  <2>2. CASE ~Journal!Is(o, {"Accepted", "Executing"})
    BY <1>4, <2>2, RowsMoveNothing DEF Fallback
  <2>3. QED
    BY <2>1, <2>2
<1>5. QED
  BY <1>1, <1>2, <1>3, <1>4 DEF WorkerStep

\* A command of Docker and what follows it, for the worker and for a recovery.
LEMMA CommandMovesHands ==
  ASSUME LInv, OwnersOK, OwnersOK', NEW t \in Tasks, CommandStep(t) \/ StoreFails(t)
  PROVE  Moved
<1>1. CASE Launch(t) \/ NotLaunched(t) \/ CliReturns(t) \/ CliLost(t) \/ Leave(t) \/ StoreFails(t) \/ FinishStep(t)
  BY <1>1, RowsMoveNothing DEF Launch, NotLaunched, CliReturns, CliLost, Leave, StoreFails, FinishStep, journalVars,
     Journal!FinishStep, Journal!instanceVars
<1>2. CASE Fail(t)
  BY <1>2, Here, SetMovesHands DEF Fail, Idle, Journal!Statuses, Journal!Paused
<1>3. CASE Complete(t)
  <2>1. stage[t] = "completing" /\ Job(t) \in Operations /\ lifecycle' = lifecycle
    BY <1>3, Here DEF Complete, Idle
  <2>2. CASE Journal!Is(Job(t), {"Executing"}) /\ lifecycle[operation[Job(t)].instance] = "managed"
    <3>1. Journal!Unresolved(Job(t)) /\ StatusBecomes(Job(t), "Succeeded") /\ "Succeeded" \in Journal!Statuses
      BY <1>3, <2>2 DEF Complete, StatusBecomes, Journal!WriteStatus, Journal!Is, Journal!Unresolved, Journal!Closed,
         Journal!Statuses
    <3>2. QED
      BY <2>1, <3>1, StatusMovesHands
  <2>3. CASE ~(Journal!Is(Job(t), {"Executing"}) /\ lifecycle[operation[Job(t)].instance] = "managed")
    BY <1>3, <2>1, <2>3, RowsMoveNothing DEF Complete
  <2>4. QED
    BY <2>2, <2>3
<1>4. QED
  BY <1>1, <1>2, <1>3 DEF CommandStep

\* A recovery resumes, retries or abandons an operation that has its instance.
LEMMA RecoveryMovesHands ==
  ASSUME LInv, OwnersOK, OwnersOK', NEW q \in Recoverers, RecoveryStep(q)
  PROVE  Moved
<1>1. q \in Tasks /\ Job(q) = job[q] /\ job[q] \in Operations /\ RowsOK(job[q]) /\ Journal!Recorded(job[q])
  <2>1. q \in Tasks /\ Job(q) = job[q] /\ stage[q] \notin {Idle, "reserved", "done"}
    BY LifecycleAssumption DEF RecoveryStep, Inspect, Resume, Retry, RecordRetry, Abandon, Idle, Tasks, Job, Worker
  <2>2. QED
    BY <2>1, Here DEF OperationOK
<1>2. CASE Inspect(q) \/ RecordRetry(q)
  BY <1>2, RowsMoveNothing DEF Inspect, RecordRetry, journalVars, Journal!RecordStep, Journal!instanceVars
<1>3. CASE Resume(q) \/ Abandon(q)
  BY <1>1, <1>3, SetMovesHands DEF Resume, Abandon, Journal!Statuses, Journal!Closed
<1>4. CASE Retry(q)
  <2>1. PICK p \in Operations : p = job[q]
    BY <1>1
  <2>2. TypesOK /\ operation[p].attempt \in 1..MaxAttempt /\ Journal!Retry(p)
    BY <1>1, <1>4, <2>1 DEF Retry, LInv, RowsOK
  <2>3. /\ \A o \in Operations \ {p} : operation'[o] = operation[o]
        /\ Journal!Unresolved(p) /\ Journal!Recorded(p)'
        /\ operation'[p].status = "Executing"
        /\ operation'[p].instance = operation[p].instance
    BY <2>2, Retried
  <2>4. lifecycle' = lifecycle
    BY <2>2 DEF Journal!Retry, Journal!instanceVars
  <2>5. Journal!Unresolved(p)'
    BY <2>3 DEF Journal!Unresolved, Journal!Closed
  <2>6. ASSUME NEW o \in Operations
        PROVE  /\ Journal!Unresolved(o)' <=> Journal!Unresolved(o)
               /\ Journal!Unresolved(o) => operation'[o].instance = operation[o].instance
               /\ Journal!Recorded(o)' <=> Journal!Recorded(o)
    <3>1. CASE o = p
      BY <2>3, <2>5, <3>1 DEF Journal!Unresolved
    <3>2. CASE o # p
      BY <2>3, <3>2 DEF Journal!Unresolved, Journal!Recorded
    <3>3. QED
      BY <3>1, <3>2
  <2>7. QED
    BY <2>4, <2>6, HandsKept
<1>5. QED
  BY <1>2, <1>3, <1>4 DEF RecoveryStep

\* A restart makes executing operations uncertain, and these stay unresolved.
LEMMA RestartMovesHands ==
  ASSUME LInv, OwnersOK, OwnersOK', Restart
  PROVE  Moved
<1>1. /\ lifecycle' = lifecycle
      /\ operation' = [o \in Operations |->
           IF Journal!Is(o, {"Executing"}) THEN [operation[o] EXCEPT !.status = "OutcomeUnknown"] ELSE operation[o]]
  BY DEF Restart, Journal!RecoverOnStartup, Journal!instanceVars
<1>2. ASSUME NEW o \in Operations
      PROVE  /\ Journal!Unresolved(o)' <=> Journal!Unresolved(o)
             /\ Journal!Unresolved(o) => operation'[o].instance = operation[o].instance
             /\ Journal!Recorded(o)' <=> Journal!Recorded(o)
  <2>1. CASE Journal!Is(o, {"Executing"})
    <3>1. operation[o] \in Journal!OperationRows /\ Journal!Recorded(o) /\ operation[o].status = "Executing"
      BY <2>1 DEF LInv, TypesOK, Journal!Is, Journal!Recorded
    <3>2. operation'[o] = [operation[o] EXCEPT !.status = "OutcomeUnknown"]
      BY <1>1, <2>1
    <3>3. operation'[o] \in Journal!OperationRows /\ operation'[o].status = "OutcomeUnknown"
          /\ operation'[o].instance = operation[o].instance
      BY <3>1, <3>2 DEF Journal!OperationRows, Journal!Statuses, Journal!Paused
    <3>4. QED
      BY <3>1, <3>3, LifecycleAssumption DEF Journal!Recorded, Journal!Unresolved, Journal!Closed
  <2>2. CASE ~Journal!Is(o, {"Executing"})
    <3>1. operation'[o] = operation[o]
      BY <1>1, <2>2
    <3>2. QED
      BY <3>1 DEF Journal!Recorded, Journal!Unresolved
  <2>3. QED
    BY <2>1, <2>2
<1>3. QED
  BY <1>1, <1>2, HandsKept

\* An instance is given to a new operation only, when no other has it, and never
\* back to one that has given it up, whatever fallbacks, recoveries and restarts
\* do to a status and however many journal calls have failed.
THEOREM OwnershipKept == Spec => KeepsOwnership
<1>1. LInv /\ OwnersOK /\ OwnersOK' /\ [Next]_vars => [Journal!Changes!Next]_(Journal!Changes!changesVars)
  <2> SUFFICES ASSUME LInv, OwnersOK, OwnersOK', [Next]_vars PROVE Moved
    BY DEF Moved
  <2>1. ASSUME NEW q \in Recoverers, NEW o \in Operations, Enter(q, o) PROVE Moved
    BY <2>1, RowsMoveNothing DEF Enter, journalVars
  <2>2. CASE Exit \/ OrphanEnds \/ UNCHANGED vars
    BY <2>2, RowsMoveNothing DEF Exit, OrphanEnds, vars, journalVars
  <2>3. QED
    BY <2>1, <2>2, WorkerMovesHands, CommandMovesHands, RecoveryMovesHands, RestartMovesHands DEF Next
<1>2. QED
  BY <1>1, OwnersFollow, Invariance, PTL DEF Spec, KeepsOwnership

===============================================================================
