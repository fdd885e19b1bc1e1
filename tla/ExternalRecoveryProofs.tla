------------------------ MODULE ExternalRecoveryProofs ------------------------
(***************************************************************************)
(* What ExternalRecovery says of the user's files, of the containers it    *)
(* stops and of what it restores, for any number of recoveries, edits,     *)
(* containers and attempts.  The inductive invariant says what a worker    *)
(* knows at each of its places, and which operation answers for a command  *)
(* that may still be alive.                                                *)
(***************************************************************************)
EXTENDS ExternalRecovery, TLAPS

Contents == Edits \cup Artifacts \cup {NoFiles, Partial}
Kinds == {"artifact", "stop", "create", "observe"}
Outcomes == {"open", "unknown", "succeeded", "failed"}
Statuses == {"Accepted", "Executing", "Paused", "Succeeded", "Abandoned"}
Places == {"idle", "inspect", "reconcile", "check", "move", "retain", "settle", "record", "target",
           "write", "rename", "verify", "mark", "finish", "runtime", "stopping", "recreate",
           "creating", "created", "final", "observed", "complete"}
Step == [kind : Kinds, box : Nat, outcome : Outcomes]
Row == [status : Statuses, attempt : Nat, source : Artifacts, hash : Contents, original : Nat,
        steps : Seq(Step)]

\* The files: nothing the user wrote is lost, and nothing else is taken for it.
StoreOK ==
  /\ live \in [Artifacts -> Contents]
  /\ staging \in [Operations -> Contents]
  /\ archive \in [Operations -> Contents]
  /\ placement \in [Artifacts -> {"none", "staged", "published", "retained"}]
  /\ kept \subseteq Edits
  /\ KeepsUserEdits

\* The tables: one unresolved recovery at most, of files that were there.
RowsOK ==
  /\ op \in [Operations -> {NoOp} \cup Row]
  /\ \A o \in Operations : Recorded(o) => op[o].hash # NoFiles
  /\ \A o, p \in Operations : Unresolved(o) /\ Unresolved(p) => o = p
  /\ selected \in Artifacts

\* Containers are numbered as they are made, and keep what they are made of.
MadeOf(id) == id \in 1..Len(made) /\ Saved(id)

DockerOK ==
  /\ made \in Seq({"saved", "edited"})
  /\ box \in [id : Nat, up : BOOLEAN]
  /\ box.id =< Len(made)

\* The worker has an unresolved operation.  Up to the stop it knows that the
\* container is the one of the acceptance, gone or as saved; at the end, that
\* the last step has seen a container as saved.
Outset == {"reconcile", "check", "move", "retain", "settle", "record", "target", "write", "rename",
           "verify", "mark", "finish", "runtime"}
MayStop(o, id) == id = op[o].original \/ id = 0 \/ MadeOf(id)
SawSaved(steps) ==
  steps # <<>> /\ steps[Len(steps)].kind = "observe" /\ MadeOf(steps[Len(steps)].box)

WorkerOK ==
  /\ worker \in [o : Artifacts, at : Places, box : Nat, fresh : BOOLEAN]
  /\ worker.at # "idle" => worker.o \in Operations /\ Unresolved(worker.o)
  /\ worker.at \notin {"idle", "inspect", "reconcile"} => Steps(worker.o) # <<>>
  /\ worker.at \in Outset => MayStop(worker.o, worker.box)
  /\ worker.at \in {"observed", "complete"} => SawSaved(Steps(worker.o))
  /\ worker.at = "complete" => Last(Steps(worker.o)).outcome = "succeeded"

\* A command that may be alive is the last step of an unresolved operation,
\* without an outcome, and of no other step or operation; it is waited for, was
\* given up, or is of a former process.
Waiting == {"stopping", "creating"}
Answers(o) ==
  /\ Unresolved(o)
  /\ cli.o = o /\ cli.step = Len(Steps(o))
  /\ Steps(o) # <<>>
  /\ ~Settled(Last(Steps(o)))
  /\ unconfirmed \/ o \in inherited \/ (worker.o = o /\ worker.at \in Waiting)

CliOK ==
  /\ cli \in [o : Artifacts, step : Nat, kind : {"none", "stop", "create"}, box : Nat,
             end : {"ok", "running"}]
  /\ cli.end = "running" => \E o \in Operations : Answers(o)
  /\ cli.end = "running" => worker.at \in {"idle", "inspect"} \cup Waiting

Restored ==
  \A o \in Operations : Recorded(o) /\ op[o].status = "Succeeded" =>
    SawSaved(Steps(o)) /\ Last(Steps(o)).outcome = "succeeded"

RInv ==
  /\ StoreOK
  /\ RowsOK
  /\ DockerOK
  /\ WorkerOK
  /\ CliOK
  /\ RetainedIsConfirmed
  /\ NeverStranded
  /\ StopsOnlyTheOriginal
  /\ Restored


(***************************************************************************)
(* The operators.                                                          *)
(***************************************************************************)

\* An outcome is written into the last step and nothing else.
Ends(s, x) == [s EXCEPT ![Len(s)].outcome = x]

LEMMA StepEdits ==
  ASSUME NEW s \in Seq(Step), s # <<>>, NEW x \in Outcomes, NEW t, t = Ends(s, x)
  PROVE  /\ t \in Seq(Step) /\ t # <<>> /\ Len(t) = Len(s) /\ DOMAIN t = DOMAIN s
         /\ Last(t) = t[Len(s)]
         /\ \A n \in DOMAIN s : t[n].kind = s[n].kind /\ t[n].box = s[n].box
         /\ Last(t).outcome = x
<1>1. Len(s) \in 1..Len(s) /\ Len(s) \in Nat \ {0} /\ s \in [1..Len(s) -> Step]
  OBVIOUS
<1>2. PICK last : last = s[Len(s)]
  OBVIOUS
<1>3. last \in Step
  BY <1>1, <1>2
<1>4. PICK new : new = [last EXCEPT !.outcome = x]
  OBVIOUS
<1>5. new \in Step /\ new.kind = last.kind /\ new.box = last.box /\ new.outcome = x
  BY <1>3, <1>4 DEF Step
<1>6. t = [s EXCEPT ![Len(s)] = new]
  BY <1>2, <1>4 DEF Ends
<1>7. t \in Seq(Step) /\ Len(t) = Len(s) /\ \A n \in 1..Len(s) : t[n] = IF n = Len(s) THEN new ELSE s[n]
  BY <1>1, <1>5, <1>6
<1>8. t # <<>> /\ DOMAIN t = DOMAIN s /\ DOMAIN s = 1..Len(s)
  <2>1. DOMAIN s = 1..Len(s)
    OBVIOUS
  <2>2. t \in Seq(Step) /\ Len(t) = Len(s) /\ Len(t) # 0
    BY <1>1, <1>7
  <2>3. DOMAIN t = 1..Len(t)
    BY <2>2
  <2>4. t # <<>>
    BY <2>2
  <2>5. QED
    BY <2>1, <2>2, <2>3, <2>4
<1>9. Last(t) = t[Len(s)] /\ Last(t).outcome = x
  BY <1>1, <1>5, <1>7 DEF Last
<1>10. \A n \in DOMAIN s : t[n].kind = s[n].kind /\ t[n].box = s[n].box
  BY <1>2, <1>5, <1>7, <1>8
<1>11. QED
  BY <1>7, <1>8, <1>9, <1>10

\* An intent is a further step, and the last.
LEMMA StepAppends ==
  ASSUME NEW s \in Seq(Step), NEW e \in Step, NEW t, t = Append(s, e)
  PROVE  /\ t \in Seq(Step) /\ t # <<>> /\ Len(t) = Len(s) + 1 /\ DOMAIN t = 1..Len(s) + 1
         /\ \A n \in DOMAIN s : n \in DOMAIN t /\ t[n] = s[n]
         /\ t[Len(t)] = e /\ Last(t) = e
         /\ \A n \in DOMAIN t : n \in DOMAIN s \/ n = Len(t)
BY DEF Last

\* A row is written field by field.
RowIs(new, old, status, steps) ==
  /\ new \in Row
  /\ new.status = status /\ new.steps = steps
  /\ new.source = old.source /\ new.hash = old.hash /\ new.original = old.original

LEMMA RowEdits ==
  ASSUME NEW r \in Row, NEW status \in Statuses, NEW attempt \in Nat, NEW steps \in Seq(Step)
  PROVE  /\ RowIs([r EXCEPT !.status = status], r, status, r.steps)
         /\ RowIs([r EXCEPT !.steps = steps], r, r.status, steps)
         /\ RowIs([r EXCEPT !.status = status, !.steps = steps], r, status, steps)
         /\ RowIs([r EXCEPT !.status = status, !.attempt = attempt, !.steps = steps], r, status, steps)
<1>1. RowIs([r EXCEPT !.status = status], r, status, r.steps)
  BY DEF Row, RowIs
<1>2. RowIs([r EXCEPT !.steps = steps], r, r.status, steps)
  BY DEF Row, RowIs
<1>3. RowIs([r EXCEPT !.status = status, !.steps = steps], r, status, steps)
  BY DEF Row, RowIs
<1>4. RowIs([r EXCEPT !.status = status, !.attempt = attempt, !.steps = steps], r, status, steps)
  BY DEF Row, RowIs
<1>5. QED
  BY <1>1, <1>2, <1>3, <1>4

LEMMA RowForms ==
  ASSUME NEW r \in Row
  PROVE  /\ r.status \in Statuses /\ r.attempt \in Nat /\ r.source \in Artifacts
         /\ r.hash \in Contents /\ r.original \in Nat /\ r.steps \in Seq(Step)
         /\ r # NoOp
BY DEF Row, NoOp, Statuses

\* A recorded operation is a row.
LEMMA Rows ==
  ASSUME RInv, NEW o \in Operations, Recorded(o)
  PROVE  op[o] \in Row /\ Steps(o) \in Seq(Step) /\ op[o].status \in Statuses
BY RowForms DEF RInv, RowsOK, Recorded, Steps

\* What the worker works on.
LEMMA AtWork ==
  ASSUME RInv, NEW o \in Operations, worker.o = o, worker.at # "idle"
  PROVE  /\ Unresolved(o) /\ Recorded(o) /\ op[o] \in Row /\ Steps(o) \in Seq(Step)
         /\ op[o].status \in {"Accepted", "Executing", "Paused"}
         /\ o \in Artifacts
BY Rows DEF RInv, WorkerOK, Unresolved, Recorded, Statuses, Artifacts

\* A container keeps what it was made of.
LEMMA MadeStays ==
  ASSUME RInv, NEW id, MadeOf(id),
         made' = made \/ \E config \in {"saved", "edited"} : made' = Append(made, config)
  PROVE  MadeOf(id)'
BY DEF RInv, DockerOK, MadeOf, Saved

(***************************************************************************)
(* Steps that share a shape.                                               *)
(***************************************************************************)

\* The worker writes its operation's row.  A stop it adds is of the original.
Fits(o, old, new) ==
  /\ new \in Row
  /\ new.status \in {"Accepted", "Executing", "Paused"}
  /\ new.source = old.source /\ new.hash = old.hash /\ new.original = old.original
  /\ \A n \in DOMAIN new.steps :
       new.steps[n].kind = "stop" =>
         \/ new.steps[n].box = old.original
         \/ n \in DOMAIN old.steps /\ old.steps[n].kind = "stop" /\ old.steps[n].box = new.steps[n].box

LEMMA Writes ==
  ASSUME RInv, NEW o \in Operations, Unresolved(o), NEW new, Fits(o, op[o], new),
         op' = [op EXCEPT ![o] = new], UNCHANGED <<selected, made>>
  PROVE  /\ RowsOK' /\ NeverStranded' /\ StopsOnlyTheOriginal' /\ Restored'
         /\ Recorded(o)' /\ Unresolved(o)' /\ op'[o] = new
         /\ \A p \in Operations : p # o => op'[p] = op[p]
         /\ \A p \in Operations : /\ Recorded(p) <=> Recorded(p)'
                                  /\ Unresolved(p) <=> Unresolved(p)'
                                  /\ Recorded(p) => op'[p].source = op[p].source /\ op'[p].hash = op[p].hash
<1>1. op \in [Operations -> {NoOp} \cup Row] /\ Recorded(o) /\ op[o] \in Row
  BY Rows DEF RInv, RowsOK, Unresolved
<1>2. op'[o] = new /\ \A p \in Operations : p # o => op'[p] = op[p]
  BY <1>1
<1>3. new \in Row /\ new # NoOp /\ new.status \notin {"Succeeded", "Abandoned"}
  BY RowForms DEF Fits
<1>4. Recorded(o)' /\ Unresolved(o)'
  BY <1>2, <1>3 DEF Recorded, Unresolved
<1>5. \A p \in Operations : /\ Recorded(p) <=> Recorded(p)'
                            /\ Unresolved(p) <=> Unresolved(p)'
                            /\ Recorded(p) => op'[p].source = op[p].source /\ op'[p].hash = op[p].hash
  BY <1>1, <1>2, <1>4 DEF Recorded, Unresolved, Fits
<1>6. RowsOK'
  <2>1. op' \in [Operations -> {NoOp} \cup Row]
    BY <1>1, <1>3
  <2>2. \A p \in Operations : Recorded(p)' => op'[p].hash # NoFiles
    BY <1>5 DEF RInv, RowsOK
  <2>3. \A p, q \in Operations : Unresolved(p)' /\ Unresolved(q)' => p = q
    BY <1>5 DEF RInv, RowsOK
  <2>4. QED
    BY <2>1, <2>2, <2>3 DEF RInv, RowsOK
<1>7. NeverStranded'
  BY <1>4 DEF NeverStranded
<1>8. ASSUME NEW p \in Operations, Recorded(p)', NEW n \in DOMAIN op'[p].steps,
             op'[p].steps[n].kind = "stop"
      PROVE  op'[p].steps[n].box = op'[p].original
  <2>1. CASE p = o
    BY <1>1, <1>2, <1>8, <2>1 DEF Fits, RInv, StopsOnlyTheOriginal
  <2>2. CASE p # o
    BY <1>2, <1>5, <1>8, <2>2 DEF RInv, StopsOnlyTheOriginal
  <2>3. QED
    BY <2>1, <2>2
<1>9. StopsOnlyTheOriginal'
  BY <1>8 DEF StopsOnlyTheOriginal
<1>10. Restored'
  BY <1>2, <1>3, <1>5 DEF RInv, Restored, Steps, SawSaved, MadeOf, Saved
<1>11. QED
  BY <1>2, <1>4, <1>5, <1>6, <1>7, <1>9, <1>10

\* What is out of use stays confirmed while no archive and no row's source and
\* hash change.
LEMMA RetainedStays ==
  ASSUME RInv, archive' = archive,
         \A a \in Artifacts : placement'[a] = "retained" => placement[a] = "retained",
         \A p \in Operations : Recorded(p) => /\ Recorded(p)'
                                              /\ op'[p].source = op[p].source /\ op'[p].hash = op[p].hash
  PROVE  RetainedIsConfirmed'
BY DEF RInv, RetainedIsConfirmed

\* The files stay.
LEMMA FilesStay ==
  ASSUME RInv, UNCHANGED storeVars
  PROVE  StoreOK'
BY DEF RInv, StoreOK, storeVars, KeepsUserEdits

\* Containers stay.
LEMMA BoxesStay ==
  ASSUME RInv, UNCHANGED <<made, box>>
  PROVE  DockerOK'
BY DEF RInv, DockerOK

\* Tables stay.
LEMMA RowsStay ==
  ASSUME RInv, UNCHANGED <<op, selected>>,
         made' = made \/ \E config \in {"saved", "edited"} : made' = Append(made, config)
  PROVE  RowsOK' /\ StopsOnlyTheOriginal' /\ Restored'
         /\ \A p \in Operations : (Recorded(p) <=> Recorded(p)') /\ (Unresolved(p) <=> Unresolved(p)')
<1>1. \A p \in Operations : (Recorded(p) <=> Recorded(p)') /\ (Unresolved(p) <=> Unresolved(p)')
  BY DEF Recorded, Unresolved
<1>2. RowsOK' /\ StopsOnlyTheOriginal'
  BY <1>1 DEF RInv, RowsOK, StopsOnlyTheOriginal
<1>3. Restored'
  <2>1. ASSUME NEW o \in Operations, Recorded(o)', op'[o].status = "Succeeded"
        PROVE  SawSaved(Steps(o))' /\ Last(Steps(o))'.outcome = "succeeded"
    <3>1. SawSaved(Steps(o)) /\ Last(Steps(o)).outcome = "succeeded" /\ Steps(o)' = Steps(o)
      BY <1>1, <2>1 DEF RInv, Restored, Steps
    <3>2. QED
      BY <3>1, MadeStays DEF SawSaved, Last
  <2>2. QED
    BY <2>1 DEF Restored
<1>4. QED
  BY <1>1, <1>2, <1>3

\* A worker at one of these places has no command behind it that may be alive.
LEMMA Quiet ==
  ASSUME RInv, worker.at \notin {"idle", "inspect"} \cup Waiting
  PROVE  cli.end # "running" /\ cli.end = "ok"
BY DEF RInv, CliOK

\* The worker gives up: its operation is paused, the last step perhaps unknown.
LEMMA Pauses ==
  ASSUME RInv, NEW o \in Operations, worker.o = o, worker.at # "idle", NEW steps, NEW new,
         \/ steps = Steps(o)
         \/ Steps(o) # <<>> /\ steps = Ends(Steps(o), "unknown"),
         RowIs(new, op[o], "Paused", steps), op' = [op EXCEPT ![o] = new], worker' = Idle,
         UNCHANGED <<storeVars, selected, made, box, inherited>>,
         \/ cli' = cli /\ unconfirmed' = unconfirmed /\ worker.at \notin Waiting
         \/ cli' = NoCli
         \/ cli' = cli /\ unconfirmed' = TRUE
  PROVE  RInv'
<1>1. Unresolved(o) /\ op[o] \in Row /\ Steps(o) \in Seq(Step) /\ Steps(o) = op[o].steps
  BY AtWork DEF Steps
<1>2. /\ Fits(o, op[o], new)
      /\ Steps(o) # <<>> /\ ~Settled(Last(Steps(o))) => steps # <<>> /\ ~Settled(Last(steps))
      /\ Len(steps) = Len(Steps(o))
  <2>1. CASE steps = Steps(o)
    <3>1. Fits(o, op[o], new)
      BY <1>1, <2>1 DEF RowIs, Fits
    <3>2. QED
      BY <2>1, <3>1
  <2>2. CASE Steps(o) # <<>> /\ steps = Ends(Steps(o), "unknown")
    <3>1. "unknown" \in Outcomes
      BY DEF Outcomes
    <3>2. /\ steps \in Seq(Step) /\ steps # <<>> /\ DOMAIN steps = DOMAIN Steps(o)
          /\ \A n \in DOMAIN Steps(o) : steps[n].kind = Steps(o)[n].kind /\ steps[n].box = Steps(o)[n].box
          /\ Last(steps).outcome = "unknown" /\ Len(steps) = Len(Steps(o))
      <4>1. PICK s : s = Steps(o)
        OBVIOUS
      <4>2. s \in Seq(Step) /\ s # <<>> /\ steps = Ends(s, "unknown")
        BY <1>1, <2>2, <4>1
      <4>3. /\ steps \in Seq(Step) /\ steps # <<>> /\ DOMAIN steps = DOMAIN s
            /\ \A n \in DOMAIN s : steps[n].kind = s[n].kind /\ steps[n].box = s[n].box
            /\ Last(steps).outcome = "unknown" /\ Len(steps) = Len(s)
        BY <3>1, <4>2, StepEdits
      <4>4. QED
        BY <4>1, <4>3
    <3>3. Fits(o, op[o], new)
      BY <1>1, <3>2 DEF RowIs, Fits
    <3>4. steps # <<>> /\ ~Settled(Last(steps))
      BY <3>2 DEF Settled
    <3>5. QED
      BY <3>2, <3>3, <3>4
  <2>3. QED
    BY <2>1, <2>2
<1>3. /\ RowsOK' /\ NeverStranded' /\ StopsOnlyTheOriginal' /\ Restored'
      /\ Unresolved(o)' /\ op'[o] = new
      /\ \A p \in Operations : /\ Recorded(p) <=> Recorded(p)'
                               /\ Unresolved(p) <=> Unresolved(p)'
                               /\ Recorded(p) => op'[p].source = op[p].source /\ op'[p].hash = op[p].hash
  BY <1>1, <1>2, Writes
<1>4. StoreOK' /\ DockerOK'
  BY FilesStay, BoxesStay
<1>5. RetainedIsConfirmed'
  BY <1>3, RetainedStays DEF storeVars
<1>6. WorkerOK'
  BY DEF WorkerOK, Idle, Artifacts, Places, Outset
<1>7. CliOK'
  <2>1. CASE cli' = NoCli
    BY <2>1 DEF CliOK, NoCli, Artifacts
  <2>2. CASE cli' = cli /\ cli.end = "running" /\ (unconfirmed' = TRUE \/ (unconfirmed' = unconfirmed /\ worker.at \notin Waiting))
    <3>1. PICK p \in Operations : Answers(p)
      BY <2>2 DEF RInv, CliOK
    <3>2. p = o
      BY <1>1, <3>1 DEF RInv, RowsOK, Answers
    <3>3. Steps(o)' = steps
      BY <1>3 DEF Steps, RowIs
    <3>4. Answers(o)'
      BY <1>2, <1>3, <2>2, <3>1, <3>2, <3>3 DEF Answers
    <3>5. QED
      BY <2>2, <3>4 DEF RInv, CliOK, Idle
  <2>3. CASE cli' = cli /\ cli.end # "running"
    BY <2>3 DEF RInv, CliOK
  <2>4. QED
    BY <2>1, <2>2, <2>3
<1>8. QED
  BY <1>3, <1>4, <1>5, <1>6, <1>7 DEF RInv

\* The two ways an error ends a request.
LEMMA FailKeeps ==
  ASSUME RInv, NEW o \in Operations, worker.o = o, worker.at # "idle", worker.at \notin Waiting, Fail(o),
         UNCHANGED <<storeVars, selected, dockerVars, unconfirmed, inherited>>
  PROVE  RInv'
<1>1. op[o] \in Row
  BY AtWork
<1>2. PICK steps, new : steps = Steps(o) /\ new = [op[o] EXCEPT !.status = "Paused"]
  OBVIOUS
<1>3. "Paused" \in Statuses /\ op[o].attempt \in Nat /\ op[o].steps \in Seq(Step)
  BY <1>1, RowForms DEF Statuses
<1>4. RowIs(new, op[o], "Paused", steps)
  BY <1>1, <1>2, <1>3, RowEdits DEF Steps
<1>5. op' = [op EXCEPT ![o] = new] /\ worker' = Idle
  BY <1>2 DEF Fail
<1>6. UNCHANGED <<made, box, cli>>
  BY DEF dockerVars
<1>7. QED
  BY <1>2, <1>4, <1>5, <1>6, Pauses

LEMMA EffectFailsKeeps ==
  ASSUME RInv, NEW o \in Operations, worker.o = o, worker.at # "idle", EffectFails(o),
         UNCHANGED <<storeVars, selected, made, box, inherited>>,
         \/ cli' = cli /\ unconfirmed' = unconfirmed /\ worker.at \notin Waiting
         \/ cli' = NoCli
         \/ cli' = cli /\ unconfirmed' = TRUE
  PROVE  RInv'
<1>1. op[o] \in Row /\ Steps(o) \in Seq(Step)
  BY AtWork
<1>2. PICK steps :
        steps = IF Executing(o) /\ Unsettled(o, {"artifact", "stop", "create"})
                THEN Ends(Steps(o), "unknown") ELSE Steps(o)
  OBVIOUS
<1>3. \/ steps = Steps(o)
      \/ Steps(o) # <<>> /\ steps = Ends(Steps(o), "unknown")
  BY <1>2 DEF Unsettled
<1>4. steps \in Seq(Step)
  <2>1. "unknown" \in Outcomes
    BY DEF Outcomes
  <2>2. QED
    BY <1>1, <1>3, <2>1, StepEdits
<1>5. PICK new : new = [op[o] EXCEPT !.status = "Paused", !.steps = steps]
  OBVIOUS
<1>6. "Paused" \in Statuses /\ op[o].attempt \in Nat
  BY <1>1, RowForms DEF Statuses
<1>7. RowIs(new, op[o], "Paused", steps)
  BY <1>1, <1>4, <1>5, <1>6, RowEdits
<1>8. op' = [op EXCEPT ![o] = new] /\ worker' = Idle
  BY <1>2, <1>5 DEF EffectFails, Steps, Ends
<1>9. QED
  BY <1>3, <1>7, <1>8, Pauses

\* The worker goes on, its row as it is.
LEMMA Walks ==
  ASSUME RInv, NEW o \in Operations, worker.o = o,
         NEW at \in Places \ {"idle", "inspect", "observed", "complete"},
         worker.at \notin {"idle", "inspect"} \cup Waiting,
         at \in Outset => worker.at \in Outset,
         at # "reconcile" => Steps(o) # <<>>,
         worker' = [worker EXCEPT !.at = at],
         UNCHANGED <<op, selected, dockerVars, unconfirmed, inherited>>
  PROVE  /\ RowsOK' /\ DockerOK' /\ WorkerOK' /\ CliOK' /\ NeverStranded' /\ StopsOnlyTheOriginal'
         /\ Restored'
         /\ \A p \in Operations : Recorded(p) => /\ Recorded(p)'
                                                 /\ op'[p].source = op[p].source /\ op'[p].hash = op[p].hash
<1>1. Unresolved(o)
  BY AtWork DEF Waiting
<1>2. made' = made /\ box' = box /\ cli' = cli
  BY DEF dockerVars
<1>3. /\ RowsOK' /\ StopsOnlyTheOriginal' /\ Restored' /\ DockerOK'
      /\ \A p \in Operations : (Recorded(p) <=> Recorded(p)') /\ (Unresolved(p) <=> Unresolved(p)')
  BY <1>2, RowsStay, BoxesStay
<1>4. NeverStranded'
  BY <1>1, <1>3 DEF NeverStranded
<1>5. /\ worker' \in [o : Artifacts, at : Places, box : Nat, fresh : BOOLEAN]
      /\ worker'.o = o /\ worker'.at = at /\ worker'.box = worker.box
  BY DEF RInv, WorkerOK
<1>6. Steps(o)' = Steps(o)
  BY DEF Steps
<1>7. at \in Outset => MayStop(o, worker.box)'
  BY <1>2 DEF RInv, WorkerOK, MayStop, MadeOf, Saved
<1>8. WorkerOK'
  BY <1>1, <1>3, <1>5, <1>6, <1>7 DEF WorkerOK
<1>9. CliOK'
  BY <1>2, Quiet DEF RInv, CliOK
<1>10. QED
  BY <1>3, <1>4, <1>8, <1>9

\* The worker goes on over the same files.
LEMMA WalksOnly ==
  ASSUME RInv, NEW o \in Operations, worker.o = o,
         NEW at \in Places \ {"idle", "inspect", "observed", "complete"},
         worker.at \notin {"idle", "inspect"} \cup Waiting,
         at \in Outset => worker.at \in Outset,
         at # "reconcile" => Steps(o) # <<>>,
         worker' = [worker EXCEPT !.at = at],
         UNCHANGED <<storeVars, op, selected, dockerVars, unconfirmed, inherited>>
  PROVE  RInv'
<1>1. /\ RowsOK' /\ DockerOK' /\ WorkerOK' /\ CliOK' /\ NeverStranded' /\ StopsOnlyTheOriginal'
      /\ Restored'
      /\ \A p \in Operations : Recorded(p) => /\ Recorded(p)'
                                              /\ op'[p].source = op[p].source /\ op'[p].hash = op[p].hash
  BY Walks
<1>2. StoreOK' /\ RetainedIsConfirmed'
  BY <1>1, FilesStay, RetainedStays DEF storeVars
<1>3. QED
  BY <1>1, <1>2 DEF RInv

\* The worker writes its row and goes on, or not, while nothing else changes.
LEMMA WritesAndWalks ==
  ASSUME RInv, NEW o \in Operations, worker.o = o, worker.at \notin {"idle", "inspect"} \cup Waiting,
         NEW new, Fits(o, op[o], new), op' = [op EXCEPT ![o] = new],
         UNCHANGED <<selected, dockerVars, unconfirmed, inherited>>,
         WorkerOK'
  PROVE  /\ RowsOK' /\ DockerOK' /\ WorkerOK' /\ CliOK' /\ NeverStranded' /\ StopsOnlyTheOriginal'
         /\ Restored'
         /\ \A p \in Operations : Recorded(p) => /\ Recorded(p)'
                                                 /\ op'[p].source = op[p].source /\ op'[p].hash = op[p].hash
<1>1. Unresolved(o)
  BY AtWork DEF Waiting
<1>2. made' = made /\ box' = box /\ cli' = cli
  BY DEF dockerVars
<1>3. /\ RowsOK' /\ NeverStranded' /\ StopsOnlyTheOriginal' /\ Restored'
      /\ \A p \in Operations : Recorded(p) => /\ Recorded(p)'
                                              /\ op'[p].source = op[p].source /\ op'[p].hash = op[p].hash
  BY <1>1, <1>2, Writes
<1>4. DockerOK' /\ CliOK'
  BY <1>2, BoxesStay, Quiet DEF RInv, CliOK
<1>5. QED
  BY <1>3, <1>4

\* An outcome for the last step of a worker's operation.
LEMMA Outcomed ==
  ASSUME RInv, NEW o \in Operations, worker.o = o, worker.at # "idle", Steps(o) # <<>>,
         NEW x \in Outcomes, op' = WithOutcome(o, x)
  PROVE  \E new \in Row :
           /\ op' = [op EXCEPT ![o] = new]
           /\ Fits(o, op[o], new)
           /\ RowIs(new, op[o], op[o].status, Ends(Steps(o), x))
<1>1. PICK s, r : s = Steps(o) /\ r = op[o]
  OBVIOUS
<1>2. r \in Row /\ s = r.steps /\ s \in Seq(Step) /\ r.status \in {"Accepted", "Executing", "Paused"}
  BY <1>1, AtWork DEF Steps
<1>3. PICK t : t = Ends(s, x)
  OBVIOUS
<1>4. /\ t \in Seq(Step) /\ DOMAIN t = DOMAIN s
      /\ \A n \in DOMAIN s : t[n].kind = s[n].kind /\ t[n].box = s[n].box
  BY <1>1, <1>2, <1>3, StepEdits
<1>5. PICK new : new = [r EXCEPT !.steps = t]
  OBVIOUS
<1>6. op' = [op EXCEPT ![o] = new]
  BY <1>1, <1>2, <1>3, <1>5 DEF WithOutcome, Ends
<1>7. r.attempt \in Nat /\ r.status \in Statuses
  BY <1>2, RowForms
<1>8. RowIs(new, r, r.status, t)
  BY <1>2, <1>4, <1>5, <1>7, RowEdits
<1>9. Fits(o, r, new)
  BY <1>2, <1>4, <1>8 DEF Fits, RowIs
<1>10. QED
  BY <1>1, <1>3, <1>6, <1>8, <1>9 DEF RowIs

\* A further step of a worker's operation.
LEMMA Appended ==
  ASSUME RInv, NEW o \in Operations, worker.o = o, worker.at # "idle",
         NEW e \in Step, e.kind = "stop" => e.box = op[o].original,
         NEW status \in {"Accepted", "Executing", "Paused"}, NEW new,
         RowIs(new, op[o], status, Append(Steps(o), e))
  PROVE  Fits(o, op[o], new) /\ Append(Steps(o), e) \in Seq(Step)
<1>1. PICK s, r, t : s = Steps(o) /\ r = op[o] /\ t = Append(s, e)
  OBVIOUS
<1>2. r \in Row /\ s = r.steps /\ s \in Seq(Step)
  BY <1>1, AtWork DEF Steps
<1>3. /\ t \in Seq(Step)
      /\ \A n \in DOMAIN s : t[n] = s[n]
      /\ t[Len(t)] = e
      /\ \A n \in DOMAIN t : n \in DOMAIN s \/ n = Len(t)
  BY <1>1, <1>2, StepAppends
<1>4. new \in Row /\ new.status = status /\ new.steps = t
      /\ new.source = r.source /\ new.hash = r.hash /\ new.original = r.original
  BY <1>1 DEF RowIs
<1>5. ASSUME NEW n \in DOMAIN t, t[n].kind = "stop"
      PROVE  t[n].box = r.original \/ (n \in DOMAIN s /\ s[n].kind = "stop" /\ s[n].box = t[n].box)
  BY <1>1, <1>3, <1>5
<1>6. Fits(o, r, new)
  BY <1>2, <1>4, <1>5 DEF Fits
<1>7. QED
  BY <1>1, <1>3, <1>6

(***************************************************************************)
(* Acceptance, evidence and reconciliation.                                *)
(***************************************************************************)

LEMMA Initially == Init => RInv
<1> SUFFICES ASSUME Init PROVE RInv
  OBVIOUS
<1>1. StoreOK
  BY StoreAssumption DEF Init, StoreInit, StoreOK, KeepsUserEdits, Contents, Artifacts
<1>2. \A o \in Operations : op[o] = NoOp /\ ~Recorded(o) /\ ~Unresolved(o)
  BY DEF Init, Recorded, Unresolved
<1>3. RowsOK
  BY <1>2 DEF Init, RowsOK, Artifacts
<1>4. DockerOK
  <2>1. PICK config \in {"saved", "edited"} : made = <<config>>
    BY DEF Init
  <2>2. made \in Seq({"saved", "edited"}) /\ Len(made) = 1
    BY <2>1
  <2>3. QED
    BY <2>2 DEF Init, DockerOK
<1>5. WorkerOK
  BY DEF Init, WorkerOK, Idle, Artifacts, Places, Outset
<1>6. CliOK
  BY DEF Init, CliOK, NoCli, Artifacts
<1>7. RetainedIsConfirmed /\ NeverStranded
  BY DEF Init, StoreInit, RetainedIsConfirmed, NeverStranded, Artifacts
<1>8. StopsOnlyTheOriginal /\ Restored
  BY <1>2 DEF StopsOnlyTheOriginal, Restored
<1>9. QED
  BY <1>1, <1>3, <1>4, <1>5, <1>6, <1>7, <1>8 DEF RInv

LEMMA ConfirmKeeps ==
  ASSUME RInv, NEW o \in Operations, Confirm(o)
  PROVE  RInv'
<1>1. PICK observed, new :
        /\ observed \in 0..Len(made)
        /\ new = [status |-> "Accepted", attempt |-> 1, source |-> selected,
                  hash |-> Content(selected), original |-> observed, steps |-> <<>>]
        /\ op' = [op EXCEPT ![o] = new]
  BY DEF Confirm, BeginRecovery
<1>2. /\ op' = [op EXCEPT ![o] = new] /\ ~Recorded(o) /\ \A p \in Operations : ~Unresolved(p)
      /\ worker' = [o |-> o, at |-> "inspect", box |-> 0, fresh |-> FALSE]
      /\ UNCHANGED <<storeVars, selected, made, box, cli, unconfirmed, inherited>>
  BY <1>1 DEF Confirm, BeginRecovery, RestoreOffered, dockerVars
<1>3. Content(selected) # NoFiles /\ Content(selected) \in Contents /\ selected \in Artifacts
  BY DEF Confirm, RestoreOffered, Inspectable, Content, RInv, RowsOK, StoreOK
<1>4. new \in Row
  <2>1. observed \in Nat
    BY <1>1 DEF RInv, DockerOK
  <2>2. QED
    BY <1>1, <1>3, <2>1 DEF Row, Statuses
<1>5. new # NoOp /\ new.status = "Accepted" /\ new.hash # NoFiles /\ new.steps = <<>>
  BY <1>1, <1>3, <1>4, RowForms
<1>6. op \in [Operations -> {NoOp} \cup Row]
  BY DEF RInv, RowsOK
<1>7. op'[o] = new /\ \A p \in Operations : p # o => op'[p] = op[p]
  BY <1>2, <1>6
<1>8. Recorded(o)' /\ Unresolved(o)' /\ \A p \in Operations : p # o => ~Unresolved(p)' /\ (Recorded(p) <=> Recorded(p)')
  BY <1>2, <1>5, <1>7 DEF Recorded, Unresolved
<1>9. RowsOK'
  <2>1. op' \in [Operations -> {NoOp} \cup Row]
    BY <1>2, <1>4, <1>6
  <2>2. \A p \in Operations : Recorded(p)' => op'[p].hash # NoFiles
    BY <1>5, <1>7, <1>8 DEF RInv, RowsOK
  <2>3. QED
    BY <1>2, <1>3, <1>8, <2>1, <2>2 DEF RowsOK
<1>10. StoreOK' /\ DockerOK'
  BY <1>2, FilesStay, BoxesStay
<1>11. WorkerOK'
  BY <1>2, <1>8 DEF WorkerOK, Artifacts, Places, Outset
<1>12. CliOK'
  BY <1>2 DEF RInv, CliOK, Answers
<1>13. RetainedIsConfirmed'
  BY <1>2, <1>7, <1>8 DEF RInv, RetainedIsConfirmed, storeVars
<1>14. NeverStranded'
  BY <1>8 DEF NeverStranded
<1>15. StopsOnlyTheOriginal'
  BY <1>5, <1>7, <1>8 DEF RInv, StopsOnlyTheOriginal
<1>16. Restored'
  BY <1>2, <1>5, <1>7, <1>8 DEF RInv, Restored, Steps, SawSaved, MadeOf, Saved
<1>17. QED
  BY <1>9, <1>10, <1>11, <1>12, <1>13, <1>14, <1>15, <1>16 DEF RInv

LEMMA ResumeKeeps ==
  ASSUME RInv, NEW o \in Operations, Resume(o)
  PROVE  RInv'
<1>1. /\ worker = Idle /\ Unresolved(o)
      /\ worker' = [o |-> o, at |-> "inspect", box |-> 0, fresh |-> FALSE]
      /\ UNCHANGED <<storeVars, op, selected, made, box, cli, unconfirmed, inherited>>
  BY DEF Resume, opVars, dockerVars
<1>2. /\ RowsOK' /\ StopsOnlyTheOriginal' /\ Restored'
      /\ \A p \in Operations : (Recorded(p) <=> Recorded(p)') /\ (Unresolved(p) <=> Unresolved(p)')
  BY <1>1, RowsStay
<1>3. StoreOK' /\ DockerOK'
  BY <1>1, FilesStay, BoxesStay
<1>4. WorkerOK'
  BY <1>1, <1>2 DEF WorkerOK, Artifacts, Places, Outset
<1>5. ASSUME NEW p \in Operations, Answers(p) PROVE Answers(p)'
  BY <1>1, <1>2, <1>5 DEF Answers, Steps, Idle, Waiting
<1>6. CliOK'
  BY <1>1, <1>5 DEF RInv, CliOK
<1>7. RetainedIsConfirmed' /\ NeverStranded'
  BY <1>1, <1>2, RetainedStays DEF NeverStranded, storeVars
<1>8. QED
  BY <1>2, <1>3, <1>4, <1>6, <1>7 DEF RInv

LEMMA AbandonKeeps ==
  ASSUME RInv, NEW o \in Operations, Abandon(o)
  PROVE  RInv'
<1>1. PICK new : new = [op[o] EXCEPT !.status = "Abandoned"]
  OBVIOUS
<1>2. /\ worker = Idle /\ Recorded(o) /\ op[o].status = "Paused" /\ Usable(selected)
      /\ \A n \in DOMAIN Steps(o) : Settled(Steps(o)[n])
      /\ op' = [op EXCEPT ![o] = new]
      /\ UNCHANGED <<storeVars, selected, made, box, cli, unconfirmed, inherited, worker>>
  BY <1>1 DEF Abandon, AbandonOffered, ArtifactMatches, Steps, dockerVars, sessionVars
<1>3. Unresolved(o) /\ op[o] \in Row /\ Steps(o) \in Seq(Step)
  BY <1>2, Rows DEF Unresolved
<1>4. "Abandoned" \in Statuses /\ op[o].attempt \in Nat /\ op[o].steps \in Seq(Step)
  BY <1>3, RowForms DEF Statuses
<1>5. RowIs(new, op[o], "Abandoned", op[o].steps)
  BY <1>1, <1>3, <1>4, RowEdits
<1>6. op \in [Operations -> {NoOp} \cup Row]
  BY DEF RInv, RowsOK
<1>7. op'[o] = new /\ \A p \in Operations : p # o => op'[p] = op[p]
  BY <1>2, <1>6
<1>8. new \in Row /\ new # NoOp
  BY <1>5, RowForms DEF RowIs
<1>9. \A p \in Operations : ~Unresolved(p)' /\ (Recorded(p) <=> Recorded(p)')
  BY <1>2, <1>3, <1>5, <1>7, <1>8 DEF RInv, RowsOK, Unresolved, Recorded, RowIs
<1>10. \A p \in Operations : Recorded(p) => /\ op'[p].source = op[p].source /\ op'[p].hash = op[p].hash
                                            /\ op'[p].original = op[p].original /\ op'[p].steps = op[p].steps
  BY <1>5, <1>7 DEF RowIs
<1>11. RowsOK'
  <2>1. op' \in [Operations -> {NoOp} \cup Row]
    BY <1>2, <1>6, <1>8
  <2>2. QED
    BY <1>2, <1>9, <1>10, <2>1 DEF RInv, RowsOK
<1>12. StoreOK' /\ DockerOK'
  BY <1>2, FilesStay, BoxesStay
<1>13. WorkerOK'
  BY <1>2 DEF WorkerOK, Idle, Artifacts, Places, Outset
<1>14. cli.end # "running"
  <2>1. ASSUME NEW p \in Operations, Answers(p) PROVE FALSE
    <3>1. p = o
      BY <1>3, <2>1 DEF RInv, RowsOK, Answers
    <3>2. Steps(o) # <<>> /\ ~Settled(Last(Steps(o)))
      BY <2>1, <3>1 DEF Answers
    <3>3. Len(Steps(o)) \in DOMAIN Steps(o)
      BY <1>3, <3>2
    <3>4. QED
      BY <1>2, <3>2, <3>3 DEF Last
  <2>2. QED
    BY <2>1 DEF RInv, CliOK
<1>15. CliOK'
  BY <1>2, <1>14 DEF RInv, CliOK
<1>16. RetainedIsConfirmed'
  BY <1>2, <1>9, <1>10, RetainedStays DEF storeVars
<1>17. NeverStranded'
  BY <1>2 DEF NeverStranded, Usable, storeVars
<1>18. StopsOnlyTheOriginal'
  BY <1>9, <1>10 DEF RInv, StopsOnlyTheOriginal
<1>19. Restored'
  BY <1>2, <1>5, <1>7, <1>9, <1>10 DEF RInv, Restored, Steps, SawSaved, MadeOf, Saved, RowIs
<1>20. QED
  BY <1>11, <1>12, <1>13, <1>15, <1>16, <1>17, <1>18, <1>19 DEF RInv

\* No command can be alive any more when the evidence is accepted.
LEMMA InspectKeeps ==
  ASSUME RInv, NEW o \in Operations, Inspect(o)
  PROVE  RInv'
<1>1. PICK status : status = IF op[o].status = "Accepted" THEN op[o].status ELSE "Paused"
  OBVIOUS
<1>2. PICK new : new = [op[o] EXCEPT !.status = status]
  OBVIOUS
<1>3. /\ worker.o = o /\ worker.at = "inspect" /\ PreviousCliExited(o) /\ IdentityHolds(o, box.id)
      /\ op' = [op EXCEPT ![o] = new]
      /\ worker' = [worker EXCEPT !.at = "reconcile", !.box = box.id]
      /\ UNCHANGED <<storeVars, selected, made, box, cli, unconfirmed, inherited>>
  BY <1>1, <1>2 DEF Inspect, ProjectBox, dockerVars
<1>4. Unresolved(o) /\ op[o] \in Row /\ Steps(o) \in Seq(Step) /\ Steps(o) = op[o].steps
  BY <1>3, AtWork DEF Steps
<1>5. status \in {"Accepted", "Paused"} /\ status \in Statuses /\ op[o].attempt \in Nat
  BY <1>1, <1>4, RowForms DEF Statuses
<1>6. RowIs(new, op[o], status, Steps(o))
  BY <1>2, <1>4, <1>5, RowEdits
<1>7. Fits(o, op[o], new)
  BY <1>4, <1>5, <1>6 DEF Fits, RowIs
<1>8. /\ RowsOK' /\ NeverStranded' /\ StopsOnlyTheOriginal' /\ Restored'
      /\ Unresolved(o)' /\ op'[o] = new
      /\ \A p \in Operations : Recorded(p) => /\ Recorded(p)'
                                              /\ op'[p].source = op[p].source /\ op'[p].hash = op[p].hash
  BY <1>3, <1>4, <1>7, Writes
<1>9. StoreOK' /\ DockerOK'
  BY <1>3, FilesStay, BoxesStay
<1>10. RetainedIsConfirmed'
  BY <1>3, <1>8, RetainedStays DEF storeVars
<1>11. MayStop(o, box.id)'
  <2>1. CASE Saved(box.id)
    <3>1. MadeOf(box.id)
      BY <2>1 DEF MadeOf, Saved, RInv, DockerOK
    <3>2. QED
      BY <1>3, <3>1 DEF MayStop, MadeOf, Saved
  <2>2. CASE ~Saved(box.id)
    BY <1>3, <1>6, <1>8, <2>2 DEF IdentityHolds, MayStop, RowIs
  <2>3. QED
    BY <2>1, <2>2
<1>12. /\ worker' \in [o : Artifacts, at : Places, box : Nat, fresh : BOOLEAN]
       /\ worker'.o = o /\ worker'.at = "reconcile" /\ worker'.box = box.id /\ box' = box
  BY <1>3 DEF RInv, WorkerOK, DockerOK, Places
<1>13. WorkerOK'
  BY <1>8, <1>11, <1>12 DEF WorkerOK
<1>14. cli.end # "running"
  <2>1. ASSUME NEW p \in Operations, Answers(p) PROVE FALSE
    <3>1. p = o
      BY <1>4, <2>1 DEF RInv, RowsOK, Answers
    <3>2. Steps(o) # <<>> /\ ~Settled(Last(Steps(o))) /\ o \in inherited
      BY <1>3, <2>1, <3>1 DEF Answers, PreviousCliExited, Waiting
    <3>3. Len(Steps(o)) \in DOMAIN Steps(o)
      BY <1>4, <3>2
    <3>4. QED
      BY <1>3, <1>4, <3>2, <3>3 DEF Last, PreviousCliExited
  <2>2. QED
    BY <2>1 DEF RInv, CliOK
<1>15. CliOK'
  BY <1>3, <1>14 DEF RInv, CliOK
<1>16. QED
  BY <1>8, <1>9, <1>10, <1>13, <1>15 DEF RInv

LEMMA ReconcileBoxKeeps ==
  ASSUME RInv, NEW o \in Operations, ReconcileBox(o)
  PROVE  RInv'
<1>1. PICK x \in Outcomes :
        /\ worker.o = o /\ worker.at = "reconcile" /\ Steps(o) # <<>> /\ op' = WithOutcome(o, x)
        /\ worker' = worker
        /\ UNCHANGED <<storeVars, selected, dockerVars, unconfirmed, inherited>>
  <2>1. \A b \in BOOLEAN : Outcome(b) \in Outcomes
    BY DEF Outcome, Outcomes
  <2>2. Stopped(worker.box) \in BOOLEAN /\ (Saved(worker.box) /\ Stopped(worker.box)) \in BOOLEAN
    BY DEF Stopped, Saved
  <2>3. QED
    BY <2>1, <2>2 DEF ReconcileBox, Unsettled, sessionVars
<1>2. PICK new \in Row : /\ op' = [op EXCEPT ![o] = new] /\ Fits(o, op[o], new)
                         /\ RowIs(new, op[o], op[o].status, Ends(Steps(o), x))
  BY <1>1, Outcomed
<1>3. /\ Unresolved(o)' /\ op'[o] = new /\ made' = made
  BY <1>1, <1>2, AtWork, Writes DEF dockerVars
<1>4. MayStop(o, worker.box)'
  BY <1>1, <1>2, <1>3 DEF RInv, WorkerOK, Outset, MayStop, MadeOf, Saved, RowIs
<1>5. WorkerOK'
  BY <1>1, <1>3, <1>4 DEF RInv, WorkerOK
<1>6. /\ RowsOK' /\ DockerOK' /\ CliOK' /\ NeverStranded' /\ StopsOnlyTheOriginal' /\ Restored'
      /\ \A p \in Operations : Recorded(p) => /\ Recorded(p)'
                                              /\ op'[p].source = op[p].source /\ op'[p].hash = op[p].hash
  BY <1>1, <1>2, <1>5, WritesAndWalks DEF Waiting
<1>7. StoreOK' /\ RetainedIsConfirmed'
  BY <1>1, <1>6, FilesStay, RetainedStays DEF storeVars
<1>8. QED
  BY <1>5, <1>6, <1>7 DEF RInv

\* A failed reconciliation, or one that has to archive and publish once more.
LEMMA ReconcileKeeps ==
  ASSUME RInv, NEW o \in Operations, InspectFails(o) \/ ReconcileOtherBox(o) \/ ReconcileArtifact(o)
  PROVE  RInv'
<1>1. CASE InspectFails(o) \/ ReconcileOtherBox(o)
  BY <1>1, FailKeeps DEF InspectFails, ReconcileOtherBox, Waiting
<1>2. CASE ReconcileArtifact(o)
  <2>1. /\ worker.o = o /\ worker.at = "reconcile" /\ Steps(o) # <<>>
        /\ worker' = [worker EXCEPT !.at = "check"]
        /\ UNCHANGED <<storeVars, op, selected, dockerVars, unconfirmed, inherited>>
    BY <1>2 DEF ReconcileArtifact, Unsettled, Goto, opVars
  <2>2. "check" \in Places \ {"idle", "inspect", "observed", "complete"} /\ worker.at \in Outset
    BY <2>1 DEF Places, Outset
  <2>3. QED
    BY <2>1, <2>2, WalksOnly DEF Waiting
<1>3. QED
  BY <1>1, <1>2

LEMMA ExecuteKeeps ==
  ASSUME RInv, NEW o \in Operations, Execute(o)
  PROVE  RInv'
<1>1. PICK e : e = [kind |-> "artifact", box |-> 0, outcome |-> "open"]
  OBVIOUS
<1>2. PICK attempt : attempt = IF op[o].status = "Accepted" THEN op[o].attempt ELSE op[o].attempt + 1
  OBVIOUS
<1>3. PICK new, steps : /\ steps = Append(Steps(o), e)
                        /\ new = [op[o] EXCEPT !.status = "Executing", !.attempt = attempt, !.steps = steps]
  OBVIOUS
<1>4. /\ worker.o = o /\ worker.at = "reconcile"
      /\ op' = [op EXCEPT ![o] = new]
      /\ worker' = [worker EXCEPT !.at = "check"]
      /\ UNCHANGED <<storeVars, selected, dockerVars, unconfirmed, inherited>>
  BY <1>1, <1>2, <1>3 DEF Execute, Goto, Steps
<1>5. op[o] \in Row /\ Steps(o) \in Seq(Step) /\ Steps(o) = op[o].steps
  BY <1>4, AtWork DEF Steps
<1>6. "Executing" \in Statuses /\ attempt \in Nat /\ e \in Step
  BY <1>1, <1>2, <1>5, RowForms DEF Statuses, Step, Kinds, Outcomes
<1>7. steps \in Seq(Step) /\ steps # <<>>
  BY <1>3, <1>5, <1>6, StepAppends
<1>8. RowIs(new, op[o], "Executing", steps)
  BY <1>3, <1>5, <1>6, <1>7, RowEdits
<1>9. Fits(o, op[o], new)
  BY <1>1, <1>3, <1>4, <1>6, <1>8, Appended
<1>10. /\ Unresolved(o)' /\ op'[o] = new /\ made' = made
  BY <1>4, <1>9, AtWork, Writes DEF dockerVars
<1>11. MayStop(o, worker.box)'
  BY <1>4, <1>8, <1>10 DEF RInv, WorkerOK, Outset, MayStop, MadeOf, Saved, RowIs
<1>12. /\ worker' \in [o : Artifacts, at : Places, box : Nat, fresh : BOOLEAN]
       /\ worker'.o = o /\ worker'.at = "check" /\ worker'.box = worker.box
  BY <1>4 DEF RInv, WorkerOK, Places
<1>13. Steps(o)' # <<>>
  BY <1>7, <1>8, <1>10 DEF Steps, RowIs
<1>14. WorkerOK'
  BY <1>10, <1>11, <1>12, <1>13 DEF WorkerOK
<1>15. /\ RowsOK' /\ DockerOK' /\ CliOK' /\ NeverStranded' /\ StopsOnlyTheOriginal' /\ Restored'
       /\ \A p \in Operations : Recorded(p) => /\ Recorded(p)'
                                               /\ op'[p].source = op[p].source /\ op'[p].hash = op[p].hash
  BY <1>4, <1>9, <1>14, WritesAndWalks DEF Waiting
<1>16. StoreOK' /\ RetainedIsConfirmed'
  BY <1>4, <1>15, FilesStay, RetainedStays DEF storeVars
<1>17. QED
  BY <1>14, <1>15, <1>16 DEF RInv

(***************************************************************************)
(* GenerateArtifact.                                                       *)
(***************************************************************************)

\* Placements and staging directories are no place of an edit.
LEMMA PlacedStays ==
  ASSUME RInv, UNCHANGED <<live, archive, kept>>,
         staging' \in [Operations -> Contents],
         placement' \in [Artifacts -> {"none", "staged", "published", "retained"}]
  PROVE  StoreOK'
BY DEF RInv, StoreOK, KeepsUserEdits

\* What is moved into the archive is not lost, nor what was archived for another.
LEMMA MovedStays ==
  ASSUME RInv, NEW o \in Operations, NEW a \in Artifacts, CanMove(o, a), Move(o, a), Recorded(o), op' = op
  PROVE  StoreOK' /\ RetainedIsConfirmed'
<1>1. /\ archive[o] = NoFiles /\ live[a] \in Contents
      /\ archive' = [archive EXCEPT ![o] = live[a]] /\ live' = [live EXCEPT ![a] = NoFiles]
      /\ UNCHANGED <<staging, placement, kept>>
  BY DEF CanMove, Move, RInv, StoreOK
<1>2. /\ live \in [Artifacts -> Contents] /\ archive \in [Operations -> Contents]
      /\ kept \subseteq Edits /\ KeepsUserEdits
  BY DEF RInv, StoreOK
<1>3. NoFiles \in Contents /\ NoFiles \notin Edits
  BY StoreAssumption DEF Contents
<1>4. live' \in [Artifacts -> Contents] /\ archive' \in [Operations -> Contents]
  BY <1>1, <1>2, <1>3
<1>5. ASSUME NEW e \in kept PROVE (\E b \in Artifacts : live'[b] = e) \/ (\E p \in Operations : archive'[p] = e)
  <2>1. (\E b \in Artifacts : live[b] = e) \/ (\E p \in Operations : archive[p] = e)
    BY <1>2, <1>5 DEF KeepsUserEdits
  <2>2. CASE live[a] = e
    BY <1>1, <1>2, <2>2
  <2>3. CASE \E b \in Artifacts : live[b] = e /\ b # a
    BY <1>1, <1>2, <2>3
  <2>4. CASE \E p \in Operations : archive[p] = e
    BY <1>1, <1>2, <1>3, <2>4
  <2>5. QED
    BY <2>1, <2>2, <2>3, <2>4
<1>6. KeepsUserEdits'
  BY <1>1, <1>5 DEF KeepsUserEdits
<1>7. StoreOK'
  BY <1>1, <1>4, <1>6 DEF RInv, StoreOK
<1>8. op[o].hash # NoFiles
  BY DEF RInv, RowsOK
<1>9. \A p \in Operations : p # o => archive'[p] = archive[p]
  BY <1>1, <1>2
<1>10. RetainedIsConfirmed'
  BY <1>1, <1>8, <1>9 DEF RInv, RetainedIsConfirmed, Recorded
<1>11. QED
  BY <1>7, <1>10

\* Only what is archived as it was confirmed leaves use.
LEMMA RetiredStays ==
  ASSUME RInv, NEW o \in Operations, Recorded(o), NEW a \in Artifacts, a = op[o].source,
         MayRetain(o, op[o].hash), Retain(a), op' = op
  PROVE  StoreOK' /\ RetainedIsConfirmed'
<1>1. /\ placement \in [Artifacts -> {"none", "staged", "published", "retained"}]
      /\ placement' = [placement EXCEPT ![a] = "retained"]
      /\ UNCHANGED <<live, staging, archive, kept>>
  BY DEF Retain, RInv, StoreOK
<1>2. StoreOK'
  BY <1>1, PlacedStays DEF RInv, StoreOK
<1>3. \A b \in Artifacts : b # a => placement'[b] = placement[b]
  BY <1>1
<1>4. Recorded(o)' /\ op'[o].source = a /\ archive'[o] = op'[o].hash
  BY <1>1 DEF MayRetain, Recorded
<1>5. RetainedIsConfirmed'
  BY <1>1, <1>3, <1>4 DEF RInv, RetainedIsConfirmed, Recorded
<1>6. QED
  BY <1>2, <1>5

\* A staging directory becomes the artifact where there was none.
LEMMA StagedStays ==
  ASSUME RInv, NEW o \in Operations, TargetIsFree(o), MoveStage(o)
  PROVE  StoreOK'
<1>1. /\ live[o] = NoFiles /\ live' = [live EXCEPT ![o] = staging[o]]
      /\ staging' = [staging EXCEPT ![o] = NoFiles]
      /\ UNCHANGED <<archive, placement, kept>>
  BY DEF TargetIsFree, MoveStage
<1>2. /\ live \in [Artifacts -> Contents] /\ staging \in [Operations -> Contents]
      /\ kept \subseteq Edits /\ KeepsUserEdits /\ o \in Artifacts
  BY DEF RInv, StoreOK, Artifacts
<1>3. NoFiles \in Contents /\ NoFiles \notin Edits
  BY StoreAssumption DEF Contents
<1>4. live' \in [Artifacts -> Contents] /\ staging' \in [Operations -> Contents]
  BY <1>1, <1>2, <1>3
<1>5. \A b \in Artifacts : live[b] \in Edits => live'[b] = live[b]
  BY <1>1, <1>2, <1>3
<1>6. KeepsUserEdits'
  BY <1>1, <1>2, <1>5 DEF KeepsUserEdits
<1>7. QED
  BY <1>1, <1>4, <1>6 DEF RInv, StoreOK

LEMMA ArchiveStepKeeps ==
  ASSUME RInv, NEW o \in Operations, ArchiveStep(o),
         UNCHANGED <<selected, dockerVars, unconfirmed, inherited>>
  PROVE  RInv'
<1>1. /\ worker.o = o /\ worker.at \in {"check", "move", "retain"}
  BY DEF ArchiveStep, At
<1>2. Recorded(o) /\ op[o] \in Row /\ op[o].source \in Artifacts /\ Steps(o) # <<>>
  BY <1>1, AtWork, RowForms DEF RInv, WorkerOK
<1>3. worker.at \in Outset /\ worker.at \notin {"idle", "inspect"} \cup Waiting
  BY <1>1 DEF Outset, Waiting
<1>4. PICK at \in {"move", "retain", "record", "settle"} : worker' = [worker EXCEPT !.at = at]
  BY DEF ArchiveStep, Goto
<1>5. at \in Places \ {"idle", "inspect", "observed", "complete"} /\ op' = op
  BY <1>4 DEF Places, ArchiveStep
<1>6. /\ RowsOK' /\ DockerOK' /\ WorkerOK' /\ CliOK' /\ NeverStranded' /\ StopsOnlyTheOriginal'
      /\ Restored'
      /\ \A p \in Operations : Recorded(p) => /\ Recorded(p)'
                                              /\ op'[p].source = op[p].source /\ op'[p].hash = op[p].hash
  BY <1>1, <1>2, <1>3, <1>4, <1>5, Walks
<1>7. StoreOK' /\ RetainedIsConfirmed'
  <2>1. CASE UNCHANGED storeVars
    BY <1>6, <2>1, FilesStay, RetainedStays DEF storeVars
  <2>2. CASE CanMove(o, op[o].source) /\ Move(o, op[o].source)
    BY <1>2, <1>5, <2>2, MovedStays
  <2>3. CASE MayRetain(o, op[o].hash) /\ Retain(op[o].source)
    BY <1>2, <1>5, <2>3, RetiredStays
  <2>4. QED
    BY <2>1, <2>2, <2>3 DEF ArchiveStep
<1>8. QED
  BY <1>6, <1>7 DEF RInv

LEMMA PublishStepKeeps ==
  ASSUME RInv, NEW o \in Operations, PublishStep(o),
         UNCHANGED <<selected, dockerVars, unconfirmed, inherited>>
  PROVE  RInv'
<1>1. worker.o = o /\ worker.at \in {"record", "target", "write", "rename", "verify", "mark", "finish"}
  BY DEF PublishStep, At
<1>2. Recorded(o) /\ op[o] \in Row /\ Steps(o) # <<>> /\ Steps(o) \in Seq(Step) /\ o \in Artifacts
  BY <1>1, AtWork DEF RInv, WorkerOK
<1>3. worker.at \in Outset /\ worker.at \notin {"idle", "inspect"} \cup Waiting
  BY <1>1 DEF Outset, Waiting
<1>4. /\ placement \in [Artifacts -> {"none", "staged", "published", "retained"}]
      /\ staging \in [Operations -> Contents]
      /\ Partial \in Contents /\ o \in Contents
  BY <1>2 DEF RInv, StoreOK, Contents
<1>5. CASE worker.at = "finish"
  <2>1. /\ UNCHANGED storeVars /\ op' = WithOutcome(o, "succeeded")
        /\ worker' = [worker EXCEPT !.at = "runtime"]
    BY <1>5 DEF PublishStep, At, Goto
  <2>2. "succeeded" \in Outcomes
    BY DEF Outcomes
  <2>3. PICK new \in Row : /\ op' = [op EXCEPT ![o] = new] /\ Fits(o, op[o], new)
                           /\ RowIs(new, op[o], op[o].status, Ends(Steps(o), "succeeded"))
    BY <1>1, <1>2, <2>1, <2>2, Outcomed
  <2>4. Unresolved(o)' /\ op'[o] = new /\ made' = made
    BY <1>1, <2>3, AtWork, Writes DEF dockerVars
  <2>5. /\ worker' \in [o : Artifacts, at : Places, box : Nat, fresh : BOOLEAN]
        /\ worker'.o = o /\ worker'.at = "runtime" /\ worker'.box = worker.box
    BY <1>1, <2>1 DEF RInv, WorkerOK, Places
  <2>6. MayStop(o, worker.box)'
    BY <1>5, <1>1, <2>3, <2>4, <2>5 DEF RInv, WorkerOK, Outset, MayStop, MadeOf, Saved, RowIs
  <2>7. Steps(o)' # <<>>
    <3>1. PICK s, t : s = Steps(o) /\ t = Ends(s, "succeeded")
      OBVIOUS
    <3>2. t # <<>>
      BY <1>2, <2>2, <3>1, StepEdits
    <3>3. QED
      BY <2>3, <2>4, <3>1, <3>2 DEF Steps, RowIs
  <2>8. WorkerOK'
    BY <2>4, <2>5, <2>6, <2>7 DEF WorkerOK
  <2>9. /\ RowsOK' /\ DockerOK' /\ CliOK' /\ NeverStranded' /\ StopsOnlyTheOriginal' /\ Restored'
        /\ \A p \in Operations : Recorded(p) => /\ Recorded(p)'
                                                /\ op'[p].source = op[p].source /\ op'[p].hash = op[p].hash
    BY <1>1, <1>3, <2>3, <2>8, WritesAndWalks
  <2>10. StoreOK' /\ RetainedIsConfirmed'
    BY <2>1, <2>9, FilesStay, RetainedStays DEF storeVars
  <2>11. QED
    BY <2>8, <2>9, <2>10 DEF RInv
<1>6. CASE worker.at # "finish"
  <2>1. op' = op
    BY <1>6 DEF PublishStep, At
  <2>2. PICK at \in {"target", "write", "rename", "verify", "mark", "finish"} : worker' = [worker EXCEPT !.at = at]
    BY <1>6 DEF PublishStep, At, Goto
  <2>3. at \in Places \ {"idle", "inspect", "observed", "complete"}
    BY <2>2 DEF Places
  <2>4. /\ RowsOK' /\ DockerOK' /\ WorkerOK' /\ CliOK' /\ NeverStranded' /\ StopsOnlyTheOriginal'
        /\ Restored'
        /\ \A p \in Operations : Recorded(p) => /\ Recorded(p)'
                                                /\ op'[p].source = op[p].source /\ op'[p].hash = op[p].hash
    BY <1>1, <1>2, <1>3, <2>1, <2>2, <2>3, Walks
  <2>5. \/ RecordArtifact(o) \/ MarkPublished(o) \/ BeginStage(o) \/ EndStage(o)
        \/ UNCHANGED storeVars
        \/ TargetIsFree(o) /\ MoveStage(o)
    BY <1>6 DEF PublishStep, At
  <2>6. CASE RecordArtifact(o) \/ MarkPublished(o)
    <3>1. /\ placement' \in [Artifacts -> {"none", "staged", "published", "retained"}]
          /\ \A a \in Artifacts : placement'[a] = "retained" => placement[a] = "retained"
          /\ UNCHANGED <<live, staging, archive, kept>>
      BY <1>2, <1>4, <2>6 DEF RecordArtifact, MarkPublished
    <3>2. QED
      BY <1>4, <2>4, <3>1, PlacedStays, RetainedStays DEF RInv
  <2>7. CASE BeginStage(o) \/ EndStage(o)
    <3>1. staging' \in [Operations -> Contents] /\ UNCHANGED <<live, archive, placement, kept>>
      BY <1>4, <2>7 DEF BeginStage, EndStage
    <3>2. QED
      BY <1>4, <2>4, <3>1, PlacedStays, RetainedStays DEF RInv
  <2>8. CASE UNCHANGED storeVars
    BY <2>4, <2>8, FilesStay, RetainedStays DEF RInv, storeVars
  <2>9. CASE TargetIsFree(o) /\ MoveStage(o)
    <3>1. UNCHANGED <<archive, placement>>
      BY <2>9 DEF MoveStage
    <3>2. QED
      BY <2>4, <2>9, <3>1, StagedStays, RetainedStays DEF RInv
  <2>10. QED
    BY <2>5, <2>6, <2>7, <2>8, <2>9
<1>7. QED
  BY <1>5, <1>6

LEMMA SettleArtifactKeeps ==
  ASSUME RInv, NEW o \in Operations, SettleArtifact(o),
         UNCHANGED <<selected, dockerVars, unconfirmed, inherited>>
  PROVE  RInv'
<1>1. PICK x \in Outcomes :
        /\ worker.o = o /\ worker.at = "settle" /\ op' = WithOutcome(o, x)
        /\ worker' = [worker EXCEPT !.at = "reconcile"]
        /\ UNCHANGED <<storeVars, selected, dockerVars, unconfirmed, inherited>>
  <2>1. \A b \in BOOLEAN : Outcome(b) \in Outcomes
    BY DEF Outcome, Outcomes
  <2>2. Usable(o) \in BOOLEAN
    BY DEF Usable, Verified
  <2>3. QED
    BY <2>1, <2>2 DEF SettleArtifact, At, Goto
<1>2. Steps(o) # <<>>
  BY <1>1 DEF RInv, WorkerOK
<1>3. PICK new \in Row : /\ op' = [op EXCEPT ![o] = new] /\ Fits(o, op[o], new)
                         /\ RowIs(new, op[o], op[o].status, Ends(Steps(o), x))
  BY <1>1, <1>2, Outcomed
<1>4. Unresolved(o)' /\ op'[o] = new /\ made' = made
  BY <1>1, <1>3, AtWork, Writes DEF dockerVars
<1>5. MayStop(o, worker.box)'
  BY <1>1, <1>3, <1>4 DEF RInv, WorkerOK, Outset, MayStop, MadeOf, Saved, RowIs
<1>6. /\ worker' \in [o : Artifacts, at : Places, box : Nat, fresh : BOOLEAN]
      /\ worker'.o = o /\ worker'.at = "reconcile" /\ worker'.box = worker.box
  BY <1>1 DEF RInv, WorkerOK, Places
<1>7. WorkerOK'
  BY <1>4, <1>5, <1>6 DEF WorkerOK
<1>8. /\ RowsOK' /\ DockerOK' /\ CliOK' /\ NeverStranded' /\ StopsOnlyTheOriginal' /\ Restored'
      /\ \A p \in Operations : Recorded(p) => /\ Recorded(p)'
                                              /\ op'[p].source = op[p].source /\ op'[p].hash = op[p].hash
  BY <1>1, <1>3, <1>7, WritesAndWalks DEF Waiting
<1>9. StoreOK' /\ RetainedIsConfirmed'
  BY <1>1, <1>8, FilesStay, RetainedStays DEF storeVars
<1>10. QED
  BY <1>7, <1>8, <1>9 DEF RInv

LEMMA GenerateArtifactKeeps ==
  ASSUME RInv, NEW o \in Operations, GenerateArtifact(o)
  PROVE  RInv'
<1>1. UNCHANGED <<selected, dockerVars, unconfirmed, inherited>> /\ UNCHANGED <<made, box, cli>>
  BY DEF GenerateArtifact, dockerVars
<1>2. CASE ArchiveFails(o) \/ PublishFails(o)
  BY <1>1, <1>2, EffectFailsKeeps DEF ArchiveFails, PublishFails, Waiting
<1>3. QED
  BY <1>1, <1>2, ArchiveStepKeeps, PublishStepKeeps, SettleArtifactKeeps DEF GenerateArtifact

(***************************************************************************)
(* restore_runtime.                                                        *)
(***************************************************************************)

\* A command starts when none is alive, and its operation answers for it.
LEMMA SpawnKeeps ==
  ASSUME RInv, NEW o \in Operations, worker.o = o, worker.at \notin {"idle", "inspect"} \cup Waiting,
         NEW kind \in {"stop", "create"}, NEW id \in Nat, kind = "stop" => id = op[o].original,
         NEW at \in Waiting, Spawn(o, kind, id, at),
         UNCHANGED <<storeVars, selected, made, box, unconfirmed, inherited>>
  PROVE  RInv'
<1>1. PICK e, steps, new :
        /\ e = [kind |-> kind, box |-> id, outcome |-> "open"]
        /\ steps = Append(Steps(o), e) /\ new = [op[o] EXCEPT !.steps = steps]
  OBVIOUS
<1>2. /\ op' = [op EXCEPT ![o] = new] /\ cli'.o = o /\ cli'.step = Len(Steps(o)) + 1
      /\ cli' = [o |-> o, step |-> Len(Steps(o)) + 1, kind |-> kind, box |-> id, end |-> "running"]
      /\ worker' = [worker EXCEPT !.at = at]
  BY <1>1 DEF Spawn, Goto, Steps
<1>3. /\ op[o] \in Row /\ Steps(o) \in Seq(Step) /\ Unresolved(o)
      /\ op[o].status \in {"Accepted", "Executing", "Paused"}
  BY AtWork DEF Waiting
<1>4. e \in Step /\ (e.kind = "stop" => e.box = op[o].original) /\ e.outcome = "open"
  BY <1>1 DEF Step, Kinds, Outcomes
<1>5. steps \in Seq(Step) /\ steps # <<>> /\ Last(steps) = e /\ Len(steps) = Len(Steps(o)) + 1
  <2>1. PICK s : s = Steps(o)
    OBVIOUS
  <2>2. s \in Seq(Step) /\ steps = Append(s, e)
    BY <1>1, <1>3, <2>1
  <2>3. steps \in Seq(Step) /\ steps # <<>> /\ Last(steps) = e /\ Len(steps) = Len(s) + 1
    BY <1>4, <2>2, StepAppends
  <2>4. QED
    BY <2>1, <2>3
<1>6. RowIs(new, op[o], op[o].status, steps)
  BY <1>1, <1>3, <1>5, RowEdits, RowForms
<1>7. Fits(o, op[o], new)
  BY <1>1, <1>3, <1>4, <1>6, Appended
<1>8. /\ RowsOK' /\ NeverStranded' /\ StopsOnlyTheOriginal' /\ Restored'
      /\ Unresolved(o)' /\ op'[o] = new
      /\ \A p \in Operations : Recorded(p) => /\ Recorded(p)'
                                              /\ op'[p].source = op[p].source /\ op'[p].hash = op[p].hash
  BY <1>2, <1>3, <1>7, Writes
<1>9. StoreOK' /\ DockerOK' /\ RetainedIsConfirmed'
  BY <1>8, FilesStay, BoxesStay, RetainedStays DEF storeVars
<1>10. /\ worker' \in [o : Artifacts, at : Places, box : Nat, fresh : BOOLEAN]
       /\ worker'.o = o /\ worker'.at = at /\ at \in Places
  BY <1>2 DEF RInv, WorkerOK, Places, Waiting
<1>11. Steps(o)' = steps
  BY <1>6, <1>8 DEF Steps, RowIs
<1>12. WorkerOK'
  BY <1>5, <1>8, <1>10, <1>11 DEF WorkerOK, Outset, Waiting
<1>13. Answers(o)'
  BY <1>2, <1>4, <1>5, <1>8, <1>10, <1>11 DEF Answers, Settled
<1>14. CliOK'
  <2>1. o \in Artifacts /\ Len(Steps(o)) + 1 \in Nat
    BY <1>3 DEF Artifacts
  <2>2. QED
    BY <1>2, <1>10, <1>13, <2>1 DEF CliOK
<1>15. QED
  BY <1>8, <1>9, <1>12, <1>14 DEF RInv

\* Only a container known to be the one of the acceptance is stopped.
LEMMA RuntimeKeeps ==
  ASSUME RInv, NEW o \in Operations, Runtime(o)
  PROVE  RInv'
<1>1. /\ worker.o = o /\ worker.at = "runtime" /\ Steps(o) # <<>> /\ MayStop(o, worker.box)
      /\ worker.at \notin {"idle", "inspect"} \cup Waiting
      /\ UNCHANGED <<storeVars, selected, made, box, unconfirmed, inherited>>
  BY DEF Runtime, At, RInv, WorkerOK, Outset, Waiting
<1>2. CASE UNCHANGED <<op, cli>> /\ \E at \in {"recreate", "final"} : Goto(at)
  <2>1. PICK at \in {"recreate", "final"} : worker' = [worker EXCEPT !.at = at]
    BY <1>2 DEF Goto
  <2>2. at \in Places \ {"idle", "inspect", "observed", "complete"} /\ at \notin Outset
    BY <2>1 DEF Places, Outset
  <2>3. UNCHANGED <<storeVars, op, selected, dockerVars, unconfirmed, inherited>>
    BY <1>1, <1>2 DEF dockerVars
  <2>4. QED
    BY <1>1, <2>1, <2>2, <2>3, WalksOnly
<1>3. CASE /\ worker.box > 0 /\ box.id = worker.box /\ ~Saved(box.id)
           /\ Spawn(o, "stop", box.id, "stopping")
  <2>1. box.id \in Nat /\ box.id = op[o].original
    BY <1>1, <1>3 DEF RInv, DockerOK, MayStop, MadeOf
  <2>2. "stopping" \in Waiting
    BY DEF Waiting
  <2>3. QED
    BY <1>1, <1>3, <2>1, <2>2, SpawnKeeps
<1>4. QED
  BY <1>2, <1>3 DEF Runtime

LEMMA RecreateKeeps ==
  ASSUME RInv, NEW o \in Operations, Recreate(o)
  PROVE  RInv'
<1>1. /\ worker.o = o /\ worker.at \notin {"idle", "inspect"} \cup Waiting
      /\ Spawn(o, "create", 0, "creating") /\ "creating" \in Waiting
      /\ UNCHANGED <<storeVars, selected, made, box, unconfirmed, inherited>>
  BY DEF Recreate, At, Waiting
<1>2. QED
  BY <1>1, SpawnKeeps

LEMMA CommandDoneKeeps ==
  ASSUME RInv, NEW o \in Operations, CommandDone(o)
  PROVE  RInv'
<1>1. PICK at \in {"recreate", "created"} :
        /\ worker.o = o /\ worker.at \in Waiting
        /\ op' = WithOutcome(o, "succeeded") /\ cli' = NoCli
        /\ worker' = [worker EXCEPT !.at = at]
        /\ UNCHANGED <<storeVars, selected, made, box, unconfirmed, inherited>>
  BY DEF CommandDone, At, Waiting
<1>2. /\ Steps(o) # <<>> /\ Steps(o) \in Seq(Step) /\ Unresolved(o) /\ worker.at # "idle"
      /\ "succeeded" \in Outcomes
  BY <1>1, AtWork DEF RInv, WorkerOK, Waiting, Outcomes
<1>3. PICK new \in Row : /\ op' = [op EXCEPT ![o] = new] /\ Fits(o, op[o], new)
                         /\ RowIs(new, op[o], op[o].status, Ends(Steps(o), "succeeded"))
  BY <1>1, <1>2, Outcomed
<1>4. /\ RowsOK' /\ NeverStranded' /\ StopsOnlyTheOriginal' /\ Restored'
      /\ Unresolved(o)' /\ op'[o] = new
      /\ \A p \in Operations : Recorded(p) => /\ Recorded(p)'
                                              /\ op'[p].source = op[p].source /\ op'[p].hash = op[p].hash
  BY <1>1, <1>2, <1>3, Writes
<1>5. StoreOK' /\ DockerOK' /\ RetainedIsConfirmed'
  BY <1>1, <1>4, FilesStay, BoxesStay, RetainedStays DEF storeVars
<1>6. /\ worker' \in [o : Artifacts, at : Places, box : Nat, fresh : BOOLEAN]
      /\ worker'.o = o /\ worker'.at = at
  BY <1>1 DEF RInv, WorkerOK, Places
<1>7. Steps(o)' # <<>>
  <2>1. PICK s, t : s = Steps(o) /\ t = Ends(s, "succeeded")
    OBVIOUS
  <2>2. t # <<>>
    BY <1>2, <2>1, StepEdits
  <2>3. QED
    BY <1>3, <1>4, <2>1, <2>2 DEF Steps, RowIs
<1>8. WorkerOK'
  BY <1>4, <1>6, <1>7 DEF WorkerOK, Outset
<1>9. CliOK'
  BY <1>1 DEF CliOK, NoCli, Artifacts
<1>10. QED
  BY <1>4, <1>5, <1>8, <1>9 DEF RInv

LEMMA CommandFailsKeeps ==
  ASSUME RInv, NEW o \in Operations, CommandFails(o)
  PROVE  RInv'
<1>1. /\ worker.o = o /\ worker.at # "idle" /\ EffectFails(o)
      /\ UNCHANGED <<storeVars, selected, made, box, inherited>>
      /\ cli' = NoCli \/ (cli' = cli /\ unconfirmed' = TRUE)
  BY DEF CommandFails
<1>2. QED
  BY <1>1, EffectFailsKeeps

LEMMA CreatedKeeps ==
  ASSUME RInv, NEW o \in Operations, Created(o)
  PROVE  RInv'
<1>1. /\ worker.o = o /\ worker.at = "created"
      /\ worker' = [worker EXCEPT !.at = "final", !.box = box.id, !.fresh = TRUE]
      /\ UNCHANGED <<storeVars, op, selected, made, box, cli, unconfirmed, inherited>>
  BY DEF Created, At, ProjectBox, opVars, dockerVars
<1>2. /\ RowsOK' /\ StopsOnlyTheOriginal' /\ Restored'
      /\ \A p \in Operations : (Recorded(p) <=> Recorded(p)') /\ (Unresolved(p) <=> Unresolved(p)')
  BY <1>1, RowsStay
<1>3. StoreOK' /\ DockerOK' /\ RetainedIsConfirmed' /\ NeverStranded'
  BY <1>1, <1>2, FilesStay, BoxesStay, RetainedStays DEF NeverStranded, RInv, storeVars
<1>4. /\ worker' \in [o : Artifacts, at : Places, box : Nat, fresh : BOOLEAN]
      /\ worker'.o = o /\ worker'.at = "final"
  BY <1>1 DEF RInv, WorkerOK, DockerOK, Places
<1>5. Unresolved(o) /\ Steps(o) # <<>> /\ Steps(o)' = Steps(o)
  BY <1>1 DEF RInv, WorkerOK, Steps
<1>6. WorkerOK'
  BY <1>2, <1>4, <1>5 DEF WorkerOK, Outset
<1>7. CliOK'
  BY <1>1, Quiet DEF RInv, CliOK, Waiting
<1>8. QED
  BY <1>2, <1>3, <1>6, <1>7 DEF RInv

\* What the last step names was seen as saved when it was written.
LEMMA ObserveKeeps ==
  ASSUME RInv, NEW o \in Operations, Observe(o)
  PROVE  RInv'
<1>1. PICK e, steps, new :
        /\ e = [kind |-> "observe", box |-> box.id, outcome |-> "open"]
        /\ steps = Append(Steps(o), e) /\ new = [op[o] EXCEPT !.steps = steps]
  OBVIOUS
<1>2. /\ worker.o = o /\ worker.at = "final" /\ op' = [op EXCEPT ![o] = new]
      /\ Saved(box.id) /\ worker' = [worker EXCEPT !.at = "observed"]
      /\ UNCHANGED <<storeVars, selected, dockerVars, unconfirmed, inherited>>
  BY <1>1 DEF Observe, At, FinalBox, Goto, Steps
<1>3. /\ op[o] \in Row /\ Steps(o) \in Seq(Step) /\ Unresolved(o)
      /\ op[o].status \in {"Accepted", "Executing", "Paused"}
  BY <1>2, AtWork
<1>4. e \in Step /\ e.kind = "observe" /\ e.box = box.id
  BY <1>1 DEF Step, Kinds, Outcomes, RInv, DockerOK
<1>5. steps \in Seq(Step) /\ steps # <<>> /\ steps[Len(steps)] = e
  BY <1>1, <1>3, <1>4, StepAppends, SMTT(30)
<1>6. RowIs(new, op[o], op[o].status, steps)
  BY <1>1, <1>3, <1>5, RowEdits, RowForms
<1>7. Fits(o, op[o], new)
  BY <1>1, <1>2, <1>3, <1>4, <1>6, Appended
<1>8. Unresolved(o)' /\ op'[o] = new /\ made' = made /\ box' = box
  BY <1>2, <1>3, <1>7, Writes DEF dockerVars
<1>9. Steps(o)' = steps
  BY <1>6, <1>8 DEF Steps, RowIs
<1>10. SawSaved(Steps(o))'
  <2>1. MadeOf(box.id)
    BY <1>2 DEF MadeOf, Saved, RInv, DockerOK
  <2>2. MadeOf(e.box)'
    BY <1>4, <1>8, <2>1 DEF MadeOf, Saved
  <2>3. QED
    BY <1>4, <1>5, <1>9, <2>2 DEF SawSaved
<1>11. /\ worker' \in [o : Artifacts, at : Places, box : Nat, fresh : BOOLEAN]
       /\ worker'.o = o /\ worker'.at = "observed"
  BY <1>2 DEF RInv, WorkerOK, Places
<1>12. WorkerOK'
  BY <1>5, <1>8, <1>9, <1>10, <1>11 DEF WorkerOK, Outset
<1>13. /\ RowsOK' /\ DockerOK' /\ CliOK' /\ NeverStranded' /\ StopsOnlyTheOriginal' /\ Restored'
       /\ \A p \in Operations : Recorded(p) => /\ Recorded(p)'
                                               /\ op'[p].source = op[p].source /\ op'[p].hash = op[p].hash
  BY <1>2, <1>7, <1>12, WritesAndWalks DEF Waiting
<1>14. StoreOK' /\ RetainedIsConfirmed'
  BY <1>2, <1>13, FilesStay, RetainedStays DEF storeVars
<1>15. QED
  BY <1>12, <1>13, <1>14 DEF RInv

LEMMA FinishObserveKeeps ==
  ASSUME RInv, NEW o \in Operations, FinishObserve(o)
  PROVE  RInv'
<1>1. /\ worker.o = o /\ worker.at = "observed" /\ op' = WithOutcome(o, "succeeded")
      /\ worker' = [worker EXCEPT !.at = "complete"]
      /\ UNCHANGED <<storeVars, selected, dockerVars, unconfirmed, inherited>>
  BY DEF FinishObserve, At, Goto
<1>2. Steps(o) # <<>> /\ SawSaved(Steps(o)) /\ Steps(o) \in Seq(Step) /\ "succeeded" \in Outcomes
  BY <1>1, AtWork DEF RInv, WorkerOK, Outcomes
<1>3. PICK new \in Row : /\ op' = [op EXCEPT ![o] = new] /\ Fits(o, op[o], new)
                         /\ RowIs(new, op[o], op[o].status, Ends(Steps(o), "succeeded"))
  BY <1>1, <1>2, Outcomed
<1>4. Unresolved(o)' /\ op'[o] = new /\ made' = made
  BY <1>1, <1>3, AtWork, Writes DEF dockerVars
<1>5. SawSaved(Steps(o))' /\ Last(Steps(o))'.outcome = "succeeded"
  <2>1. PICK s, t : s = Steps(o) /\ t = Ends(s, "succeeded")
    OBVIOUS
  <2>2. /\ t # <<>> /\ Len(t) = Len(s) /\ Len(s) \in DOMAIN s /\ Last(t).outcome = "succeeded"
        /\ \A n \in DOMAIN s : t[n].kind = s[n].kind /\ t[n].box = s[n].box
    BY <1>2, <2>1, StepEdits
  <2>3. SawSaved(t)
    BY <1>2, <2>1, <2>2 DEF SawSaved
  <2>4. Steps(o)' = t
    BY <1>3, <1>4, <2>1 DEF Steps, RowIs
  <2>5. QED
    BY <1>4, <2>2, <2>3, <2>4 DEF SawSaved, MadeOf, Saved, Last
<1>6. /\ worker' \in [o : Artifacts, at : Places, box : Nat, fresh : BOOLEAN]
      /\ worker'.o = o /\ worker'.at = "complete"
  BY <1>1 DEF RInv, WorkerOK, Places
<1>7. WorkerOK'
  BY <1>4, <1>5, <1>6 DEF WorkerOK, Outset, SawSaved
<1>8. /\ RowsOK' /\ DockerOK' /\ CliOK' /\ NeverStranded' /\ StopsOnlyTheOriginal' /\ Restored'
      /\ \A p \in Operations : Recorded(p) => /\ Recorded(p)'
                                              /\ op'[p].source = op[p].source /\ op'[p].hash = op[p].hash
  BY <1>1, <1>3, <1>7, WritesAndWalks DEF Waiting
<1>9. StoreOK' /\ RetainedIsConfirmed'
  BY <1>1, <1>8, FilesStay, RetainedStays DEF storeVars
<1>10. QED
  BY <1>7, <1>8, <1>9 DEF RInv

LEMMA RuntimeFailsKeeps ==
  ASSUME RInv, NEW o \in Operations, RuntimeFails(o)
  PROVE  RInv'
BY FailKeeps DEF RuntimeFails, Waiting

LEMMA CompleteKeeps ==
  ASSUME RInv, NEW o \in Operations, Complete(o)
  PROVE  RInv'
<1>1. PICK new : new = [op[o] EXCEPT !.status = "Succeeded"]
  OBVIOUS
<1>2. /\ worker.o = o /\ worker.at = "complete" /\ placement[o] = "published"
      /\ op' = [op EXCEPT ![o] = new] /\ selected' = o /\ worker' = Idle
      /\ UNCHANGED <<storeVars, made, box, cli, unconfirmed, inherited>>
  BY <1>1 DEF Complete, At, dockerVars
<1>3. Unresolved(o) /\ Recorded(o) /\ op[o] \in Row /\ o \in Artifacts
  BY <1>2, AtWork
<1>4. RowIs(new, op[o], "Succeeded", op[o].steps)
  <2>1. "Succeeded" \in Statuses /\ op[o].attempt \in Nat /\ op[o].steps \in Seq(Step)
    BY <1>3, RowForms DEF Statuses
  <2>2. QED
    BY <1>1, <1>3, <2>1, RowEdits
<1>5. op \in [Operations -> {NoOp} \cup Row]
  BY DEF RInv, RowsOK
<1>6. op'[o] = new /\ \A p \in Operations : p # o => op'[p] = op[p]
  BY <1>2, <1>5
<1>7. new \in Row /\ new # NoOp /\ new.status = "Succeeded"
  BY <1>4, RowForms DEF RowIs
<1>8. \A p \in Operations : ~Unresolved(p)' /\ (Recorded(p) <=> Recorded(p)')
  BY <1>3, <1>6, <1>7 DEF RInv, RowsOK, Unresolved, Recorded
<1>9. \A p \in Operations : Recorded(p) => /\ op'[p].source = op[p].source /\ op'[p].hash = op[p].hash
                                           /\ op'[p].original = op[p].original /\ op'[p].steps = op[p].steps
  BY <1>4, <1>6 DEF RowIs
<1>10. RowsOK'
  <2>1. op' \in [Operations -> {NoOp} \cup Row]
    BY <1>2, <1>5, <1>7
  <2>2. QED
    BY <1>2, <1>3, <1>8, <1>9, <2>1 DEF RInv, RowsOK
<1>11. StoreOK' /\ DockerOK'
  BY <1>2, FilesStay, BoxesStay
<1>12. WorkerOK'
  BY <1>2 DEF WorkerOK, Idle, Artifacts, Places, Outset
<1>13. CliOK'
  BY <1>2, Quiet DEF RInv, CliOK, Waiting
<1>14. RetainedIsConfirmed'
  BY <1>2, <1>8, <1>9, RetainedStays DEF storeVars
<1>15. NeverStranded'
  BY <1>2 DEF NeverStranded, storeVars
<1>16. StopsOnlyTheOriginal'
  BY <1>8, <1>9 DEF RInv, StopsOnlyTheOriginal
<1>17. Restored'
  <2>1. SawSaved(Steps(o)) /\ Last(Steps(o)).outcome = "succeeded"
    BY <1>2 DEF RInv, WorkerOK
  <2>2. ASSUME NEW p \in Operations, Recorded(p)', op'[p].status = "Succeeded"
        PROVE  SawSaved(Steps(p)) /\ Last(Steps(p)).outcome = "succeeded" /\ Steps(p)' = Steps(p)
    BY <1>6, <1>8, <1>9, <2>1, <2>2 DEF RInv, Restored, Steps
  <2>3. ASSUME NEW p \in Operations, Recorded(p)', op'[p].status = "Succeeded"
        PROVE  SawSaved(Steps(p))' /\ Last(Steps(p))'.outcome = "succeeded"
    BY <1>2, <2>2, <2>3 DEF SawSaved, MadeOf, Saved, Last
  <2>4. QED
    BY <2>3 DEF Restored
<1>18. QED
  BY <1>10, <1>11, <1>12, <1>13, <1>14, <1>15, <1>16, <1>17 DEF RInv

(***************************************************************************)
(* Docker, the user and the death of the process.                          *)
(***************************************************************************)

\* Whatever Docker does, containers keep what they are made of.
LEMMA DockerMoves ==
  ASSUME RInv, UNCHANGED <<storeVars, opVars, sessionVars>>,
         made' = made \/ \E config \in {"saved", "edited"} : made' = Append(made, config),
         box' \in [id : Nat, up : BOOLEAN], box'.id =< Len(made'),
         cli' = cli \/ cli' = [cli EXCEPT !.end = "ok"]
  PROVE  RInv'
<1>1. UNCHANGED <<op, selected, unconfirmed, inherited, worker, placement, archive>>
  BY DEF opVars, sessionVars, storeVars
<1>2. /\ RowsOK' /\ StopsOnlyTheOriginal' /\ Restored'
      /\ \A p \in Operations : (Recorded(p) <=> Recorded(p)') /\ (Unresolved(p) <=> Unresolved(p)')
  BY <1>1, RowsStay
<1>3. StoreOK' /\ RetainedIsConfirmed' /\ NeverStranded'
  BY <1>1, <1>2, FilesStay, RetainedStays DEF NeverStranded, RInv
<1>4. made' \in Seq({"saved", "edited"})
  BY SMTT(30) DEF RInv, DockerOK
<1>5. DockerOK'
  BY <1>4 DEF DockerOK
<1>6. \A id : MadeOf(id) => MadeOf(id)'
  BY MadeStays
<1>7. WorkerOK'
  <2>1. worker.at \in Outset => MayStop(worker.o, worker.box)'
    BY <1>1, <1>6 DEF RInv, WorkerOK, MayStop
  <2>2. worker.at \in {"observed", "complete"} => SawSaved(Steps(worker.o))'
    BY <1>1, <1>6 DEF RInv, WorkerOK, SawSaved, Steps
  <2>3. worker.at # "idle" => worker.o \in Operations /\ Unresolved(worker.o)'
    BY <1>1, <1>2 DEF RInv, WorkerOK
  <2>4. worker' = worker /\ op' = op
    BY <1>1
  <2>5. QED
    BY <2>1, <2>2, <2>3, <2>4 DEF RInv, WorkerOK, Steps, Last
<1>8. CliOK'
  <2>1. CASE cli' = cli
    <3>1. ASSUME NEW p \in Operations, Answers(p) PROVE Answers(p)'
      BY <1>1, <1>2, <2>1, <3>1 DEF Answers, Steps
    <3>2. QED
      BY <1>1, <2>1, <3>1 DEF RInv, CliOK
  <2>2. CASE cli' = [cli EXCEPT !.end = "ok"]
    BY <2>2 DEF RInv, CliOK
  <2>3. QED
    BY <2>1, <2>2
<1>9. QED
  BY <1>2, <1>3, <1>5, <1>7, <1>8 DEF RInv

LEMMA NewBoxIs ==
  ASSUME RInv, NEW config \in {"saved", "edited"}, NEW up \in BOOLEAN, NewBox(config, up)
  PROVE  /\ made' = Append(made, config)
         /\ box' \in [id : Nat, up : BOOLEAN] /\ box'.id =< Len(made')
<1>1. made \in Seq({"saved", "edited"}) /\ made' = Append(made, config)
      /\ box' = [id |-> Len(made) + 1, up |-> up]
  BY DEF NewBox, RInv, DockerOK
<1>2. QED
  BY <1>1

LEMMA CliWorksKeeps ==
  ASSUME RInv, CliWorks
  PROVE  RInv'
<1>1. UNCHANGED <<storeVars, opVars, sessionVars>> /\ cli' = [cli EXCEPT !.end = "ok"]
  BY DEF CliWorks
<1>2. CASE made' = made /\ box' = [box EXCEPT !.up = @ /\ box.id # cli.box]
  <2>1. box' \in [id : Nat, up : BOOLEAN] /\ box'.id = box.id
    BY <1>2 DEF RInv, DockerOK
  <2>2. QED
    BY <1>1, <1>2, <2>1, DockerMoves DEF RInv, DockerOK
<1>3. CASE \E config \in {"saved", "edited"} : NewBox(config, FALSE)
  BY <1>1, <1>3, NewBoxIs, DockerMoves
<1>4. QED
  BY <1>2, <1>3 DEF CliWorks

LEMMA UserUsesDockerKeeps ==
  ASSUME RInv, UserUsesDocker
  PROVE  RInv'
<1>1. UNCHANGED <<storeVars, opVars, sessionVars>> /\ cli' = cli
  BY DEF UserUsesDocker
<1>2. CASE made' = made /\ (box' = [box EXCEPT !.up = ~@] \/ box' = [id |-> 0, up |-> FALSE])
  <2>1. made \in Seq({"saved", "edited"}) /\ Len(made) \in Nat
    BY DEF RInv, DockerOK
  <2>2. CASE box' = [box EXCEPT !.up = ~@]
    <3>1. box' \in [id : Nat, up : BOOLEAN] /\ box'.id = box.id
      BY <2>2 DEF RInv, DockerOK
    <3>2. QED
      BY <1>1, <1>2, <3>1, DockerMoves DEF RInv, DockerOK
  <2>3. CASE box' = [id |-> 0, up |-> FALSE]
    <3>1. box' \in [id : Nat, up : BOOLEAN] /\ box'.id =< Len(made)
      BY <2>1, <2>3
    <3>2. QED
      BY <1>1, <1>2, <3>1, DockerMoves
  <2>4. QED
    BY <1>2, <2>2, <2>3
<1>3. CASE \E config \in {"saved", "edited"} : NewBox(config, TRUE)
  BY <1>1, <1>3, NewBoxIs, DockerMoves
<1>4. QED
  BY <1>2, <1>3 DEF UserUsesDocker

\* An edit that is replaced by another is taken back.
LEMMA EditsStay ==
  ASSUME RInv, NEW a \in Artifacts, NEW content \in Contents, NEW added \in SUBSET Edits,
         added \subseteq {content}, live' = [live EXCEPT ![a] = content],
         kept' = (kept \ {live[a]}) \cup added,
         UNCHANGED <<staging, archive, placement>>
  PROVE  StoreOK'
<1>1. /\ live \in [Artifacts -> Contents] /\ kept \subseteq Edits /\ KeepsUserEdits
  BY DEF RInv, StoreOK
<1>2. live' \in [Artifacts -> Contents] /\ kept' \subseteq Edits
  BY <1>1
<1>3. live'[a] = content /\ \A b \in Artifacts : b # a => live'[b] = live[b]
  BY <1>1
<1>4. ASSUME NEW e \in kept' PROVE (\E b \in Artifacts : live'[b] = e) \/ (\E p \in Operations : archive'[p] = e)
  <2>1. CASE e \in added
    BY <1>3, <2>1
  <2>2. CASE e \in kept /\ e # live[a]
    BY <1>1, <1>3, <2>2 DEF KeepsUserEdits
  <2>3. QED
    BY <1>4, <2>1, <2>2
<1>5. KeepsUserEdits'
  BY <1>4 DEF KeepsUserEdits
<1>6. QED
  BY <1>2, <1>5 DEF RInv, StoreOK

LEMMA UserEditsKeeps ==
  ASSUME RInv, UserEdits
  PROVE  RInv'
<1>1. UNCHANGED <<op, selected, made, box, cli, unconfirmed, inherited, worker, staging, archive, placement>>
  BY DEF UserEdits, UserWrites, Edit, TakeBack, opVars, dockerVars, sessionVars
<1>2. StoreOK'
  <2>1. ASSUME NEW a \in Artifacts, NEW e \in Edits, Edit(a, e)
        PROVE  StoreOK'
    <3>1. /\ e \in Contents /\ {e} \in SUBSET Edits
          /\ live' = [live EXCEPT ![a] = e] /\ kept' = (kept \ {live[a]}) \cup {e}
      BY <2>1 DEF Edit, Contents
    <3>2. QED
      BY <1>1, <3>1, EditsStay
  <2>2. ASSUME NEW a \in Artifacts, NEW content \in {a, NoFiles}, TakeBack(a, content)
        PROVE  StoreOK'
    <3>1. /\ content \in Contents /\ {} \in SUBSET Edits
          /\ live' = [live EXCEPT ![a] = content] /\ kept' = (kept \ {live[a]}) \cup {}
      BY <2>2 DEF TakeBack, Contents
    <3>2. QED
      BY <1>1, <3>1, EditsStay
  <2>3. QED
    BY <2>1, <2>2 DEF UserEdits, UserWrites
<1>3. /\ RowsOK' /\ StopsOnlyTheOriginal' /\ Restored'
      /\ \A p \in Operations : (Recorded(p) <=> Recorded(p)') /\ (Unresolved(p) <=> Unresolved(p)')
  BY <1>1, RowsStay
<1>4. DockerOK' /\ RetainedIsConfirmed' /\ NeverStranded'
  BY <1>1, <1>3, BoxesStay, RetainedStays DEF NeverStranded, RInv
<1>5. WorkerOK'
  BY <1>1, <1>3 DEF RInv, WorkerOK, MayStop, MadeOf, Saved, SawSaved, Steps, Last
<1>6. ASSUME NEW p \in Operations, Answers(p) PROVE Answers(p)'
  BY <1>1, <1>3, <1>6 DEF Answers, Steps
<1>7. CliOK'
  BY <1>1, <1>6 DEF RInv, CliOK
<1>8. QED
  BY <1>2, <1>3, <1>4, <1>5, <1>7 DEF RInv

\* A former process' command is answered for by the operation it inherits.
LEMMA RestartKeeps ==
  ASSUME RInv, Restart
  PROVE  RInv'
<1>1. /\ UNCHANGED <<storeVars, selected, made, box, cli>> /\ worker' = Idle
      /\ inherited' = {o \in Operations : Unresolved(o)}
  BY DEF Restart, dockerVars
<1>2. ASSUME NEW o \in Operations
      PROVE  /\ op'[o] \in {NoOp} \cup Row
             /\ Recorded(o) <=> Recorded(o)'
             /\ Unresolved(o) <=> Unresolved(o)'
             /\ Recorded(o) => /\ op'[o].source = op[o].source /\ op'[o].hash = op[o].hash
                               /\ op'[o].original = op[o].original /\ op'[o].steps = op[o].steps
             /\ Recorded(o) /\ op'[o].status = "Succeeded" => op[o].status = "Succeeded"
  <2>1. CASE Recorded(o) /\ Executing(o)
    <3>1. PICK new : new = [op[o] EXCEPT !.status = "Paused"]
      OBVIOUS
    <3>2. op[o] \in Row /\ op'[o] = new
      BY <2>1, <3>1, Rows DEF Restart
    <3>3. "Paused" \in Statuses /\ op[o].attempt \in Nat /\ op[o].steps \in Seq(Step)
      BY <3>2, RowForms DEF Statuses
    <3>4. RowIs(new, op[o], "Paused", op[o].steps)
      BY <3>1, <3>2, <3>3, RowEdits
    <3>5. new # NoOp
      BY <3>4, RowForms DEF RowIs
    <3>6. QED
      BY <2>1, <3>2, <3>4, <3>5 DEF RowIs, Recorded, Unresolved, Executing
  <2>2. CASE ~(Recorded(o) /\ Executing(o))
    <3>1. op'[o] = op[o]
      BY <2>2 DEF Restart
    <3>2. op[o] \in {NoOp} \cup Row
      BY DEF RInv, RowsOK
    <3>3. QED
      BY <3>1, <3>2 DEF Recorded, Unresolved
  <2>3. QED
    BY <2>1, <2>2
<1>3. RowsOK'
  <2>1. op' \in [Operations -> {NoOp} \cup Row]
    BY <1>2 DEF Restart
  <2>2. QED
    BY <1>1, <1>2, <2>1 DEF RInv, RowsOK
<1>4. StoreOK' /\ DockerOK'
  BY <1>1, FilesStay, BoxesStay
<1>5. WorkerOK'
  BY <1>1 DEF WorkerOK, Idle, Artifacts, Places, Outset
<1>6. CliOK'
  <2>1. CASE cli.end = "running"
    <3>1. PICK p \in Operations : Answers(p)
      BY <2>1 DEF RInv, CliOK
    <3>2. Answers(p)'
      BY <1>1, <1>2, <3>1 DEF Answers, Steps, Unresolved
    <3>3. QED
      BY <1>1, <3>2 DEF RInv, CliOK, Idle
  <2>2. CASE cli.end # "running"
    BY <1>1, <2>2 DEF RInv, CliOK
  <2>3. QED
    BY <2>1, <2>2
<1>7. RetainedIsConfirmed'
  BY <1>1, <1>2, RetainedStays DEF storeVars
<1>8. NeverStranded'
  BY <1>1, <1>2 DEF RInv, NeverStranded, storeVars
<1>9. StopsOnlyTheOriginal'
  BY <1>2 DEF RInv, StopsOnlyTheOriginal
<1>10. Restored'
  <2>1. ASSUME NEW o \in Operations, Recorded(o)', op'[o].status = "Succeeded"
        PROVE  SawSaved(Steps(o)) /\ Last(Steps(o)).outcome = "succeeded" /\ Steps(o)' = Steps(o)
    BY <1>2, <2>1 DEF RInv, Restored, Steps
  <2>2. ASSUME NEW o \in Operations, Recorded(o)', op'[o].status = "Succeeded"
        PROVE  SawSaved(Steps(o))' /\ Last(Steps(o))'.outcome = "succeeded"
    BY <1>1, <2>1, <2>2 DEF SawSaved, MadeOf, Saved, Last
  <2>3. QED
    BY <2>2 DEF Restored
<1>11. QED
  BY <1>3, <1>4, <1>5, <1>6, <1>7, <1>8, <1>9, <1>10 DEF RInv

LEMMA StutterKeeps ==
  ASSUME RInv, UNCHANGED vars
  PROVE  RInv'
<1>1. UNCHANGED <<storeVars, opVars, sessionVars, made, box, cli>>
  BY DEF vars, dockerVars
<1>2. QED
  BY <1>1, DockerMoves DEF RInv, DockerOK

(***************************************************************************)
(* The theorems.                                                           *)
(***************************************************************************)

LEMMA Inductive == RInv /\ [Next]_vars => RInv'
<1> SUFFICES ASSUME RInv, [Next]_vars PROVE RInv'
  OBVIOUS
<1>1. ASSUME NEW o \in Operations, Confirm(o) \/ Resume(o) \/ Abandon(o)
      PROVE  RInv'
  BY <1>1, ConfirmKeeps, ResumeKeeps, AbandonKeeps
<1>2. ASSUME NEW o \in Operations, RestoreLocked(o)
      PROVE  RInv'
  BY <1>2, InspectKeeps, ReconcileKeeps, ReconcileBoxKeeps, ExecuteKeeps, GenerateArtifactKeeps,
     RuntimeKeeps, RecreateKeeps, CommandDoneKeeps, CommandFailsKeeps, CreatedKeeps, ObserveKeeps,
     FinishObserveKeeps, RuntimeFailsKeeps, CompleteKeeps DEF RestoreLocked
<1>3. QED
  BY <1>1, <1>2, CliWorksKeeps, UserUsesDockerKeeps, UserEditsKeeps, RestartKeeps, StutterKeeps DEF Next

\* What the worker knows at each of its places, who answers for a command, and
\* where each of the user's files is, in every state.
THEOREM Invariance == Spec => []RInv
<1>1. Init => RInv
  BY Initially
<1>2. RInv /\ [Next]_vars => RInv'
  BY Inductive
<1>3. QED
  BY <1>1, <1>2, PTL DEF Spec

\* No recovery, retry, abandonment or crash loses what the user wrote, and an
\* artifact leaves use only as the user confirmed it (archive_external).
THEOREM EditsSurvive == Spec => []UserEditsSurvive
<1>1. RInv => UserEditsSurvive
  BY DEF RInv, StoreOK, UserEditsSurvive
<1>2. QED
  BY <1>1, Invariance, PTL

\* The instance is never left with an archived artifact and no recovery to go
\* on with (abandon_operation, complete_external_recovery).
THEOREM NotStranded == Spec => []NeverStranded
<1>1. RInv => NeverStranded
  BY DEF RInv
<1>2. QED
  BY <1>1, Invariance, PTL

\* However often it is resumed, a recovery stops no container but the one of
\* its acceptance (verify_runtime_identity, restore_runtime).
THEOREM OnlyOriginalStopped == Spec => []StopsOnlyTheOriginal
<1>1. RInv => StopsOnlyTheOriginal
  BY DEF RInv
<1>2. QED
  BY <1>1, Invariance, PTL

\* An operation that succeeded has last seen a container of the saved spec,
\* whatever was edited while Compose read the files (restore_runtime).
THEOREM RunsSaved == Spec => []RestoredRunsSaved
<1>1. ASSUME RInv, NEW o \in Operations, Recorded(o), op[o].status = "Succeeded"
      PROVE  LET last == Last(op[o].steps)
             IN last.kind = "observe" /\ last.outcome = "succeeded" /\ Saved(last.box)
  <2>1. SawSaved(Steps(o)) /\ Last(Steps(o)).outcome = "succeeded"
    BY <1>1 DEF RInv, Restored
  <2>2. QED
    BY <2>1 DEF SawSaved, MadeOf, Steps, Last
<1>2. RInv => RestoredRunsSaved
  BY <1>1 DEF RestoredRunsSaved
<1>3. QED
  BY <1>2, Invariance, PTL

\* No Compose command is started while an earlier one may be alive, neither
\* another nor the same once more, and not even one of a process that died
\* (RecoverySession::permits): what is alive stays the command of its step.
THEOREM OneChange == Spec => OneChangeCli
<1>1. ASSUME RInv, [Next]_vars, cli.end = "running"
      PROVE  cli' = cli \/ cli'.end = "ok"
  <2>1. \/ CliWorks
        \/ cli' = cli
        \/ cli' = NoCli
        \/ \E o \in Operations : Runtime(o) \/ Recreate(o)
    BY <1>1 DEF Next, Confirm, Resume, Abandon, RestoreLocked, Inspect, InspectFails, ReconcileBox,
       ReconcileOtherBox, ReconcileArtifact, Execute, GenerateArtifact, CommandDone, CommandFails,
       Created, Observe, FinishObserve, RuntimeFails, Complete, UserUsesDocker, UserEdits, Restart,
       dockerVars, vars
  <2>2. CASE CliWorks
    BY <1>1, <2>2 DEF CliWorks, RInv, CliOK
  <2>3. CASE cli' = NoCli
    BY <2>3 DEF NoCli
  <2>4. CASE \E o \in Operations : Runtime(o) \/ Recreate(o)
    BY <1>1, <2>4, Quiet DEF Runtime, Recreate, At, Waiting
  <2>5. QED
    BY <2>1, <2>2, <2>3, <2>4
<1>2. RInv /\ [Next]_vars => [cli.end = "running" => cli' = cli \/ cli'.end = "ok"]_vars
  BY <1>1
<1>3. QED
  BY <1>2, Invariance, PTL DEF Spec, OneChangeCli
===============================================================================
