------------------------ MODULE OperationJournalProofs ------------------------
(***************************************************************************)
(* The journal is correct for every set of instances, operations, requests *)
(* and plans and for every bound.  The inductive invariant adds to the     *)
(* properties of OperationJournal only that a receipt names an operation   *)
(* that has a row.  One lemma per action shows that it is preserved.       *)
(***************************************************************************)
EXTENDS OperationJournal, TLAPS

ReceiptsNameOperations ==
  \A r \in Requests : receipt[r] # NoReceipt => Recorded(receipt[r].operation)

IInv ==
  /\ TypeOK
  /\ OneUnresolvedOperation
  /\ OperationPinsInstance
  /\ RetirementIsADelete
  /\ OpenStepIsCurrent
  /\ ClosedIsSettled
  /\ AcceptedOnce
  /\ ReceiptsNameOperations

-------------------------------------------------------------------------------
(* Rows and their absence cannot be mistaken for each other. *)
LEMMA Rows ==
  ASSUME TypeOK
  PROVE  /\ \A o \in Operations : Recorded(o) <=> operation[o] \in OperationRows
         /\ \A r \in Requests : receipt[r] # NoReceipt <=> receipt[r] \in ReceiptRows
         /\ \A o \in Operations : Unresolved(o) => operation[o].instance \in Instances
BY NoRowAssumption DEF TypeOK, Recorded, Unresolved, OperationRows, ReceiptRows

(* What the invariant says initially. *)
LEMMA Initially == Init => IInv
<1> SUFFICES ASSUME Init PROVE IInv
  OBVIOUS
<1>1. TypeOK
  BY DEF Init, TypeOK, Lifecycles
<1>2. \A o \in Operations : ~Recorded(o) /\ step[o] = <<>>
  BY DEF Init, Recorded
<1>3. QED
  BY <1>1, <1>2 DEF Init, IInv, OneUnresolvedOperation, OperationPinsInstance,
     RetirementIsADelete, OpenStepIsCurrent, ClosedIsSettled, AcceptedOnce,
     ReceiptsNameOperations, Unresolved, Is, HasStep

-------------------------------------------------------------------------------
(* The three actions that only write operation_steps: an open step stays     *)
(* the last of the current attempt, and closed operations are not reached.   *)

LEMMA OnlySteps ==
  ASSUME IInv,
         UNCHANGED <<instanceVars, operation, receipt, failure>>,
         step' \in [Operations -> Seq(StepRows)],
         OpenStepIsCurrent',
         ClosedIsSettled'
  PROVE  IInv'
<1>1. TypeOK'
  BY DEF IInv, TypeOK, instanceVars
<1>2. OneUnresolvedOperation' /\ OperationPinsInstance' /\ RetirementIsADelete'
  BY DEF IInv, OneUnresolvedOperation, OperationPinsInstance, RetirementIsADelete,
     Unresolved, Recorded, Is, instanceVars
<1>3. AcceptedOnce' /\ ReceiptsNameOperations'
  BY DEF IInv, AcceptedOnce, ReceiptsNameOperations, Recorded
<1>4. QED
  BY <1>1, <1>2, <1>3 DEF IInv

LEMMA RecordStepKeeps ==
  ASSUME IInv, NEW o \in Operations, NEW sequence \in 1..MaxSteps,
         NEW attempt \in 1..MaxAttempt, RecordStep(o, sequence, attempt)
  PROVE  IInv'
<1> DEFINE new == [attempt |-> attempt, outcome |-> Open]
<1>1. /\ step \in [Operations -> Seq(StepRows)]
      /\ step' = [step EXCEPT ![o] = Append(@, new)]
      /\ operation' = operation
      /\ operation[o].attempt = attempt
      /\ Is(o, {"Accepted", "Executing"})
      /\ Len(step[o]) \in Nat
  BY DEF IInv, TypeOK, RecordStep
<1>2. new \in StepRows
  BY JournalAssumption DEF StepRows
<1>3. step' \in [Operations -> Seq(StepRows)]
  BY <1>1, <1>2
<1>4. ~HasStep(o, {Open})
  <2>1. step[o] # <<>> => step[o][Len(step[o])].outcome # Open
    BY DEF RecordStep
  <2>2. QED
    BY <2>1, <1>1 DEF HasStep, IInv, OpenStepIsCurrent
<1>5. OpenStepIsCurrent'
  <2>1. \A p \in Operations : p # o => step'[p] = step[p]
    BY <1>1
  <2>2. Len(step'[o]) = Len(step[o]) + 1 /\ DOMAIN step'[o] = 1..(Len(step[o]) + 1)
    BY <1>1, <1>2
  <2>3. /\ \A n \in 1..Len(step[o]) : step'[o][n] = step[o][n]
        /\ step'[o][Len(step[o]) + 1] = new
    BY <1>1, <1>2
  <2>4. \A n \in 1..Len(step[o]) : step'[o][n].outcome # Open
    BY <2>3, <1>4, <1>1 DEF HasStep
  <2>5. ASSUME NEW n \in DOMAIN step'[o]
        PROVE  /\ Recorded(o)
               /\ step'[o][n].attempt <= operation[o].attempt
               /\ step'[o][n].outcome = Open =>
                    n = Len(step'[o]) /\ step'[o][n].attempt = operation[o].attempt
    <3>1. CASE n = Len(step[o]) + 1
      BY <3>1, <2>2, <2>3, <1>1 DEF Is
    <3>2. CASE n # Len(step[o]) + 1
      <4>1. n \in 1..Len(step[o]) /\ n \in DOMAIN step[o]
        BY <3>2, <2>2, <1>1
      <4>2. QED
        BY <4>1, <2>3, <2>4, <1>1 DEF IInv, OpenStepIsCurrent, Is
    <3>3. QED
      BY <3>1, <3>2
  <2>6. QED
    BY <2>1, <2>5, <1>1 DEF IInv, OpenStepIsCurrent, Recorded
<1>6. ClosedIsSettled'
  BY <1>1 DEF IInv, ClosedIsSettled, Is, Closed, HasStep, Recorded
<1>7. QED
  BY <1>3, <1>5, <1>6, OnlySteps DEF RecordStep

(* Writing the outcome of one step of o that was open or unknown. *)
LEMMA SettleStep ==
  ASSUME IInv, NEW o \in Operations, NEW sequence \in DOMAIN step[o],
         NEW outcome \in Outcomes,
         Is(o, Closed) => step[o][sequence].outcome = Open,
         step' = [step EXCEPT ![o][sequence].outcome = outcome],
         UNCHANGED <<instanceVars, operation, receipt, failure>>
  PROVE  IInv'
<1>1. step \in [Operations -> Seq(StepRows)] /\ step[o] \in Seq(StepRows)
  BY DEF IInv, TypeOK
<1>2. step[o][sequence] \in StepRows
  BY <1>1
<1>3. /\ [step[o][sequence] EXCEPT !.outcome = outcome] \in StepRows
      /\ [step[o][sequence] EXCEPT !.outcome = outcome].attempt = step[o][sequence].attempt
      /\ [step[o][sequence] EXCEPT !.outcome = outcome].outcome = outcome
  BY <1>2 DEF StepRows
<1>4. /\ step'[o] = [step[o] EXCEPT ![sequence] = [step[o][sequence] EXCEPT !.outcome = outcome]]
      /\ \A p \in Operations : p # o => step'[p] = step[p]
      /\ step' \in [Operations -> Seq(StepRows)]
  BY <1>1, <1>3
<1>5. /\ Len(step'[o]) = Len(step[o])
      /\ DOMAIN step'[o] = DOMAIN step[o]
      /\ \A n \in DOMAIN step[o] : n # sequence => step'[o][n] = step[o][n]
      /\ step'[o][sequence].attempt = step[o][sequence].attempt
      /\ step'[o][sequence].outcome = outcome
  BY <1>1, <1>3, <1>4
<1>6. outcome # Open
  BY DEF Outcomes, Open
<1>7. OpenStepIsCurrent'
  BY <1>4, <1>5, <1>6 DEF IInv, OpenStepIsCurrent, Recorded
<1>8. ClosedIsSettled'
  BY <1>4, <1>5, <1>6 DEF IInv, ClosedIsSettled, Is, Recorded, HasStep, Closed
<1>9. QED
  BY <1>4, <1>7, <1>8, OnlySteps

LEMMA FinishStepKeeps ==
  ASSUME IInv, NEW o \in Operations, NEW sequence \in 1..MaxSteps,
         NEW outcome \in Outcomes, FinishStep(o, sequence, outcome)
  PROVE  IInv'
BY SettleStep DEF FinishStep

LEMMA ReconcileStepKeeps ==
  ASSUME IInv, NEW o \in Operations, NEW sequence \in 1..MaxSteps,
         NEW outcome \in Outcomes, ReconcileStep(o, sequence, outcome)
  PROVE  IInv'
<1>1. ~Is(o, Closed)
  BY DEF ReconcileStep, Is, Closed, Paused
<1>2. QED
  BY <1>1, SettleStep DEF ReconcileStep

-------------------------------------------------------------------------------
(* The actions that give an unresolved operation another status or attempt   *)
(* and leave its instance alone.                                             *)

(* What such an action does to the table operations. *)
Rewritten(o, status, attempt) ==
  /\ operation' \in [Operations -> OperationRows \cup {NoOperation}]
  /\ operation'[o] \in OperationRows
  /\ operation'[o].instance = operation[o].instance
  /\ operation'[o].kind = operation[o].kind
  /\ operation'[o].expected = operation[o].expected
  /\ operation'[o].attempt = attempt
  /\ operation'[o].status = status
  /\ \A p \in Operations : p # o => operation'[p] = operation[p]

LEMMA ExceptRewrites ==
  ASSUME TypeOK, NEW o \in Operations, Recorded(o),
         NEW status \in Statuses, NEW attempt \in Nat,
         operation' = [operation EXCEPT ![o] = [@ EXCEPT !.attempt = attempt, !.status = status]]
  PROVE  Rewritten(o, status, attempt)
<1> DEFINE new == [operation[o] EXCEPT !.attempt = attempt, !.status = status]
<1>1. operation[o] \in OperationRows
  BY Rows
<1>2. /\ new \in OperationRows
      /\ new.instance = operation[o].instance
      /\ new.kind = operation[o].kind
      /\ new.expected = operation[o].expected
      /\ new.attempt = attempt
      /\ new.status = status
  BY <1>1 DEF OperationRows
<1>3. operation \in [Operations -> OperationRows \cup {NoOperation}]
  BY DEF TypeOK
<1>4. operation' = [operation EXCEPT ![o] = new]
  OBVIOUS
<1> HIDE DEF new
<1>5. operation'[o] = new /\ \A p \in Operations : p # o => operation'[p] = operation[p]
  BY <1>3, <1>4
<1>6. operation' \in [Operations -> OperationRows \cup {NoOperation}]
  BY <1>2, <1>3, <1>4
<1>7. QED
  BY <1>2, <1>5, <1>6 DEF Rewritten

LEMMA StatusWritten ==
  ASSUME IInv, NEW o \in Operations, Unresolved(o),
         NEW status \in Statuses, NEW attempt \in Nat, attempt >= operation[o].attempt,
         Rewritten(o, status, attempt),
         failure' \in [Operations -> Paused \cup {"none"}],
         UNCHANGED <<instanceVars, step, receipt>>,
         status \in Closed =>
           /\ operation[o].kind # "delete"
           /\ ~HasStep(o, {Open}),
         status = "Abandoned" => ~HasStep(o, {"unknown"}),
         attempt # operation[o].attempt => ~HasStep(o, {Open})
  PROVE  IInv'
<1>1. operation[o] \in OperationRows
  BY Rows DEF IInv, Unresolved
<1>2. /\ lifecycle' = lifecycle
      /\ revision' = revision
      /\ step' = step
      /\ receipt' = receipt
  BY DEF instanceVars
<1>3. \A p \in Operations : p # o => operation'[p] = operation[p]
  BY DEF Rewritten
<1>4. /\ operation'[o] \in OperationRows
      /\ operation'[o].instance = operation[o].instance
      /\ operation'[o].kind = operation[o].kind
      /\ operation'[o].expected = operation[o].expected
      /\ operation'[o].attempt = attempt
      /\ operation'[o].status = status
  BY DEF Rewritten
<1>5. Recorded(o) /\ Recorded(o)'
  BY <1>1, <1>4, NoRowAssumption DEF Recorded, OperationRows
<1>6. TypeOK'
  BY <1>2 DEF IInv, TypeOK, Rewritten
<1>7. \A p \in Operations :
        /\ Recorded(p)' <=> Recorded(p)
        /\ operation'[p].instance = operation[p].instance
        /\ operation'[p].kind = operation[p].kind
        /\ operation'[p].expected = operation[p].expected
        /\ Unresolved(p)' => Unresolved(p)
  BY <1>3, <1>4, <1>5 DEF Recorded, Unresolved
<1>8. OneUnresolvedOperation'
  BY <1>7 DEF IInv, OneUnresolvedOperation
<1>9. OperationPinsInstance'
  <2>1. ASSUME NEW p \in Operations, Unresolved(p)'
        PROVE  IF operation[p].kind = "delete"
               THEN /\ lifecycle[operation[p].instance] = "retiring"
                    /\ revision[operation[p].instance] = operation[p].expected + 1
               ELSE /\ lifecycle[operation[p].instance] = "managed"
                    /\ revision[operation[p].instance] = operation[p].expected
    BY <2>1, <1>7 DEF IInv, OperationPinsInstance
  <2>2. QED
    BY <2>1, <1>2, <1>7 DEF OperationPinsInstance
<1>10. RetirementIsADelete'
  <2>1. ~Is(o, {"Succeeded"})
    BY DEF Unresolved, Is, Closed
  <2>2. \A p \in Operations : Is(p, {"Succeeded"}) => Is(p, {"Succeeded"})'
    BY <1>3, <2>1 DEF Is, Recorded
  <2>3. \A p \in Operations : Unresolved(p) /\ operation[p].kind = "delete" => Unresolved(p)'
    BY <1>3, <1>4, <1>5 DEF Unresolved, Recorded
  <2>4. ASSUME NEW i \in Instances, lifecycle[i] = "retiring"
        PROVE  \E p \in Operations :
                 Unresolved(p)' /\ operation'[p].kind = "delete" /\ operation'[p].instance = i
    <3>1. PICK p \in Operations :
            Unresolved(p) /\ operation[p].kind = "delete" /\ operation[p].instance = i
      BY <2>4 DEF IInv, RetirementIsADelete
    <3>2. QED
      BY <3>1, <2>3, <1>7
  <2>5. ASSUME NEW i \in Instances, lifecycle[i] = "retired"
        PROVE  \E p \in Operations :
                 Is(p, {"Succeeded"})' /\ operation'[p].kind = "delete" /\ operation'[p].instance = i
    <3>1. PICK p \in Operations :
            Is(p, {"Succeeded"}) /\ operation[p].kind = "delete" /\ operation[p].instance = i
      BY <2>5 DEF IInv, RetirementIsADelete
    <3>2. QED
      BY <3>1, <2>2, <1>7
  <2>6. QED
    BY <2>4, <2>5, <1>2 DEF RetirementIsADelete
<1>11. OpenStepIsCurrent'
  <2>1. operation[o].attempt \in Nat
    BY <1>1 DEF OperationRows
  <2>2. ASSUME NEW n \in DOMAIN step[o]
        PROVE  /\ step[o][n].attempt <= attempt
               /\ step[o][n].outcome = Open => n = Len(step[o]) /\ step[o][n].attempt = attempt
    <3>1. step[o][n] \in StepRows
      BY DEF IInv, TypeOK
    <3>2. step[o][n].attempt \in Nat
      BY <3>1 DEF StepRows
    <3>3. QED
      BY <2>1, <3>2 DEF IInv, OpenStepIsCurrent, HasStep
  <2>3. \A p \in Operations : p # o => \A n \in DOMAIN step[p] :
          /\ Recorded(p)
          /\ step[p][n].attempt <= operation'[p].attempt
          /\ step[p][n].outcome = Open => n = Len(step[p]) /\ step[p][n].attempt = operation'[p].attempt
    BY <1>3 DEF IInv, OpenStepIsCurrent
  <2>4. ASSUME NEW p \in Operations, NEW n \in DOMAIN step[p]
        PROVE  /\ Recorded(p)'
               /\ step[p][n].attempt <= operation'[p].attempt
               /\ step[p][n].outcome = Open => n = Len(step[p]) /\ step[p][n].attempt = operation'[p].attempt
    BY <2>2, <2>3, <1>4, <1>5, <1>7
  <2>5. QED
    BY <2>4, <1>2 DEF OpenStepIsCurrent
<1>12. ClosedIsSettled'
  BY <1>2, <1>3, <1>4 DEF IInv, ClosedIsSettled, Is, HasStep, Recorded, Closed
<1>13. AcceptedOnce'
  <2>1. ASSUME NEW p \in Operations, Recorded(p)'
        PROVE  \E r \in Requests :
                 /\ receipt[r] # NoReceipt
                 /\ receipt[r].operation = p
                 /\ receipt[r].instance = operation'[p].instance
    BY <2>1, <1>7 DEF IInv, AcceptedOnce
  <2>2. QED
    BY <2>1, <1>2 DEF IInv, AcceptedOnce
<1>14. ReceiptsNameOperations'
  <2>1. \A r \in Requests : receipt[r] # NoReceipt => receipt[r].operation \in Operations
    BY Rows DEF IInv, ReceiptRows
  <2>2. QED
    BY <2>1, <1>2, <1>7 DEF IInv, ReceiptsNameOperations
<1>15. QED
  BY <1>6, <1>8, <1>9, <1>10, <1>11, <1>12, <1>13, <1>14 DEF IInv

(* write_status is the case of an unchanged attempt. *)
LEMMA StatusOnlyWritten ==
  ASSUME IInv, NEW o \in Operations, Unresolved(o),
         NEW status \in Statuses, WriteStatus(o, status),
         UNCHANGED <<instanceVars, step, receipt>>,
         status \in Closed =>
           /\ operation[o].kind # "delete"
           /\ ~HasStep(o, {Open}),
         status = "Abandoned" => ~HasStep(o, {"unknown"})
  PROVE  IInv'
<1>1. operation[o] \in OperationRows
  BY Rows DEF IInv, Unresolved
<1>2. operation[o].attempt \in Nat
  BY <1>1 DEF OperationRows
<1>3. Rewritten(o, status, operation[o].attempt)
  <2>1. operation' = [operation EXCEPT ![o] =
                        [@ EXCEPT !.attempt = operation[o].attempt, !.status = status]]
    BY <1>1 DEF WriteStatus, IInv, TypeOK, OperationRows
  <2>2. QED
    BY <1>2, <2>1, ExceptRewrites DEF WriteStatus, IInv, TypeOK, Unresolved
<1>4. failure' \in [Operations -> Paused \cup {"none"}]
  BY DEF WriteStatus, Remembered, IInv, TypeOK
<1>5. operation[o].attempt >= operation[o].attempt
  BY <1>2
<1>6. QED
  BY <1>2, <1>3, <1>4, <1>5, StatusWritten

LEMMA SetStatusKeeps ==
  ASSUME IInv, NEW o \in Operations, NEW status \in Statuses, SetStatus(o, status),
         status = "Succeeded" => operation[o].kind # "delete"
  PROVE  IInv'
BY StatusOnlyWritten DEF SetStatus, Closed

LEMMA AbandonKeeps ==
  ASSUME IInv, NEW o \in Operations, NEW attempt, Abandon(o, attempt)
  PROVE  IInv'
BY StatusOnlyWritten DEF Abandon, Is, Unresolved, Paused, Closed, HasStep, Statuses

LEMMA RetryKeeps ==
  ASSUME IInv, NEW o \in Operations, Retry(o)
  PROVE  IInv'
<1>1. Unresolved(o) /\ operation[o] \in OperationRows
  BY Rows DEF IInv, Retry, Is, Unresolved, Paused, Closed
<1>2. /\ operation[o].attempt + 1 \in Nat
      /\ operation[o].attempt + 1 >= operation[o].attempt
  BY <1>1 DEF OperationRows
<1>3. /\ failure' \in [Operations -> Paused \cup {"none"}]
      /\ UNCHANGED <<instanceVars, step, receipt>>
      /\ ~HasStep(o, {Open})
  BY DEF Retry, IInv, TypeOK
<1>4. "Executing" \in Statuses /\ "Executing" \notin Closed
  BY DEF Statuses, Closed
<1>5. Rewritten(o, "Executing", operation[o].attempt + 1)
  <2>1. operation' = [operation EXCEPT ![o] =
                        [@ EXCEPT !.attempt = operation[o].attempt + 1, !.status = "Executing"]]
    BY DEF Retry, IInv, TypeOK
  <2>2. QED
    BY <1>1, <1>2, <1>4, <2>1, ExceptRewrites DEF Retry, IInv, TypeOK, Unresolved
<1>6. QED
  BY <1>1, <1>2, <1>3, <1>4, <1>5, StatusWritten

-------------------------------------------------------------------------------
(* A restart, a rename and the completion of a delete.                       *)

LEMMA RecoverOnStartupKeeps ==
  ASSUME IInv, RecoverOnStartup
  PROVE  IInv'
<1>1. /\ lifecycle' = lifecycle
      /\ revision' = revision
      /\ step' = step
      /\ receipt' = receipt
  BY DEF RecoverOnStartup, instanceVars
<1>2. ASSUME NEW o \in Operations
      PROVE  /\ operation'[o] \in OperationRows \cup {NoOperation}
             /\ Recorded(o)' <=> Recorded(o)
             /\ operation'[o].instance = operation[o].instance
             /\ operation'[o].kind = operation[o].kind
             /\ operation'[o].expected = operation[o].expected
             /\ operation'[o].attempt = operation[o].attempt
             /\ Unresolved(o)' <=> Unresolved(o)
             /\ \A statuses \in SUBSET Closed : Is(o, statuses)' <=> Is(o, statuses)
  <2>1. CASE ~Is(o, {"Executing"})
    BY <2>1 DEF RecoverOnStartup, IInv, TypeOK, Recorded, Unresolved, Is
  <2>2. CASE Is(o, {"Executing"})
    <3>1. operation[o] \in OperationRows /\ operation[o].status = "Executing"
      BY <2>2, Rows DEF IInv, Is
    <3>2. operation'[o] = [operation[o] EXCEPT !.status = "OutcomeUnknown"]
      BY <2>2 DEF RecoverOnStartup
    <3>3. /\ operation'[o] \in OperationRows
          /\ operation'[o].instance = operation[o].instance
          /\ operation'[o].kind = operation[o].kind
          /\ operation'[o].expected = operation[o].expected
          /\ operation'[o].attempt = operation[o].attempt
          /\ operation'[o].status = "OutcomeUnknown"
      BY <3>1, <3>2 DEF OperationRows, Statuses, Paused
    <3>4. Recorded(o) /\ Recorded(o)'
      BY <3>1, <3>3, NoRowAssumption DEF Recorded, OperationRows
    <3>5. QED
      BY <3>1, <3>3, <3>4 DEF Unresolved, Is, Closed
  <2>3. QED
    BY <2>1, <2>2
<1>3. TypeOK'
  <2>1. operation' \in [Operations -> OperationRows \cup {NoOperation}]
    BY <1>2 DEF RecoverOnStartup
  <2>2. failure' \in [Operations -> Paused \cup {"none"}]
    BY DEF RecoverOnStartup, Remembered, IInv, TypeOK, Paused
  <2>3. QED
    BY <1>1, <2>1, <2>2 DEF IInv, TypeOK
<1>4. OneUnresolvedOperation'
  BY <1>2 DEF IInv, OneUnresolvedOperation
<1>5. OperationPinsInstance'
  <2>1. ASSUME NEW p \in Operations, Unresolved(p)'
        PROVE  IF operation[p].kind = "delete"
               THEN /\ lifecycle[operation[p].instance] = "retiring"
                    /\ revision[operation[p].instance] = operation[p].expected + 1
               ELSE /\ lifecycle[operation[p].instance] = "managed"
                    /\ revision[operation[p].instance] = operation[p].expected
    BY <2>1, <1>2 DEF IInv, OperationPinsInstance
  <2>2. QED
    BY <2>1, <1>1, <1>2 DEF OperationPinsInstance
<1>6. RetirementIsADelete'
  <2>1. {"Succeeded"} \in SUBSET Closed
    BY DEF Closed
  <2>2. QED
    BY <1>1, <1>2, <2>1 DEF IInv, RetirementIsADelete
<1>7. OpenStepIsCurrent'
  BY <1>1, <1>2 DEF IInv, OpenStepIsCurrent
<1>8. ClosedIsSettled'
  <2>1. Closed \in SUBSET Closed /\ {"Abandoned"} \in SUBSET Closed
    BY DEF Closed
  <2>2. \A outcomes : \A o \in Operations : HasStep(o, outcomes)' <=> HasStep(o, outcomes)
    BY <1>1 DEF HasStep
  <2>3. QED
    BY <1>2, <2>1, <2>2 DEF IInv, ClosedIsSettled
<1>9. AcceptedOnce'
  BY <1>1, <1>2 DEF IInv, AcceptedOnce
<1>10. ReceiptsNameOperations'
  <2>1. \A r \in Requests : receipt[r] # NoReceipt => receipt[r].operation \in Operations
    BY Rows DEF IInv, ReceiptRows
  <2>2. QED
    BY <2>1, <1>1, <1>2 DEF IInv, ReceiptsNameOperations
<1>11. QED
  BY <1>3, <1>4, <1>5, <1>6, <1>7, <1>8, <1>9, <1>10 DEF IInv

LEMMA RenameKeeps ==
  ASSUME IInv, NEW i \in Instances, NEW expected \in 1..MaxRevision, Rename(i, expected)
  PROVE  IInv'
<1>1. /\ lifecycle' = lifecycle
      /\ operation' = operation
      /\ step' = step
      /\ receipt' = receipt
      /\ failure' = failure
  BY DEF Rename
<1>2. /\ revision' \in [Instances -> Nat]
      /\ \A j \in Instances : j # i => revision'[j] = revision[j]
  BY DEF Rename, IInv, TypeOK
<1>3. TypeOK'
  BY <1>1, <1>2 DEF IInv, TypeOK
<1>4. \A o \in Operations : Unresolved(o) => operation[o].instance \in Instances \ {i}
  BY Rows DEF Rename, Busy, IInv
<1>5. OperationPinsInstance'
  BY <1>1, <1>2, <1>4 DEF IInv, OperationPinsInstance, Unresolved, Recorded
<1>6. OneUnresolvedOperation' /\ RetirementIsADelete'
  BY <1>1 DEF IInv, OneUnresolvedOperation, RetirementIsADelete, Unresolved, Recorded, Is
<1>7. OpenStepIsCurrent' /\ ClosedIsSettled'
  BY <1>1 DEF IInv, OpenStepIsCurrent, ClosedIsSettled, HasStep, Recorded, Is
<1>8. AcceptedOnce' /\ ReceiptsNameOperations'
  BY <1>1 DEF IInv, AcceptedOnce, ReceiptsNameOperations, Recorded
<1>9. QED
  BY <1>3, <1>5, <1>6, <1>7, <1>8 DEF IInv

LEMMA CompleteDeleteKeeps ==
  ASSUME IInv, NEW o \in Operations, CompleteDelete(o)
  PROVE  IInv'
<1> DEFINE i == operation[o].instance
<1>1. /\ operation[o] \in OperationRows
      /\ operation[o].status = "Executing"
      /\ operation[o].kind = "delete"
      /\ Unresolved(o)
      /\ i \in Instances
  BY Rows DEF CompleteDelete, Is, IInv, Unresolved, Closed, OperationRows
<1>2. Rewritten(o, "Succeeded", operation[o].attempt)
  <2>1. operation' = [operation EXCEPT ![o] =
                        [@ EXCEPT !.attempt = operation[o].attempt, !.status = "Succeeded"]]
    BY <1>1 DEF CompleteDelete, WriteStatus, IInv, TypeOK, OperationRows
  <2>2. operation[o].attempt \in Nat
    BY <1>1 DEF OperationRows
  <2>3. "Succeeded" \in Statuses
    BY DEF Statuses, Closed
  <2>4. QED
    BY <1>1, <2>1, <2>2, <2>3, ExceptRewrites DEF IInv, Unresolved
<1>3. /\ operation'[o] \in OperationRows
      /\ operation'[o].status = "Succeeded"
      /\ operation'[o].instance = i
      /\ operation'[o].kind = "delete"
      /\ operation'[o].attempt = operation[o].attempt
      /\ \A p \in Operations : p # o => operation'[p] = operation[p]
      /\ Recorded(o) /\ Recorded(o)'
      /\ Is(o, {"Succeeded"})'
  BY <1>1, <1>2, NoRowAssumption DEF Rewritten, Recorded, OperationRows, Is
<1>4. /\ step' = step
      /\ receipt' = receipt
      /\ lifecycle' = [lifecycle EXCEPT ![i] = "retired"]
      /\ revision' = [revision EXCEPT ![i] = @ + 1]
      /\ ~HasStep(o, {Open})
      /\ failure' \in [Operations -> Paused \cup {"none"}]
  BY DEF CompleteDelete, WriteStatus, Remembered, IInv, TypeOK
<1>5. /\ lifecycle'[i] = "retired"
      /\ \A j \in Instances : j # i => lifecycle'[j] = lifecycle[j] /\ revision'[j] = revision[j]
      /\ lifecycle' \in [Instances -> Lifecycles]
      /\ revision' \in [Instances -> Nat]
  BY <1>1, <1>4 DEF IInv, TypeOK, Lifecycles
<1>6. TypeOK'
  BY <1>2, <1>4, <1>5 DEF IInv, TypeOK, Rewritten
<1>7. \A p \in Operations :
        /\ Recorded(p)' <=> Recorded(p)
        /\ operation'[p].instance = operation[p].instance
        /\ operation'[p].kind = operation[p].kind
        /\ operation'[p].attempt = operation[p].attempt
  BY <1>1, <1>3 DEF Recorded
<1>8. \A p \in Operations : Unresolved(p)' <=> Unresolved(p) /\ p # o
  BY <1>1, <1>3 DEF Unresolved, Recorded, Closed
<1>9. OneUnresolvedOperation'
  BY <1>7, <1>8 DEF IInv, OneUnresolvedOperation
<1>10. \A p \in Operations : Unresolved(p)' => operation[p].instance \in Instances \ {i}
  BY <1>1, <1>8, Rows DEF IInv, OneUnresolvedOperation
<1>11. OperationPinsInstance'
  BY <1>3, <1>5, <1>8, <1>10 DEF IInv, OperationPinsInstance
<1>12. RetirementIsADelete'
  <2>1. \A p \in Operations : Is(p, {"Succeeded"}) => Is(p, {"Succeeded"})'
    BY <1>3 DEF Is, Recorded
  <2>2. ASSUME NEW j \in Instances, j # i, lifecycle[j] = "retiring"
        PROVE  \E p \in Operations :
                 Unresolved(p)' /\ operation'[p].kind = "delete" /\ operation'[p].instance = j
    <3>1. PICK p \in Operations :
            Unresolved(p) /\ operation[p].kind = "delete" /\ operation[p].instance = j
      BY <2>2 DEF IInv, RetirementIsADelete
    <3>2. QED
      BY <3>1, <2>2, <1>7, <1>8
  <2>3. ASSUME NEW j \in Instances, j # i, lifecycle[j] = "retired"
        PROVE  \E p \in Operations :
                 Is(p, {"Succeeded"})' /\ operation'[p].kind = "delete" /\ operation'[p].instance = j
    <3>1. PICK p \in Operations :
            Is(p, {"Succeeded"}) /\ operation[p].kind = "delete" /\ operation[p].instance = j
      BY <2>3 DEF IInv, RetirementIsADelete
    <3>2. QED
      BY <3>1, <2>1, <1>7
  <2>4. QED
    BY <2>2, <2>3, <1>3, <1>5 DEF RetirementIsADelete
<1>13. OpenStepIsCurrent'
  BY <1>4, <1>7 DEF IInv, OpenStepIsCurrent
<1>14. ClosedIsSettled'
  <2>1. ~Is(o, {"Abandoned"})'
    BY <1>3 DEF Is
  <2>2. QED
    BY <2>1, <1>3, <1>4 DEF IInv, ClosedIsSettled, Is, HasStep, Recorded
<1>15. AcceptedOnce'
  BY <1>4, <1>7 DEF IInv, AcceptedOnce
<1>16. ReceiptsNameOperations'
  <2>1. \A r \in Requests : receipt[r] # NoReceipt => receipt[r].operation \in Operations
    BY Rows DEF IInv, ReceiptRows
  <2>2. QED
    BY <2>1, <1>4, <1>7 DEF IInv, ReceiptsNameOperations
<1>17. QED
  BY <1>6, <1>9, <1>11, <1>12, <1>13, <1>14, <1>15, <1>16 DEF IInv

-------------------------------------------------------------------------------
(* Acceptance: a new row for a free instance, with a new receipt.            *)

LEMMA RowInserted ==
  ASSUME IInv, NEW r \in Requests, NEW o \in Operations, NEW i \in Instances,
         NEW plan \in Plans \cup {NoPlan}, NEW kind \in Kinds, NEW expected \in Nat,
         NEW standing \in {"managed", "retiring"}, NEW version \in Nat,
         ~Known(r, plan), ~Recorded(o), ~Busy(i),
         operation' = [operation EXCEPT ![o] = NewOperation(i, kind, expected)],
         receipt' = [receipt EXCEPT ![r] = [operation |-> o, instance |-> i, plan |-> plan]],
         lifecycle' = [lifecycle EXCEPT ![i] = standing],
         revision' = [revision EXCEPT ![i] = version],
         UNCHANGED <<step, failure>>,
         lifecycle[i] \in {"unregistered", "managed"},
         IF kind = "delete" THEN standing = "retiring" /\ version = expected + 1
                            ELSE standing = "managed" /\ version = expected
  PROVE  IInv'
<1> DEFINE row == NewOperation(i, kind, expected)
           answer == [operation |-> o, instance |-> i, plan |-> plan]
<1>1. /\ row \in OperationRows
      /\ row.instance = i /\ row.kind = kind /\ row.status = "Accepted"
      /\ row.expected = expected
  BY DEF NewOperation, OperationRows, Statuses
<1>2. /\ answer \in ReceiptRows
      /\ answer.operation = o /\ answer.instance = i /\ answer.plan = plan
  BY DEF ReceiptRows
<1>3. /\ operation'[o] = row
      /\ \A p \in Operations : p # o => operation'[p] = operation[p]
      /\ operation' \in [Operations -> OperationRows \cup {NoOperation}]
  BY <1>1 DEF IInv, TypeOK
<1>4. /\ receipt'[r] = answer
      /\ \A q \in Requests : q # r => receipt'[q] = receipt[q]
      /\ receipt' \in [Requests -> ReceiptRows \cup {NoReceipt}]
  BY <1>2 DEF IInv, TypeOK
<1>5. /\ lifecycle'[i] = standing /\ revision'[i] = version
      /\ \A j \in Instances : j # i => lifecycle'[j] = lifecycle[j] /\ revision'[j] = revision[j]
      /\ lifecycle' \in [Instances -> Lifecycles]
      /\ revision' \in [Instances -> Nat]
  BY DEF IInv, TypeOK, Lifecycles
<1>6. row # NoOperation /\ answer # NoReceipt
  BY <1>1, <1>2, NoRowAssumption DEF OperationRows, ReceiptRows
<1> HIDE DEF row, answer
<1>7. TypeOK'
  BY <1>3, <1>4, <1>5 DEF IInv, TypeOK
<1>8. /\ Recorded(o)' /\ Unresolved(o)'
      /\ \A p \in Operations : p # o =>
           (Recorded(p)' <=> Recorded(p)) /\ (Unresolved(p)' <=> Unresolved(p))
  BY <1>1, <1>3, <1>6 DEF Recorded, Unresolved, Closed
<1>9. \A p \in Operations : Unresolved(p) => p # o /\ operation[p].instance \in Instances \ {i}
  BY Rows DEF IInv, Busy, Unresolved
<1>10. OneUnresolvedOperation'
  BY <1>1, <1>3, <1>8, <1>9 DEF IInv, OneUnresolvedOperation
<1>11. OperationPinsInstance'
  <2>1. ASSUME NEW p \in Operations, Unresolved(p)', p # o
        PROVE  IF operation[p].kind = "delete"
               THEN /\ lifecycle'[operation[p].instance] = "retiring"
                    /\ revision'[operation[p].instance] = operation[p].expected + 1
               ELSE /\ lifecycle'[operation[p].instance] = "managed"
                    /\ revision'[operation[p].instance] = operation[p].expected
    <3>1. Unresolved(p) /\ operation[p].instance \in Instances \ {i}
      BY <2>1, <1>8, <1>9
    <3>2. QED
      BY <3>1, <1>5 DEF IInv, OperationPinsInstance
  <2>2. QED
    BY <2>1, <1>1, <1>3, <1>5 DEF OperationPinsInstance
<1>12. RetirementIsADelete'
  <2>1. \A p \in Operations : Is(p, {"Succeeded"}) => p # o /\ Is(p, {"Succeeded"})'
    BY <1>3 DEF Is, Recorded
  <2>2. ASSUME NEW j \in Instances, lifecycle'[j] = "retiring"
        PROVE  \E p \in Operations :
                 Unresolved(p)' /\ operation'[p].kind = "delete" /\ operation'[p].instance = j
    <3>1. CASE j = i
      BY <2>2, <3>1, <1>1, <1>3, <1>5, <1>8
    <3>2. CASE j # i
      <4>1. PICK p \in Operations :
              Unresolved(p) /\ operation[p].kind = "delete" /\ operation[p].instance = j
        BY <2>2, <3>2, <1>5 DEF IInv, RetirementIsADelete
      <4>2. QED
        BY <4>1, <1>3, <1>8, <1>9
    <3>3. QED
      BY <3>1, <3>2
  <2>3. ASSUME NEW j \in Instances, lifecycle'[j] = "retired"
        PROVE  \E p \in Operations :
                 Is(p, {"Succeeded"})' /\ operation'[p].kind = "delete" /\ operation'[p].instance = j
    <3>1. PICK p \in Operations :
            Is(p, {"Succeeded"}) /\ operation[p].kind = "delete" /\ operation[p].instance = j
      BY <2>3, <1>5 DEF IInv, RetirementIsADelete
    <3>2. QED
      BY <3>1, <2>1, <1>3
  <2>4. QED
    BY <2>2, <2>3 DEF RetirementIsADelete
<1>13. OpenStepIsCurrent' /\ ClosedIsSettled'
  <2>1. \A n \in DOMAIN step[o] : FALSE
    BY DEF IInv, OpenStepIsCurrent
  <2>2. step' = step
    OBVIOUS
  <2>3. OpenStepIsCurrent'
    BY <2>1, <2>2, <1>3, <1>8 DEF IInv, OpenStepIsCurrent
  <2>4. \A statuses : \A p \in Operations : p # o => (Is(p, statuses)' <=> Is(p, statuses))
    BY <1>3, <1>8 DEF Is
  <2>5. \A outcomes : \A p \in Operations : HasStep(p, outcomes)' <=> HasStep(p, outcomes)
    BY <2>2 DEF HasStep
  <2>6. \A outcomes : ~HasStep(o, outcomes)
    BY <2>1 DEF HasStep
  <2>7. ClosedIsSettled'
    BY <2>4, <2>5, <2>6 DEF IInv, ClosedIsSettled
  <2>8. QED
    BY <2>3, <2>7
<1>14. /\ receipt[r] = NoReceipt
       /\ plan # NoPlan => \A q \in Requests : receipt[q] # NoReceipt => receipt[q].plan # plan
  BY DEF Known
<1>15. \A q \in Requests : receipt[q] # NoReceipt =>
         receipt[q].operation \in Operations /\ receipt[q].operation # o
  BY Rows DEF IInv, ReceiptRows, ReceiptsNameOperations
<1>16. AcceptedOnce'
  <2>1. ASSUME NEW p \in Operations, Recorded(p)'
        PROVE  \E q \in Requests :
                 /\ receipt'[q] # NoReceipt
                 /\ receipt'[q].operation = p
                 /\ receipt'[q].instance = operation'[p].instance
    <3>1. CASE p = o
      BY <3>1, <1>1, <1>2, <1>3, <1>4, <1>6
    <3>2. CASE p # o
      <4>1. PICK q \in Requests :
              /\ receipt[q] # NoReceipt
              /\ receipt[q].operation = p
              /\ receipt[q].instance = operation[p].instance
        BY <2>1, <3>2, <1>8 DEF IInv, AcceptedOnce
      <4>2. q # r
        BY <4>1, <1>14
      <4>3. QED
        BY <3>2, <4>1, <4>2, <1>3, <1>4
    <3>3. QED
      BY <3>1, <3>2
  <2>2. ASSUME NEW q \in Requests, NEW s \in Requests, q # s,
               receipt'[q] # NoReceipt, receipt'[s] # NoReceipt
        PROVE  /\ receipt'[q].operation # receipt'[s].operation
               /\ receipt'[q].plan = NoPlan \/ receipt'[q].plan # receipt'[s].plan
    <3>1. CASE q = r
      BY <2>2, <3>1, <1>2, <1>4, <1>14, <1>15
    <3>2. CASE s = r
      BY <2>2, <3>2, <1>2, <1>4, <1>14, <1>15
    <3>3. CASE q # r /\ s # r
      BY <2>2, <3>3, <1>4 DEF IInv, AcceptedOnce
    <3>4. QED
      BY <3>1, <3>2, <3>3
  <2>3. QED
    BY <2>1, <2>2 DEF AcceptedOnce
<1>17. ReceiptsNameOperations'
  <2>1. ASSUME NEW q \in Requests, receipt'[q] # NoReceipt
        PROVE  Recorded(receipt[q].operation)'
    <3>1. CASE q = r
      BY <3>1, <1>2, <1>4, <1>8
    <3>2. CASE q # r
      BY <2>1, <3>2, <1>4, <1>8, <1>15 DEF IInv, ReceiptsNameOperations
    <3>3. QED
      BY <3>1, <3>2
  <2>2. QED
    BY <2>1 DEF ReceiptsNameOperations
<1>18. QED
  BY <1>7, <1>10, <1>11, <1>12, <1>13, <1>16, <1>17 DEF IInv

LEMMA CommitPlanKeeps ==
  ASSUME IInv, NEW r \in Requests, NEW o \in Operations, NEW i \in Instances,
         NEW plan \in Plans, NEW source, NEW sourceRevision,
         CommitPlan(r, o, i, plan, source, sourceRevision)
  PROVE  IInv'
<1> DEFINE kind == IF source = NoSource THEN "create" ELSE "clone"
<1>1. kind \in Kinds /\ kind # "delete"
  BY DEF Kinds, CreationKinds
<1>2. ~Busy(i)
  BY DEF CommitPlan, Busy, IInv, OperationPinsInstance
<1>3. QED
  BY <1>1, <1>2, RowInserted DEF CommitPlan

LEMMA AcceptKeeps ==
  ASSUME IInv, NEW r \in Requests, NEW o \in Operations, NEW i \in Instances,
         NEW kind \in ChangeKinds, NEW expected \in 1..MaxRevision,
         Accept(r, o, i, kind, expected)
  PROVE  IInv'
<1> DEFINE standing == IF kind = "delete" THEN "retiring" ELSE "managed"
           version == IF kind = "delete" THEN expected + 1 ELSE expected
<1>1. kind \in Kinds /\ expected \in Nat
  BY DEF Kinds
<1>2. standing \in {"managed", "retiring"} /\ version \in Nat
  BY <1>1
<1>3. lifecycle' = [lifecycle EXCEPT ![i] = standing]
  BY DEF Accept, IInv, TypeOK
<1>4. revision' = [revision EXCEPT ![i] = version]
  BY DEF Accept, IInv, TypeOK
<1>5. QED
  BY <1>1, <1>2, <1>3, <1>4, RowInserted DEF Accept

-------------------------------------------------------------------------------
(* The actions, one by one. *)
LEMMA Actions ==
  ASSUME Next
  PROVE  \/ \E r \in Requests, o \in Operations, i \in Instances, plan \in Plans :
              \E source \in Instances \cup {NoSource}, seen \in Nat :
                CommitPlan(r, o, i, plan, source, seen)
         \/ \E r \in Requests, o \in Operations, i \in Instances,
               kind \in ChangeKinds, seen \in 1..MaxRevision : Accept(r, o, i, kind, seen)
         \/ \E o \in Operations, sequence \in 1..MaxSteps, attempt \in 1..MaxAttempt :
              RecordStep(o, sequence, attempt)
         \/ \E o \in Operations, sequence \in 1..MaxSteps, outcome \in Outcomes :
              FinishStep(o, sequence, outcome)
         \/ \E o \in Operations, status \in Statuses :
              SetStatus(o, status) /\ (status = "Succeeded" => operation[o].kind # "delete")
         \/ \E o \in Operations : CompleteDelete(o)
         \/ \E o \in Operations : Retry(o)
         \/ \E o \in Operations, sequence \in 1..MaxSteps, outcome \in Outcomes :
              ReconcileStep(o, sequence, outcome)
         \/ \E o \in Operations, attempt \in 1..MaxAttempt : Abandon(o, attempt)
         \/ \E i \in Instances, seen \in 1..MaxRevision : Rename(i, seen)
         \/ RecoverOnStartup
<1>1. CASE \E r \in Requests, o \in Operations, i \in Instances : AcceptSome(r, o, i)
  BY <1>1, JournalAssumption DEF AcceptSome
<1>2. CASE \E o \in Operations : ExecuteSome(o)
  <2>1. /\ \A status \in Paused \cup {"Executing"} : status \in Statuses /\ status # "Succeeded"
        /\ "Succeeded" \in Statuses
    BY DEF Paused, Statuses, Closed
  <2>2. QED
    BY <1>2, <2>1 DEF ExecuteSome
<1>3. CASE \E o \in Operations : RecoverSome(o)
  BY <1>3 DEF RecoverSome
<1>4. QED
  BY <1>1, <1>2, <1>3 DEF Next

LEMMA NextKeeps == IInv /\ [Next]_journalVars => IInv'
<1> SUFFICES ASSUME IInv, [Next]_journalVars PROVE IInv'
  OBVIOUS
<1>1. CASE Next
  BY <1>1, Actions, CommitPlanKeeps, AcceptKeeps, RecordStepKeeps, FinishStepKeeps, SetStatusKeeps,
     CompleteDeleteKeeps, RetryKeeps, ReconcileStepKeeps, AbandonKeeps, RenameKeeps,
     RecoverOnStartupKeeps
<1>2. CASE UNCHANGED journalVars
  BY <1>2 DEF journalVars, instanceVars, IInv, TypeOK, OneUnresolvedOperation,
     OperationPinsInstance, RetirementIsADelete, OpenStepIsCurrent, ClosedIsSettled, AcceptedOnce,
     ReceiptsNameOperations, Recorded, Unresolved, Is, HasStep
<1>3. QED
  BY <1>1, <1>2

(* The invariant holds in every reachable state. *)
THEOREM Invariance == Spec => []IInv
BY Initially, NextKeeps, PTL DEF Spec

(* Every table of the journal stays well typed. *)
THEOREM TypeCorrect == Spec => []TypeOK
<1>1. IInv => TypeOK
  BY DEF IInv
<1>2. QED
  BY <1>1, Invariance, PTL

(* One unresolved operation per instance, through creation, change, failure, *)
(* retry, restart and deletion.                                              *)
THEOREM Ownership == Spec => []OneUnresolvedOperation
<1>1. IInv => OneUnresolvedOperation
  BY DEF IInv
<1>2. QED
  BY <1>1, Invariance, PTL

(* An unresolved operation finds its instance as it was accepted. *)
THEOREM Pinned == Spec => []OperationPinsInstance
<1>1. IInv => OperationPinsInstance
  BY DEF IInv
<1>2. QED
  BY <1>1, Invariance, PTL

(* A retiring instance has an unresolved delete, a retired one a succeeded one. *)
THEOREM Retirement == Spec => []RetirementIsADelete
<1>1. IInv => RetirementIsADelete
  BY DEF IInv
<1>2. QED
  BY <1>1, Invariance, PTL

(* The effect in doubt is the last step of the current attempt, and a        *)
(* finished operation has none.                                              *)
THEOREM EffectsInDoubt == Spec => [](OpenStepIsCurrent /\ ClosedIsSettled)
<1>1. IInv => OpenStepIsCurrent /\ ClosedIsSettled
  BY DEF IInv
<1>2. QED
  BY <1>1, Invariance, PTL

(* A request and a plan are accepted once; every operation has its receipt. *)
THEOREM Acceptance == Spec => []AcceptedOnce
<1>1. IInv => AcceptedOnce
  BY DEF IInv
<1>2. QED
  BY <1>1, Invariance, PTL

(* All of it, as the run of the journal checks it on a small instance. *)
THEOREM Consistency == Spec => []TablesAgree
<1>1. IInv => TablesAgree
  BY DEF IInv, TablesAgree
<1>2. QED
  BY <1>1, Invariance, PTL

-------------------------------------------------------------------------------
(* What a step may never do. *)

LEMMA ClosedUntouched ==
  ASSUME IInv, Next, NEW p \in Operations, Is(p, Closed)
  PROVE  operation'[p] = operation[p] /\ step'[p] = step[p]
<1>1. Recorded(p) /\ ~Unresolved(p)
  BY DEF Is, Unresolved
<1>2. \A statuses : Is(p, statuses) => operation[p].status \in statuses
  BY DEF Is
<1>3. ~Is(p, Paused) /\ ~Is(p, {"Executing"}) /\ ~Is(p, {"Accepted", "Executing"})
  BY <1>2 DEF Is, Closed, Paused
<1>4. operation \in [Operations -> OperationRows \cup {NoOperation}] /\ step \in [Operations -> Seq(StepRows)]
  BY DEF IInv, TypeOK
<1>5. ASSUME NEW r \in Requests, NEW o \in Operations, NEW i \in Instances, NEW plan \in Plans,
             NEW source \in Instances \cup {NoSource}, NEW seen \in Nat,
             CommitPlan(r, o, i, plan, source, seen)
      PROVE  operation'[p] = operation[p] /\ step'[p] = step[p]
  BY <1>1, <1>4, <1>5 DEF CommitPlan
<1>6. ASSUME NEW r \in Requests, NEW o \in Operations, NEW i \in Instances,
             NEW kind \in ChangeKinds, NEW seen \in 1..MaxRevision, Accept(r, o, i, kind, seen)
      PROVE  operation'[p] = operation[p] /\ step'[p] = step[p]
  BY <1>1, <1>4, <1>6 DEF Accept
<1>7. ASSUME NEW o \in Operations, NEW sequence \in 1..MaxSteps, NEW attempt \in 1..MaxAttempt,
             RecordStep(o, sequence, attempt)
      PROVE  operation'[p] = operation[p] /\ step'[p] = step[p]
  BY <1>3, <1>4, <1>7 DEF RecordStep
<1>8. ASSUME NEW o \in Operations, NEW sequence \in 1..MaxSteps, NEW outcome \in Outcomes,
             FinishStep(o, sequence, outcome) \/ ReconcileStep(o, sequence, outcome)
      PROVE  operation'[p] = operation[p] /\ step'[p] = step[p]
  <2>1. p # o
    BY <1>3, <1>8 DEF FinishStep, ReconcileStep, IInv, ClosedIsSettled, HasStep
  <2>2. QED
    BY <2>1, <1>4, <1>8 DEF FinishStep, ReconcileStep
<1>9. ASSUME NEW o \in Operations, NEW status \in Statuses, SetStatus(o, status)
      PROVE  operation'[p] = operation[p] /\ step'[p] = step[p]
  BY <1>1, <1>4, <1>9 DEF SetStatus, WriteStatus
<1>10. ASSUME NEW o \in Operations, CompleteDelete(o)
       PROVE  operation'[p] = operation[p] /\ step'[p] = step[p]
  BY <1>3, <1>4, <1>10 DEF CompleteDelete, WriteStatus
<1>11. ASSUME NEW o \in Operations, Retry(o)
       PROVE  operation'[p] = operation[p] /\ step'[p] = step[p]
  BY <1>3, <1>4, <1>11 DEF Retry
<1>12. ASSUME NEW o \in Operations, NEW attempt \in 1..MaxAttempt, Abandon(o, attempt)
       PROVE  operation'[p] = operation[p] /\ step'[p] = step[p]
  BY <1>3, <1>4, <1>12 DEF Abandon, WriteStatus
<1>13. ASSUME NEW i \in Instances, NEW seen \in 1..MaxRevision, Rename(i, seen)
       PROVE  operation'[p] = operation[p] /\ step'[p] = step[p]
  BY <1>13 DEF Rename
<1>14. ASSUME RecoverOnStartup
       PROVE  operation'[p] = operation[p] /\ step'[p] = step[p]
  BY <1>3, <1>14 DEF RecoverOnStartup
<1>15. QED
  BY Actions, <1>5, <1>6, <1>7, <1>8, <1>9, <1>10, <1>11, <1>12, <1>13, <1>14

(* Succeeded and Abandoned are final, with everything recorded under them. *)
THEOREM Finality == Spec => ClosedIsFinal
<1>1. ASSUME IInv, [Next]_journalVars
      PROVE  [\A o \in Operations :
                Is(o, Closed) => operation'[o] = operation[o] /\ step'[o] = step[o]]_journalVars
  BY <1>1, ClosedUntouched
<1>2. QED
  BY <1>1, Invariance, PTL DEF Spec, ClosedIsFinal

-------------------------------------------------------------------------------
(* A failed operation has a record of it, and no record of one is erased.    *)

LEMMA FailuresKept ==
  ASSUME IInv, [Next]_journalVars, NEW p \in Operations
  PROVE  /\ failure[p] = "Failed" => failure'[p] = "Failed"
         /\ (Is(p, {"Failed"}) => failure[p] = "Failed") => (Is(p, {"Failed"}) => failure[p] = "Failed")'
<1> DEFINE Goal ==
       /\ failure[p] = "Failed" => failure'[p] = "Failed"
       /\ (Is(p, {"Failed"}) => failure[p] = "Failed")
            => (operation'[p] # NoOperation /\ operation'[p].status \in {"Failed"} => failure'[p] = "Failed")
<1> SUFFICES Goal
  BY DEF Is, Recorded
<1>1. /\ operation \in [Operations -> OperationRows \cup {NoOperation}]
      /\ failure \in [Operations -> Paused \cup {"none"}]
  BY DEF IInv, TypeOK
<1>2. ASSUME NEW o \in Operations, NEW status \in Statuses, WriteStatus(o, status), Unresolved(o)
      PROVE  Goal
  <2>1. CASE p = o
    <3>1. operation[o] \in OperationRows
      BY <1>2, Rows DEF IInv, Unresolved
    <3>2. operation'[o].status = status /\ failure'[o] = Remembered(o, status)
      BY <1>1, <1>2, <3>1 DEF WriteStatus, OperationRows
    <3>3. QED
      BY <2>1, <3>2 DEF Remembered, Paused
  <2>2. CASE p # o
    BY <1>1, <1>2, <2>2 DEF WriteStatus, Is, Recorded
  <2>3. QED
    BY <2>1, <2>2
<1>3. ASSUME operation' = operation, failure' = failure
      PROVE  Goal
  BY <1>3 DEF Is, Recorded
<1>4. ASSUME NEW o \in Operations, NEW row,
             operation' = [operation EXCEPT ![o] = row], row.status # "Failed", failure' = failure
      PROVE  Goal
  BY <1>1, <1>4 DEF Is, Recorded
<1>5. ASSUME NEW r \in Requests, NEW o \in Operations, NEW i \in Instances, NEW plan \in Plans,
             NEW source \in Instances \cup {NoSource}, NEW seen \in Nat,
             CommitPlan(r, o, i, plan, source, seen)
      PROVE  Goal
  <2>1. \A kind, expected : NewOperation(i, kind, expected).status # "Failed"
    BY DEF NewOperation
  <2>2. QED
    BY <1>4, <1>5, <2>1 DEF CommitPlan
<1>6. ASSUME NEW r \in Requests, NEW o \in Operations, NEW i \in Instances,
             NEW kind \in ChangeKinds, NEW seen \in 1..MaxRevision, Accept(r, o, i, kind, seen)
      PROVE  Goal
  <2>1. NewOperation(i, kind, seen).status # "Failed"
    BY DEF NewOperation
  <2>2. QED
    BY <1>4, <1>6, <2>1 DEF Accept
<1>7. ASSUME NEW o \in Operations, Retry(o)
      PROVE  Goal
  <2>1. operation[o] \in OperationRows
    BY <1>7, Rows DEF IInv, Retry, Is
  <2>2. operation'[o].status = "Executing" /\ \A q \in Operations : q # o => operation'[q] = operation[q]
    BY <1>1, <1>7, <2>1 DEF Retry, OperationRows
  <2>3. failure' = failure
    BY <1>7 DEF Retry
  <2>4. QED
    BY <2>2, <2>3 DEF Is, Recorded
<1>8. ASSUME RecoverOnStartup
      PROVE  Goal
  <2>1. CASE Is(p, {"Executing"})
    <3>1. operation[p] \in OperationRows
      BY <2>1, Rows DEF IInv, Is
    <3>2. /\ operation'[p].status = "OutcomeUnknown"
          /\ failure'[p] = Remembered(p, "OutcomeUnknown")
      BY <1>8, <2>1, <3>1 DEF RecoverOnStartup, OperationRows
    <3>3. QED
      BY <3>2 DEF Remembered
  <2>2. CASE ~Is(p, {"Executing"})
    BY <1>8, <2>2 DEF RecoverOnStartup, Is, Recorded
  <2>3. QED
    BY <2>1, <2>2
<1>9. ASSUME NEW o \in Operations, CompleteDelete(o)
      PROVE  Goal
  BY <1>9, <1>2 DEF CompleteDelete, Is, Unresolved, Closed, Statuses
<1>10. ASSUME NEW o \in Operations, NEW attempt, Abandon(o, attempt)
       PROVE  Goal
  BY <1>10, <1>2 DEF Abandon, Is, Unresolved, Closed, Statuses, Paused
<1>11. ASSUME NEW o \in Operations, NEW status \in Statuses, SetStatus(o, status)
       PROVE  Goal
  BY <1>11, <1>2 DEF SetStatus
<1>12. CASE Next
  <2>1. (\E o \in Operations, sequence \in 1..MaxSteps, attempt \in 1..MaxAttempt :
           RecordStep(o, sequence, attempt)) => Goal
    BY <1>3 DEF RecordStep
  <2>2. (\E o \in Operations, sequence \in 1..MaxSteps, outcome \in Outcomes :
           FinishStep(o, sequence, outcome)) => Goal
    BY <1>3 DEF FinishStep
  <2>3. (\E o \in Operations, sequence \in 1..MaxSteps, outcome \in Outcomes :
           ReconcileStep(o, sequence, outcome)) => Goal
    BY <1>3 DEF ReconcileStep
  <2>4. (\E i \in Instances, seen \in 1..MaxRevision : Rename(i, seen)) => Goal
    BY <1>3 DEF Rename
  <2> HIDE DEF Goal
  <2>5. QED
    BY <1>12, Actions, <1>5, <1>6, <1>7, <1>8, <1>9, <1>10, <1>11, <2>1, <2>2, <2>3, <2>4
<1>13. CASE UNCHANGED journalVars
  BY <1>13, <1>3 DEF journalVars
<1>14. QED
  BY <1>12, <1>13

(* A failure once established stays on record. *)
THEOREM FailureRecord == Spec => FailureIsRemembered
<1> DEFINE OnRecord == \A p \in Operations : Is(p, {"Failed"}) => failure[p] = "Failed"
<1>1. Init => OnRecord
  BY DEF Init, Is, Recorded
<1>2. ASSUME IInv, OnRecord, [Next]_journalVars
      PROVE  OnRecord'
  BY <1>2, FailuresKept
<1>3. ASSUME IInv, OnRecord, [Next]_journalVars
      PROVE  [KeepsFailures]_journalVars
  <2>1. ASSUME NEW p \in Operations, failure[p] = "Failed" \/ Is(p, {"Failed"})'
        PROVE  failure'[p] = "Failed"
    <3>1. CASE failure[p] = "Failed"
      BY <1>3, <3>1, FailuresKept
    <3>2. CASE Is(p, {"Failed"})'
      BY <1>2, <1>3, <3>2
    <3>3. QED
      BY <2>1, <3>1, <3>2
  <2>2. QED
    BY <2>1 DEF KeepsFailures
<1>4. QED
  BY <1>1, <1>2, <1>3, Invariance, PTL DEF Spec, FailureIsRemembered

-------------------------------------------------------------------------------
(* The journal implements InstanceChanges.  The owner of an instance is      *)
(* chosen among its unresolved operations; there is at most one to choose.   *)

OwnersKnown ==
  \A i \in Instances :
    /\ ~Busy(i) => Owner(i) = NoOperation
    /\ \A o \in Operations :
         /\ Unresolved(o) /\ operation[o].instance = i => Owner(i) = o
         /\ Owner(i) = o => Unresolved(o) /\ operation[o].instance = i

LEMMA OneOwner == OneUnresolvedOperation => OwnersKnown
<1> SUFFICES ASSUME OneUnresolvedOperation, NEW i \in Instances
             PROVE  /\ ~Busy(i) => Owner(i) = NoOperation
                    /\ \A o \in Operations :
                         /\ Unresolved(o) /\ operation[o].instance = i => Owner(i) = o
                         /\ Owner(i) = o => Unresolved(o) /\ operation[o].instance = i
  BY DEF OwnersKnown
<1>1. CASE ~Busy(i)
  BY <1>1, NoRowAssumption DEF Owner, Busy
<1>2. CASE Busy(i)
  <2>1. PICK o \in Operations : Unresolved(o) /\ operation[o].instance = i
    BY <1>2 DEF Busy
  <2>2. Owner(i) \in Operations /\ Unresolved(Owner(i)) /\ operation[Owner(i)].instance = i
    BY <1>2, <2>1 DEF Owner
  <2>3. QED
    BY <1>2, <2>2 DEF OneUnresolvedOperation
<1>3. QED
  BY <1>1, <1>2

owners == [i \in Instances |-> Owner(i)]
closedOnes == {o \in Operations : Is(o, Closed)}

(* The three kinds of step the abstract specification distinguishes: nothing *)
(* changes hands, a new operation takes an instance, one gives it up.        *)

LEMMA NothingChangesHands ==
  ASSUME OwnersKnown, OwnersKnown', lifecycle' = lifecycle,
         \A o \in Operations :
           /\ Unresolved(o)' <=> Unresolved(o)
           /\ Unresolved(o) => operation'[o].instance = operation[o].instance
           /\ Is(o, Closed)' <=> Is(o, Closed)
  PROVE  UNCHANGED Changes!changesVars
<1>1. ASSUME NEW i \in Instances PROVE Owner(i)' = Owner(i)
  <2>1. CASE Busy(i)
    <3>1. PICK o \in Operations : Unresolved(o) /\ operation[o].instance = i
      BY <2>1 DEF Busy
    <3>2. QED
      BY <3>1 DEF OwnersKnown
  <2>2. CASE ~Busy(i)
    <3>1. ~Busy(i)'
      BY <2>2 DEF Busy
    <3>2. QED
      BY <2>2, <3>1 DEF OwnersKnown
  <2>3. QED
    BY <2>1, <2>2
<1>2. owners' = owners
  BY <1>1 DEF owners
<1>3. closedOnes' = closedOnes
  BY DEF closedOnes
<1>4. QED
  BY <1>2, <1>3 DEF Changes!changesVars, owners, closedOnes

LEMMA InstanceTaken ==
  ASSUME OwnersKnown, OwnersKnown', NEW o \in Operations, NEW i \in Instances,
         NEW standing \in {"managed", "retiring"},
         ~Recorded(o), ~Busy(i), Unresolved(o)', operation'[o].instance = i,
         \A p \in Operations : p # o => operation'[p] = operation[p],
         \/ lifecycle[i] = "unregistered" /\ standing = "managed"
         \/ lifecycle[i] = "managed",
         lifecycle' = [lifecycle EXCEPT ![i] = standing]
  PROVE  Changes!Next
<1>1. \A p \in Operations : p # o =>
        /\ Unresolved(p)' <=> Unresolved(p)
        /\ Is(p, Closed)' <=> Is(p, Closed)
  BY DEF Unresolved, Is, Recorded
<1>2. ~Unresolved(o) /\ ~Is(o, Closed) /\ ~Is(o, Closed)'
  BY DEF Unresolved, Is
<1>3. Owner(i) = NoOperation /\ Owner(i)' = o
  BY DEF OwnersKnown
<1>4. ASSUME NEW j \in Instances, j # i PROVE Owner(j)' = Owner(j)
  <2>1. CASE Busy(j)
    <3>1. PICK p \in Operations : Unresolved(p) /\ operation[p].instance = j
      BY <2>1 DEF Busy
    <3>2. Unresolved(p)' /\ operation'[p].instance = j
      BY <3>1, <1>1, <1>2
    <3>3. QED
      BY <3>1, <3>2 DEF OwnersKnown
  <2>2. CASE ~Busy(j)
    <3>1. \A p \in Operations : ~(Unresolved(p)' /\ operation'[p].instance = j)
      BY <2>2, <1>1, <1>4 DEF Busy
    <3>2. ~Busy(j)'
      BY <3>1 DEF Busy
    <3>3. QED
      BY <2>2, <3>2 DEF OwnersKnown
  <2>3. QED
    BY <2>1, <2>2
<1>5. owners' = [owners EXCEPT ![i] = o]
  BY <1>3, <1>4 DEF owners
<1>6. closedOnes' = closedOnes
  BY <1>1, <1>2 DEF closedOnes
<1>7. \A j \in Instances : owners[j] # o
  BY <1>2 DEF owners, OwnersKnown
<1>8. o \notin closedOnes
  BY <1>2 DEF closedOnes
<1>9. owners[i] = NoOperation
  BY <1>3 DEF owners
<1>10. Changes!Fresh(o)
  BY <1>7, <1>8 DEF Changes!Fresh, owners, closedOnes
<1>11. Changes!Register(i, o) \/ Changes!Take(i, o, standing)
  BY <1>5, <1>6, <1>9, <1>10 DEF Changes!Register, Changes!Take, owners, closedOnes
<1>12. QED
  BY <1>11 DEF Changes!Next

LEMMA InstanceGivenUp ==
  ASSUME OneUnresolvedOperation, OwnersKnown, OwnersKnown', NEW o \in Operations, NEW i \in Instances,
         NEW standing \in {"managed", "retired"},
         Unresolved(o), operation[o].instance = i, Is(o, Closed)',
         \A p \in Operations : p # o => operation'[p] = operation[p],
         \/ lifecycle[i] = "managed" /\ standing = "managed"
         \/ lifecycle[i] = "retiring" /\ standing = "retired",
         lifecycle' = [lifecycle EXCEPT ![i] = standing]
  PROVE  Changes!Next
<1>1. \A p \in Operations : p # o =>
        /\ Unresolved(p)' <=> Unresolved(p)
        /\ Is(p, Closed)' <=> Is(p, Closed)
  BY DEF Unresolved, Is, Recorded
<1>2. ~Unresolved(o)' /\ ~Is(o, Closed)
  BY DEF Unresolved, Is
<1>3. Owner(i) = o
  BY DEF OwnersKnown
<1>4. \A p \in Operations : Unresolved(p) /\ operation[p].instance = i => p = o
  BY DEF OneUnresolvedOperation
<1>5. Owner(i)' = NoOperation
  <2>1. \A p \in Operations : ~(Unresolved(p)' /\ operation'[p].instance = i)
    BY <1>1, <1>2, <1>4
  <2>2. ~Busy(i)'
    BY <2>1 DEF Busy
  <2>3. QED
    BY <2>2 DEF OwnersKnown
<1>6. ASSUME NEW j \in Instances, j # i PROVE Owner(j)' = Owner(j)
  <2>1. CASE Busy(j)
    <3>1. PICK p \in Operations : Unresolved(p) /\ operation[p].instance = j
      BY <2>1 DEF Busy
    <3>2. Unresolved(p)' /\ operation'[p].instance = j
      BY <3>1, <1>1, <1>6
    <3>3. QED
      BY <3>1, <3>2 DEF OwnersKnown
  <2>2. CASE ~Busy(j)
    <3>1. \A p \in Operations : ~(Unresolved(p)' /\ operation'[p].instance = j)
      BY <2>2, <1>1, <1>2 DEF Busy
    <3>2. ~Busy(j)'
      BY <3>1 DEF Busy
    <3>3. QED
      BY <2>2, <3>2 DEF OwnersKnown
  <2>3. QED
    BY <2>1, <2>2
<1>7. owners' = [owners EXCEPT ![i] = NoOperation]
  BY <1>5, <1>6 DEF owners
<1>8. closedOnes' = closedOnes \cup {o}
  BY <1>1 DEF closedOnes
<1>9. owners[i] = o /\ o # NoOperation
  BY <1>3, NoRowAssumption DEF owners
<1>10. Changes!GiveUp(i, standing)
  BY <1>7, <1>8, <1>9 DEF Changes!GiveUp, owners, closedOnes
<1>11. QED
  BY <1>10 DEF Changes!Next

(* A status written to an unresolved operation of a managed instance. *)
LEMMA StatusIsAChange ==
  ASSUME IInv, OwnersKnown, OwnersKnown', NEW o \in Operations, NEW status \in Statuses,
         Unresolved(o), lifecycle' = lifecycle,
         operation'[o].instance = operation[o].instance,
         operation'[o].status = status, Recorded(o)',
         \A p \in Operations : p # o => operation'[p] = operation[p],
         status \in Closed => operation[o].kind # "delete"
  PROVE  Changes!Next \/ UNCHANGED Changes!changesVars
<1>1. CASE status \in Closed
  <2>1. operation[o].instance \in Instances
    BY Rows DEF IInv
  <2>2. lifecycle[operation[o].instance] = "managed"
    BY <1>1 DEF IInv, OperationPinsInstance
  <2>3. lifecycle' = [lifecycle EXCEPT ![operation[o].instance] = "managed"]
    BY <2>1, <2>2 DEF IInv, TypeOK
  <2>4. Is(o, Closed)'
    BY <1>1 DEF Is
  <2>5. QED
    BY <2>1, <2>2, <2>3, <2>4, InstanceGivenUp DEF IInv
<1>2. CASE status \notin Closed
  <2>1. Unresolved(o)' /\ ~Is(o, Closed)' /\ ~Is(o, Closed)
    BY <1>2 DEF Unresolved, Is
  <2>2. \A p \in Operations : p # o =>
          /\ Unresolved(p)' <=> Unresolved(p)
          /\ Is(p, Closed)' <=> Is(p, Closed)
    BY DEF Unresolved, Is, Recorded
  <2>3. QED
    BY <2>1, <2>2, NothingChangesHands
<1>3. QED
  BY <1>1, <1>2

LEMMA StepsAreChanges ==
  IInv /\ OwnersKnown /\ OwnersKnown' /\ [Next]_journalVars
    => Changes!Next \/ UNCHANGED Changes!changesVars
<1> SUFFICES ASSUME IInv, OwnersKnown, OwnersKnown', [Next]_journalVars
             PROVE  Changes!Next \/ UNCHANGED Changes!changesVars
  OBVIOUS
<1> DEFINE Goal == Changes!Next \/ UNCHANGED Changes!changesVars
<1>1. /\ operation \in [Operations -> OperationRows \cup {NoOperation}]
      /\ lifecycle \in [Instances -> Lifecycles]
  BY DEF IInv, TypeOK
<1>2. ASSUME operation' = operation, lifecycle' = lifecycle PROVE Goal
  BY <1>2, NothingChangesHands DEF Unresolved, Is, Recorded
<1>3. ASSUME NEW o \in Operations, NEW i \in Instances, NEW kind \in Kinds, NEW expected \in Nat,
             ~Recorded(o),
             operation' = [operation EXCEPT ![o] = NewOperation(i, kind, expected)]
      PROVE  /\ Unresolved(o)' /\ operation'[o].instance = i
             /\ \A p \in Operations : p # o => operation'[p] = operation[p]
  <2>1. NewOperation(i, kind, expected) \in OperationRows
    BY DEF NewOperation, OperationRows, Statuses
  <2>2. NewOperation(i, kind, expected) # NoOperation
    BY <2>1, NoRowAssumption DEF OperationRows
  <2>3. operation'[o] = NewOperation(i, kind, expected)
    BY <1>1, <1>3
  <2>4. \A p \in Operations : p # o => operation'[p] = operation[p]
    BY <1>1, <1>3
  <2>5. /\ NewOperation(i, kind, expected).instance = i
        /\ NewOperation(i, kind, expected).status = "Accepted"
    BY DEF NewOperation
  <2>6. QED
    BY <2>2, <2>3, <2>4, <2>5 DEF Unresolved, Recorded, Closed
<1>4. ASSUME NEW r \in Requests, NEW o \in Operations, NEW i \in Instances, NEW plan \in Plans,
             NEW source \in Instances \cup {NoSource}, NEW seen \in Nat,
             CommitPlan(r, o, i, plan, source, seen)
      PROVE  Goal
  <2>1. (IF source = NoSource THEN "create" ELSE "clone") \in Kinds
    BY DEF Kinds, CreationKinds
  <2>2. /\ Unresolved(o)' /\ operation'[o].instance = i
        /\ \A p \in Operations : p # o => operation'[p] = operation[p]
    BY <1>3, <1>4, <2>1 DEF CommitPlan
  <2>3. ~Busy(i)
    BY <1>4 DEF CommitPlan, Busy, IInv, OperationPinsInstance
  <2>4. QED
    BY <1>4, <2>2, <2>3, InstanceTaken DEF CommitPlan
<1>5. ASSUME NEW r \in Requests, NEW o \in Operations, NEW i \in Instances,
             NEW kind \in ChangeKinds, NEW seen \in 1..MaxRevision, Accept(r, o, i, kind, seen)
      PROVE  Goal
  <2>1. kind \in Kinds /\ seen \in Nat
    BY DEF Kinds
  <2>2. /\ Unresolved(o)' /\ operation'[o].instance = i
        /\ \A p \in Operations : p # o => operation'[p] = operation[p]
    BY <1>3, <1>5, <2>1 DEF Accept
  <2>3. PICK standing \in {"managed", "retiring"} :
          lifecycle' = [lifecycle EXCEPT ![i] = standing]
    BY <1>1, <1>5 DEF Accept
  <2>4. QED
    BY <1>5, <2>2, <2>3, InstanceTaken DEF Accept
<1>6. ASSUME NEW o \in Operations, NEW status \in Statuses, Unresolved(o), WriteStatus(o, status)
      PROVE  /\ operation'[o].instance = operation[o].instance
             /\ operation'[o].status = status
             /\ Recorded(o)'
             /\ \A p \in Operations : p # o => operation'[p] = operation[p]
  <2>1. operation[o] \in OperationRows
    BY <1>6, Rows DEF IInv, Unresolved
  <2>2. operation'[o] = [operation[o] EXCEPT !.status = status]
    BY <1>1, <1>6 DEF WriteStatus
  <2>3. /\ operation'[o] \in OperationRows
        /\ operation'[o].instance = operation[o].instance
        /\ operation'[o].status = status
    BY <2>1, <2>2 DEF OperationRows
  <2>4. \A p \in Operations : p # o => operation'[p] = operation[p]
    BY <1>1, <1>6 DEF WriteStatus
  <2>5. QED
    BY <2>3, <2>4, NoRowAssumption DEF Recorded, OperationRows
<1>7. ASSUME NEW o \in Operations, NEW status \in Statuses, SetStatus(o, status),
             status = "Succeeded" => operation[o].kind # "delete"
      PROVE  Goal
  <2>1. status \in Closed => operation[o].kind # "delete"
    BY <1>7 DEF SetStatus, Closed
  <2>2. Unresolved(o) /\ WriteStatus(o, status) /\ lifecycle' = lifecycle
    BY <1>7 DEF SetStatus, instanceVars
  <2>3. QED
    BY <2>1, <2>2, <1>6, StatusIsAChange
<1>8. ASSUME NEW o \in Operations, NEW attempt, Abandon(o, attempt)
      PROVE  Goal
  <2>1. /\ Unresolved(o) /\ WriteStatus(o, "Abandoned") /\ lifecycle' = lifecycle
        /\ operation[o].kind # "delete" /\ "Abandoned" \in Statuses
    BY <1>8 DEF Abandon, Is, Unresolved, Paused, Closed, Statuses, instanceVars
  <2>2. QED
    BY <2>1, <1>6, StatusIsAChange
<1>9. ASSUME NEW o \in Operations, Retry(o)
      PROVE  Goal
  <2>1. operation[o] \in OperationRows /\ Unresolved(o)
    BY <1>9, Rows DEF IInv, Retry, Is, Unresolved, Paused, Closed
  <2>2. Rewritten(o, "Executing", operation[o].attempt + 1)
    <3>1. operation' = [operation EXCEPT ![o] =
                          [@ EXCEPT !.attempt = operation[o].attempt + 1, !.status = "Executing"]]
      BY <1>1, <1>9 DEF Retry
    <3>2. operation[o].attempt + 1 \in Nat /\ "Executing" \in Statuses
      BY <2>1 DEF OperationRows, Statuses
    <3>3. QED
      BY <2>1, <3>1, <3>2, ExceptRewrites DEF IInv, Unresolved
  <2>3. Recorded(o)'
    BY <2>2, NoRowAssumption DEF Rewritten, Recorded, OperationRows
  <2>4. "Executing" \in Statuses /\ "Executing" \notin Closed /\ lifecycle' = lifecycle
    BY <1>9 DEF Statuses, Closed, Retry, instanceVars
  <2>5. QED
    BY <2>1, <2>2, <2>3, <2>4, StatusIsAChange DEF Rewritten
<1>10. ASSUME NEW o \in Operations, CompleteDelete(o)
       PROVE  Goal
  <2> DEFINE i == operation[o].instance
  <2>1. Unresolved(o) /\ i \in Instances /\ WriteStatus(o, "Succeeded") /\ "Succeeded" \in Statuses
    BY <1>10, Rows DEF IInv, CompleteDelete, Is, Unresolved, Closed, Statuses
  <2>2. /\ operation'[o].instance = i
        /\ operation'[o].status = "Succeeded" /\ Recorded(o)'
        /\ \A p \in Operations : p # o => operation'[p] = operation[p]
    BY <2>1, <1>6
  <2>3. Is(o, Closed)'
    BY <2>2 DEF Is, Closed
  <2>4. lifecycle[i] = "retiring" /\ lifecycle' = [lifecycle EXCEPT ![i] = "retired"]
    BY <1>10 DEF CompleteDelete
  <2>5. QED
    BY <2>1, <2>2, <2>3, <2>4, InstanceGivenUp DEF IInv
<1>11. ASSUME RecoverOnStartup
       PROVE  Goal
  <2>1. ASSUME NEW p \in Operations
        PROVE  /\ Unresolved(p)' <=> Unresolved(p)
               /\ operation'[p].instance = operation[p].instance
               /\ Is(p, Closed)' <=> Is(p, Closed)
    <3>1. CASE Is(p, {"Executing"})
      <4>1. operation[p] \in OperationRows /\ operation[p].status = "Executing"
        BY <3>1, Rows DEF IInv, Is
      <4>2. operation'[p] = [operation[p] EXCEPT !.status = "OutcomeUnknown"]
        BY <1>11, <3>1 DEF RecoverOnStartup
      <4>3. /\ operation'[p] \in OperationRows
            /\ operation'[p].instance = operation[p].instance
            /\ operation'[p].status = "OutcomeUnknown"
        BY <4>1, <4>2 DEF OperationRows, Statuses, Paused
      <4>4. Recorded(p) /\ Recorded(p)'
        BY <4>1, <4>3, NoRowAssumption DEF Recorded, OperationRows
      <4>5. QED
        BY <4>1, <4>3, <4>4 DEF Unresolved, Is, Closed
    <3>2. CASE ~Is(p, {"Executing"})
      BY <1>11, <3>2 DEF RecoverOnStartup, Unresolved, Is, Recorded
    <3>3. QED
      BY <3>1, <3>2
  <2>2. lifecycle' = lifecycle
    BY <1>11 DEF RecoverOnStartup, instanceVars
  <2>3. QED
    BY <2>1, <2>2, NothingChangesHands
<1>12. ASSUME Next PROVE Goal
  <2>1. (\E o \in Operations, sequence \in 1..MaxSteps, attempt \in 1..MaxAttempt :
           RecordStep(o, sequence, attempt)) => Goal
    BY <1>2 DEF RecordStep, instanceVars
  <2>2. (\E o \in Operations, sequence \in 1..MaxSteps, outcome \in Outcomes :
           FinishStep(o, sequence, outcome)) => Goal
    BY <1>2 DEF FinishStep, instanceVars
  <2>3. (\E o \in Operations, sequence \in 1..MaxSteps, outcome \in Outcomes :
           ReconcileStep(o, sequence, outcome)) => Goal
    BY <1>2 DEF ReconcileStep, instanceVars
  <2>4. (\E i \in Instances, seen \in 1..MaxRevision : Rename(i, seen)) => Goal
    BY <1>2 DEF Rename
  <2> HIDE DEF Goal
  <2>5. QED
    BY <1>12, Actions, <1>4, <1>5, <1>7, <1>8, <1>9, <1>10, <1>11, <2>1, <2>2, <2>3, <2>4
<1>13. CASE UNCHANGED journalVars
  BY <1>13, <1>2 DEF journalVars, instanceVars
<1>14. QED
  BY <1>12, <1>13

(* Ownership of instances is exclusive and once only, and removal is one-way. *)
THEOREM Refinement == Spec => RefinesInstanceChanges
<1>1. Init => Changes!Init
  <2> SUFFICES ASSUME Init PROVE Changes!Init
    OBVIOUS
  <2>1. \A o \in Operations : ~Recorded(o)
    BY DEF Init, Recorded
  <2>2. \A i \in Instances : Owner(i) = NoOperation
    BY <2>1 DEF Owner, Busy, Unresolved
  <2>3. \A o \in Operations : ~Is(o, Closed)
    BY <2>1 DEF Is
  <2>4. QED
    BY <2>2, <2>3 DEF Init, Changes!Init
<1>2. IInv /\ OwnersKnown /\ OwnersKnown' /\ [Next]_journalVars
        => [Changes!Next]_(Changes!changesVars)
  BY StepsAreChanges
<1>3. IInv => OwnersKnown
  BY OneOwner DEF IInv
<1>4. QED
  BY <1>1, <1>2, <1>3, Invariance, PTL DEF Spec, Changes!Spec, RefinesInstanceChanges
===============================================================================
