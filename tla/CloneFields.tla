------------------------------ MODULE CloneFields ------------------------------
(***************************************************************************)
(* The inputs of a clone plan: evaluate_fields, answer_field and the       *)
(* input part of preview of crates/application/src/clone_plan/             *)
(* evaluation.rs, as update_plan of clone_plan.rs uses them.  The user     *)
(* moves between the versions of the template, answers fields and confirms *)
(* secrets; what was said of a field is kept while its type stays.         *)
(* An update with several edits has the outcome of several updates with    *)
(* one, except that one that is refused refuses them all.                  *)
(***************************************************************************)
EXTENDS Integers, FiniteSets

CONSTANTS
  Fields,     \* the keys of the inputs
  Versions,   \* the versions of the template
  Base,       \* the version of the source instance
  Templates,  \* functions Versions -> Fields -> definition, to be tried
  NoField,    \* the definition of an input a version does not have
  NoValue     \* an input without a value

\* No value is the source's own or a generated one; every input has one of the
\* four policies, and only secrets are regenerated, as they accept (permits).
PlanConstants ==
  /\ Base \in Versions
  /\ NoValue \notin {"source", "fresh"}
  /\ \A t \in Templates, v \in Versions, f \in Fields :
       LET d == t[v][f]
       IN d # NoField => /\ d.policy \in {"copy", "ask", "regenerate", "clear"}
                         /\ d.policy = "regenerate" => d.kind = "secret" /\ "fresh" \in d.accepts

ASSUME PlanAssumption == PlanConstants

VARIABLES
  template,     \* the inputs of every version: [kind, policy, options, required, accepts]
  sourceValue,  \* the values of the source instance
  version,      \* the version of the plan
  field,        \* FieldState of every input of the version
  confirmedNow, \* history: secrets confirmed since the last switch or answer
  answeredFor   \* history: the options an asked field was answered for

planVars == <<template, sourceValue, version, field, confirmedNow, answeredFor>>

Definition(v, f) == template[v][f]
Has(v, f) == Definition(v, f) # NoField
Active == {f \in Fields : Has(version, f)}

\* generate_input_secret and generate_secret: never the source's value nor
\* another generated one; which value it is tells nothing.
Generated == "fresh"

\* valid_input.
Valid(d, value) == IF value = NoValue THEN ~d.required ELSE value \in d.accepts

\* The source's value counts only where the type is the source's.
TypeChanged(v, f) == Has(Base, f) /\ Has(v, f) /\ Definition(Base, f).kind # Definition(v, f).kind
SourceOf(v, f) ==
  IF Has(Base, f) /\ ~TypeChanged(v, f) THEN sourceValue[f] ELSE NoValue

FieldState(d, value, answered) ==
  [kind |-> d.kind, policy |-> d.policy, options |-> d.options, value |-> value,
   answered |-> answered, confirmed |-> FALSE]

\* evaluate_fields, a field that is new, or new in its type.
NewField(v, f) ==
  LET d == Definition(v, f)
      source == SourceOf(v, f)
      value == CASE d.policy \in {"copy", "ask"} -> source
                 [] d.policy = "regenerate" -> Generated
                 [] d.policy = "clear" -> NoValue
      answered == d.policy # "ask" /\ (d.policy = "copy" => Valid(d, source))
  IN FieldState(d, value, answered /\ ~TypeChanged(v, f))

KeepAnswer(old, d) ==
  [old EXCEPT !.policy = d.policy, !.options = d.options,
              !.confirmed = @ /\ d.kind # "secret"]
\* evaluate_fields, a field of the same type: its answer stays, except to a
\* question that was not asked before, or not with these options.
Keep(old, d) ==
  [old EXCEPT !.policy = d.policy, !.options = d.options,
              !.confirmed = @ /\ d.kind # "secret",
              !.answered = @ /\ (d.policy = "ask" => old.policy = "ask" /\ old.options = d.options)]

EvaluateFields(v, previous) ==
  [f \in {g \in Fields : Has(v, g)} |->
    IF f \in DOMAIN previous /\ previous[f].kind = Definition(v, f).kind
    THEN Keep(previous[f], Definition(v, f))
    ELSE NewField(v, f)]

\* prepare_clone.
PlanInit ==
  /\ template \in Templates
  /\ sourceValue \in [Fields -> {"source", NoValue}]
  /\ version = Base
  /\ field = EvaluateFields(Base, <<>>)
  /\ confirmedNow = {}
  /\ answeredFor = [f \in Fields |-> "nothing"]

-------------------------------------------------------------------------------
(* update_plan *)

Switch(v) ==
  /\ v # version
  /\ version' = v
  /\ field' = EvaluateFields(v, field)
  /\ confirmedNow' = {}
  /\ UNCHANGED <<template, sourceValue, answeredFor>>

\* answer_field: what may be answered; the source's value may be typed, too.
CanCopy(f) == /\ Has(Base, f) /\ ~TypeChanged(version, f)
              /\ sourceValue[f] # NoValue /\ Valid(Definition(version, f), sourceValue[f])
Answers(f) ==
  LET d == Definition(version, f)
  IN {v \in {sourceValue[f]} : CanCopy(f)}
     \cup {v \in {Generated} : d.kind = "secret" /\ Valid(d, Generated)}
     \cup {v \in d.accepts \ {NoValue} : v = "source" => v = SourceOf(version, f)}
     \cup {v \in {NoValue} : ~d.required}

StillConfirmed(f, value) ==
  [FieldState(Definition(version, f), value, TRUE) EXCEPT !.confirmed = field[f].confirmed]
\* What was confirmed is confirmed no more, even if the answer is the same.
Answered(f, value) == FieldState(Definition(version, f), value, TRUE)

Answer(f) ==
  /\ f \in Active
  /\ \E value \in Answers(f) : field' = [field EXCEPT ![f] = Answered(f, value)]
  /\ confirmedNow' = confirmedNow \ {f}
  /\ answeredFor' = [answeredFor EXCEPT ![f] = Definition(version, f).options]
  /\ UNCHANGED <<template, sourceValue, version>>

\* confirmSecrets: the source's secret, and nothing else, can be confirmed.
CanConfirm(f) ==
  /\ Definition(version, f).kind = "secret"
  /\ field[f].value # NoValue /\ field[f].value = sourceValue[f]
ConfirmSecret(f) ==
  /\ f \in Active /\ CanConfirm(f)
  /\ field' = [field EXCEPT ![f].confirmed = TRUE]
  /\ confirmedNow' = confirmedNow \cup {f}
  /\ UNCHANGED <<template, sourceValue, version, answeredFor>>

PlanNext ==
  \/ \E v \in Versions : Switch(v)
  \/ \E f \in Fields : Answer(f) \/ ConfirmSecret(f)

PlanSpec == PlanInit /\ [][PlanNext]_planVars

-------------------------------------------------------------------------------
(* preview: the concerns about inputs *)

NeedsConfirmation(f) ==
  /\ Definition(version, f).kind = "secret"
  /\ field[f].value # NoValue /\ field[f].value = sourceValue[f]
  /\ ~field[f].confirmed

Concern(f) ==
  \/ TypeChanged(version, f)
  \/ ~Valid(Definition(version, f), field[f].value)
  \/ ~field[f].answered
  \/ NeedsConfirmation(f)

Ready == \A f \in Active : ~Concern(f)

-------------------------------------------------------------------------------
(* Properties *)

\* A plan that may be confirmed reuses no secret of its source but one the
\* user confirmed for this version, and answers every question this version
\* asks with what was said to that question, whatever way the user took
\* through the versions.
NothingIsAssumed ==
  Ready => \A f \in Active :
    /\ Definition(version, f).kind = "secret" /\ field[f].value = "source" => f \in confirmedNow
    /\ Definition(version, f).policy = "ask" => answeredFor[f] = Definition(version, f).options

\* Fields the policy of the domain says nothing about: not in this version,
\* or of another type than the source's.
Foreign(f) == f \notin Active \/ TypeChanged(version, f)
Inert == [kind |-> "text", policy |-> "ask", options |-> "none", required |-> FALSE, accepts |-> {}]

\* A value nobody answered is only a suggestion, which the domain does not keep.
PolicyDefinition == [f \in Fields |-> IF Foreign(f) THEN Inert ELSE Definition(version, f)]
PolicySource == [f \in Fields |-> IF Foreign(f) THEN NoValue ELSE SourceOf(version, f)]
PolicyCandidate ==
  [f \in Fields |-> IF Foreign(f) \/ ~field[f].answered THEN NoValue ELSE field[f].value]
PolicyAnswered ==
  [f \in Fields |-> /\ ~Foreign(f)
                    /\ \/ field[f].answered
                       \/ field[f].policy = "copy" /\ field[f].value = NoValue]
PolicyConfirmed == [f \in Fields |-> ~Foreign(f) /\ field[f].answered /\ field[f].confirmed]

Policy == INSTANCE ClonePolicy WITH
  definition <- PolicyDefinition, source <- PolicySource, candidate <- PolicyCandidate,
  answered <- PolicyAnswered, confirmed <- PolicyConfirmed

PolicyStart == Policy!Init
PolicyStep == version' = version /\ planVars' # planVars => [Policy!Next]_(Policy!fieldVars)
PolicyReady == Ready => \A f \in Fields : Foreign(f) \/ Policy!ReadyField(f)

\* Within one version the plan evaluates, answers and confirms its fields as
\* the domain's policy does, and is ready only if the policy is.
FollowsPolicy == PolicyStart /\ [][PolicyStep]_planVars /\ []PolicyReady
================================================================================
