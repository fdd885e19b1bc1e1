------------------------------ MODULE ClonePolicy ------------------------------
(***************************************************************************)
(* What the domain promises of one cloned input: Policy and EvaluatedField *)
(* of crates/domain/src/clone_policy.rs.  A field is evaluated once under  *)
(* its policy, then answered and, when it inherits a secret, confirmed.    *)
(***************************************************************************)
CONSTANTS
  Fields,    \* the inputs of the template
  NoValue    \* the candidate or source of a field without one

VARIABLES
  definition,  \* FieldDefinition of each field: [kind, policy, required, accepts]
  source,      \* the value each field has in the source instance
  candidate,   \* EvaluatedField.candidate
  answered,    \* EvaluatedField.answered
  confirmed    \* EvaluatedField.inheritance_confirmed

fieldVars == <<definition, source, candidate, answered, confirmed>>

\* A value no generator repeats.
Fresh == "fresh"

Secret(f) == definition[f].kind = "secret"

\* FieldKind::permits and FieldDefinition::effective_policy.
Permitted(d) ==
  /\ d.policy \in {"copy", "clear", "ask"} \cup (IF d.kind = "secret" THEN {"regenerate"} ELSE {})
  /\ d.policy = "regenerate" => Fresh \in d.accepts

Accepts(f, value) == value \in definition[f].accepts
ValidSource(f) == source[f] = NoValue \/ Accepts(f, source[f])

\* EvaluatedField::evaluate.
Evaluated(f) ==
  LET policy == definition[f].policy
  IN /\ candidate[f] = IF policy = "copy" /\ ValidSource(f) THEN source[f]
                       ELSE IF policy = "regenerate" THEN Fresh ELSE NoValue
     /\ answered[f] = (policy # "ask" /\ (policy = "copy" => ValidSource(f)))
     /\ confirmed[f] = FALSE

Init == \A f \in Fields : Permitted(definition[f]) /\ Evaluated(f)

Inherits(f) == Secret(f) /\ candidate[f] # NoValue /\ candidate[f] = source[f]

\* is_ready.
ReadyField(f) ==
  /\ answered[f]
  /\ definition[f].required => candidate[f] # NoValue
  /\ Inherits(f) => confirmed[f]

\* EvaluatedField::answer, its four answers.
Answers(f) ==
  {v \in {source[f]} : v # NoValue /\ Accepts(f, v)}
  \cup {v \in {Fresh} : Secret(f) /\ Accepts(f, v)}
  \cup {v \in definition[f].accepts : v # NoValue}
  \cup {v \in {NoValue} : ~definition[f].required}

Answer(f) ==
  /\ \E value \in Answers(f) : candidate' = [candidate EXCEPT ![f] = value]
  /\ answered' = [answered EXCEPT ![f] = TRUE]
  /\ confirmed' = [confirmed EXCEPT ![f] = FALSE]
  /\ UNCHANGED <<definition, source>>

\* confirm_secret_inheritance.
Confirm(f) ==
  /\ Inherits(f)
  /\ confirmed' = [confirmed EXCEPT ![f] = TRUE]
  /\ UNCHANGED <<definition, source, candidate, answered>>

Next == \E f \in Fields : Answer(f) \/ Confirm(f)
================================================================================
