-------------------------------- MODULE MCParts --------------------------------
(* Six components that are checked on their own, one of them per behaviour:    *)
(* the subject.  The others stay in an initial state.                          *)
EXTENDS DatabaseWorker, NamedVolume, BindStorage, CloneFields, HostPorts, LogDecoder

VARIABLE subject

vars == <<subject, decoderVars, portVars, planVars, dbVars, volumeVars, storageVars>>

-------------------------------------------------------------------------------
(* Log masking: up to two secrets of up to three bytes, some with line ends *)

Short == UNION {[1..n -> {"a", "b"}] : n \in 1..3}
SecretsTried ==
  {{}} \cup {{s, t} : s, t \in Short}
       \cup {{<<"a", "nl">>, s} : s \in Short}
       \cup {{<<"nl", "b", "nl">>, s} : s \in Short}

-------------------------------------------------------------------------------
(* The search for ports: two slots, automatic behind a source, automatic from  *)
(* a recommendation, exhausted, explicit                                       *)

Slot(source, recommended, explicit, min, max) ==
  [source |-> source, recommended |-> recommended, explicit |-> explicit, min |-> min, max |-> max]
Behind == Slot(1, 0, 0, 1, 4)
Advised == Slot(0, 1, 0, 2, 4)
Exhausted == Slot(4, 0, 0, 1, 4)
Typed == Slot(2, 0, 3, 1, 3)
InputsTried == {<<Behind, Behind>>, <<Advised, Behind>>, <<Advised, Exhausted>>, <<Behind, Typed>>}

-------------------------------------------------------------------------------
(* Clone fields: one input in three versions of a template                     *)

Def(kind, policy, options, required, accepts) ==
  [kind |-> kind, policy |-> policy, options |-> options, required |-> required, accepts |-> accepts]
NoDef == Def("none", "none", "none", FALSE, {})
All == {"source", "typed", "fresh"}
Defs == {NoDef,
         Def("text", "copy", "a", TRUE, {"source", "typed"}),
         Def("text", "ask", "a", TRUE, {"source", "typed"}),
         Def("text", "ask", "b", FALSE, {"typed"}),
         Def("text", "clear", "a", FALSE, {"source", "typed"}),
         Def("secret", "regenerate", "none", TRUE, All),
         Def("secret", "copy", "none", TRUE, {"source"}),
         Def("secret", "ask", "none", FALSE, All)}
TemplatesTried == [Versions -> [Fields -> Defs]]

-------------------------------------------------------------------------------
(* The database: an older and a newer build, three callers                     *)

HomeOf == [w1 |-> "old", w2 |-> "old", w3 |-> "new"]
KnownBy == [old |-> 1, new |-> 2]

-------------------------------------------------------------------------------
(* What is not the subject rests.  The properties read no more of it than what *)
(* has a value of its initial states here; the rest is 0.                      *)

IdleDecoder ==
  /\ ended = FALSE
  /\ pending = <<>>
  /\ secrets = 0 /\ matched = 0 /\ screen = 0 /\ raw = 0
IdlePorts ==
  /\ plan = [kind |-> "none"]
  /\ input = 0 /\ taken = 0 /\ cursor = 0 /\ stored = 0 /\ search = 0 /\ portChanges = 0
  /\ ever = 0 /\ retyped = 0
IdleFields ==
  /\ version = Base /\ template = [v \in {Base} |-> [f \in Fields |-> NoField]]
  /\ sourceValue = 0 /\ field = 0 /\ confirmedNow = 0 /\ answeredFor = 0
IdleDatabase ==
  /\ thread = [p \in Processes |-> At("none")] /\ reply = [w \in Writers |-> "none"]
  /\ seen = {} /\ replaced = {} /\ file = [rows |-> {}]
  /\ backups = 0 /\ lock = 0 /\ queue = 0 /\ starts = 0
IdleVolume ==
  /\ presence = "not_materialized" /\ told = "nothing" /\ attempt = 1
  /\ steps = 0 /\ volume = 0 /\ serial = 0 /\ sent = 0 /\ call = 0 /\ stage = 0
  /\ check = 0 /\ created = 0 /\ kept = 0
IdleBind ==
  /\ creating = [i \in BindInstances |-> None] /\ answer = NoAnswer
  /\ platform = 0 /\ entry = 0 /\ evidence = 0 /\ made = 0 /\ allocation = 0
  /\ looking = 0 /\ changes = 0 /\ steady = 0 /\ overlapped = 0

Init ==
  \/ /\ subject = "decoder" /\ DecoderInit
     /\ IdlePorts /\ IdleFields /\ IdleDatabase /\ IdleVolume /\ IdleBind
  \/ /\ subject = "ports" /\ PortInit
     /\ IdleDecoder /\ IdleFields /\ IdleDatabase /\ IdleVolume /\ IdleBind
  \/ /\ subject = "fields" /\ PlanInit
     /\ IdleDecoder /\ IdlePorts /\ IdleDatabase /\ IdleVolume /\ IdleBind
  \/ /\ subject = "database" /\ DatabaseInit
     /\ IdleDecoder /\ IdlePorts /\ IdleFields /\ IdleVolume /\ IdleBind
  \/ /\ subject = "volume" /\ VolumeInit
     /\ IdleDecoder /\ IdlePorts /\ IdleFields /\ IdleDatabase /\ IdleBind
  \/ /\ subject = "bind" /\ StorageInit
     /\ IdleDecoder /\ IdlePorts /\ IdleFields /\ IdleDatabase /\ IdleVolume

DecoderStep ==
  /\ subject = "decoder" /\ DecoderNext
  /\ UNCHANGED <<subject, portVars, planVars, dbVars, volumeVars, storageVars>>
PortsStep ==
  /\ subject = "ports" /\ PortNext
  /\ UNCHANGED <<subject, decoderVars, planVars, dbVars, volumeVars, storageVars>>
PlanStep ==
  /\ subject = "fields" /\ PlanNext
  /\ UNCHANGED <<subject, decoderVars, portVars, dbVars, volumeVars, storageVars>>
DatabaseStep ==
  /\ subject = "database" /\ DatabaseNext
  /\ UNCHANGED <<subject, decoderVars, portVars, planVars, volumeVars, storageVars>>
VolumeStep ==
  /\ subject = "volume" /\ VolumeNext
  /\ UNCHANGED <<subject, decoderVars, portVars, planVars, dbVars, storageVars>>
BindStep ==
  /\ subject = "bind" /\ StorageNext
  /\ UNCHANGED <<subject, decoderVars, portVars, planVars, dbVars, volumeVars>>

Next == DecoderStep \/ PortsStep \/ PlanStep \/ DatabaseStep \/ VolumeStep \/ BindStep

Spec == Init /\ [][Next]_vars
================================================================================
