------------------------------- MODULE Planning -------------------------------
(***************************************************************************)
(* Plans for new instances, from their first view to their commitment:     *)
(* CreatePlans (application/src/create_plan.rs), ClonePlans                *)
(* (clone_plan.rs, clone_plan/commit.rs and the preview and source check   *)
(* of clone_plan/evaluation.rs), the sessions around them                  *)
(* (create_session.rs, clone_session.rs), the commands of the desktop      *)
(* application (create_commands.rs, clone_commands.rs) and what they read  *)
(* and write of the database (state_store.rs, operation_journal.rs).       *)
(* A plan lives in the memory of one session, whose mutex a command holds  *)
(* while it looks at the ports of the host and until it is over.  The two  *)
(* sessions have a mutex each, so that a create and a clone may be         *)
(* confirmed at the same time, and the operations of other instances, that *)
(* of the source among them, hold neither.                                 *)
(***************************************************************************)
EXTENDS Integers, FiniteSets

CONSTANTS
  CreateIds,    \* the ids create plans may get
  CloneIds,     \* those of clone plans
  Requests,     \* the ids of confirm requests
  Ports,        \* host ports, an initial segment of the positive numbers
  Busy,         \* the ports other programs may take and give back
  Contents,     \* what a plan may say: name, version, inputs and storage
  Ready,        \* the contents without a concern
  MaxPlans,     \* MAX_PLANS, in each session
  MaxRevision,  \* bound on the edits of a plan
  MaxSource     \* bound on the changes of the source

ASSUME PlanningAssumption ==
  /\ IsFiniteSet(CreateIds) /\ IsFiniteSet(CloneIds)
  /\ CreateIds \cap CloneIds = {}
  /\ Busy \subseteq Ports
  /\ Ready \subseteq Contents
  /\ MaxPlans \in Nat \ {0}
  /\ MaxRevision \in Nat

Plans == CreateIds \cup CloneIds
Sessions == {"create", "clone"}
IdsOf(s) == IF s = "create" THEN CreateIds ELSE CloneIds

VARIABLES
  plan,       \* the plans in memory
  spent,      \* the ids that were given to a plan
  call,       \* the command that holds the mutex of a session
  answer,     \* the answer to a confirm or receipt command in the last step
  source,     \* the instance that clones are made of
  outside,    \* the ports other programs hold
  instances,  \* the committed instances, with their operation and receipt
  started,    \* how often the operation of an instance was started
  lost,       \* the instances whose operation was accepted and not started
              \* when the application ended
  screen      \* the last view without a concern that reached the user

memory == <<plan, spent, call>>
database == <<source, instances>>
history == <<started, lost, screen>>
vars == <<memory, answer, database, outside, history>>

(***************************************************************************)
(* The database.  The operation and the receipt of an instance are         *)
(* written in the transaction that writes the instance.                    *)
(***************************************************************************)
NoInstance == 0
Reserved == ({i.port : i \in instances} \cup {source.port}) \ {0}

ReceiptOf(r) == {i \in instances : i.request = r}
PlanReceipt(p) == {i \in instances : i.plan = p}
SameCommit(i, p, rev) == i.plan = p /\ i.rev = rev

\* clone_source: no source while it is deleted or has an open operation.
CloneSource ==
  IF source.state = "managed"
  THEN {[rev |-> source.rev, spec |-> source.spec, port |-> source.port]}
  ELSE {}

(***************************************************************************)
(* The plans.                                                              *)
(***************************************************************************)
NoPlan == [rev |-> 0]
Resting == [op |-> "idle"]
NoAnswer == [result |-> -1]
Silent == answer' = NoAnswer
Live == {p \in Plans : plan[p].rev > 0}

Lowest(ports) == IF ports = {} THEN 0 ELSE CHOOSE n \in ports : \A m \in ports : n =< m

\* plan_ports: the port of the only slot, 0 for a concern.  A scan may also
\* be over before it has found one.
PortFor(explicit, above, taken) ==
  IF explicit # 0 THEN IF explicit \in taken THEN 0 ELSE explicit
  ELSE Lowest({n \in Ports : n > above /\ n \notin taken})

\* preview of a create plan.
PreviewCreate(d, taken, over) ==
  [content |-> d.content, rev |-> d.rev,
   port |-> IF over THEN 0 ELSE PortFor(d.explicit, 0, taken)]

\* preview of a clone plan, which is told whether other ports than those it
\* showed before are a new revision.
AdvanceKeeps(d, port) == d.last = 0 \/ port = 0 \/ port = d.last
PreviewClone(d, taken, over) ==
  LET found == IF over THEN 0 ELSE PortFor(d.explicit, d.source.port, taken)
      port == IF found = d.source.port THEN 0 ELSE found
  IN [content |-> d.content, rev |-> d.rev, port |-> port]
AfterClone(d, view, advance) ==
  [d EXCEPT !.rev = IF advance /\ ~AdvanceKeeps(d, view.port) THEN @ + 1 ELSE @,
            !.last = IF view.port = 0 THEN @ ELSE view.port]

NoConcern(view) == view.content \in Ready /\ view.port # 0
NoView == [rev |-> 0]
\* The answer with a view may get lost, or come when the user has confirmed.
Show(p, view) ==
  \/ NoConcern(view) /\ screen' = [screen EXCEPT ![p] = view]
  \/ UNCHANGED screen

\* check_source.
SourceHolds(d) == \E s \in CloneSource : s.rev = d.source.rev /\ s.spec = d.source.spec

Init ==
  /\ plan = [p \in Plans |-> NoPlan]
  /\ spent = {}
  /\ call = [s \in Sessions |-> Resting]
  /\ answer = NoAnswer
  /\ source = [state |-> "managed", rev |-> 1, spec |-> 1, port |-> 1]
  /\ outside = {}
  /\ instances = {}
  /\ started = [n \in 1..Cardinality(Plans) |-> 0]
  /\ lost = {}
  /\ screen = [p \in Plans |-> NoView]

(***************************************************************************)
(* A command holds the mutex of its session from its observation of the    *)
(* ports to its end.  Only a confirmation is more than one step: what      *)
(* another command observes is no more than shown.  A command that fails   *)
(* leaves the plans as they are.                                           *)
(***************************************************************************)
Free(s) == call[s].op = "idle"
Hold(s, request) == Free(s) /\ call' = [call EXCEPT ![s] = request]
Release(s) == call' = [call EXCEPT ![s] = Resting]
Serves(s, op, p) == call[s].op = op /\ call[s].plan = p

Observed == outside \cup Reserved

\* unique_id and unique_instance_id: random, and of no plan and no instance.
NewId(p) == p \notin spent

Room(ids) == Cardinality(ids \cap Live) < MaxPlans

(***************************************************************************)
(* prepare, update, view and discard of a create plan.  The scan for a     *)
(* port may be over before it has found one.                               *)
(***************************************************************************)
PrepareCreate(p) ==
  /\ Free("create")
  /\ NewId(p)
  /\ Room(CreateIds)
  /\ \E content \in Contents, over \in BOOLEAN :
       LET d == [rev |-> 1, content |-> content, explicit |-> 0]
       IN /\ plan' = [plan EXCEPT ![p] = d]
          /\ Show(p, PreviewCreate(d, Observed, over))
  /\ spent' = spent \cup {p}
  /\ Silent
  /\ UNCHANGED <<call, database, outside, started, lost>>

UpdateCreate(p) ==
  /\ Free("create")
  /\ plan[p].rev \in 1..MaxRevision - 1
  /\ \E content \in Contents, explicit \in {0} \cup Busy, over \in BOOLEAN :
       LET d == [rev |-> plan[p].rev + 1, content |-> content, explicit |-> explicit]
       IN /\ plan' = [plan EXCEPT ![p] = d]
          /\ Show(p, PreviewCreate(d, Observed, over))
  /\ Silent
  /\ UNCHANGED <<spent, call, database, outside, started, lost>>

ViewCreate(p) ==
  /\ Free("create")
  /\ p \in Live
  /\ \E over \in BOOLEAN : Show(p, PreviewCreate(plan[p], Observed, over))
  /\ Silent
  /\ UNCHANGED <<plan, spent, call, database, outside, started, lost>>

\* A plan that was committed is not discarded but answered for.
Undecided(p) == PlanReceipt(p) = {}

DiscardCreate(p) ==
  /\ Free("create")
  /\ p \in Live
  /\ Undecided(p)
  /\ plan' = [plan EXCEPT ![p] = NoPlan]
  /\ Silent
  /\ UNCHANGED <<spent, call, database, outside, history>>

(***************************************************************************)
(* prepare, update, view and discard of a clone plan.                      *)
(***************************************************************************)
PrepareClone(p) ==
  /\ Free("clone")
  /\ NewId(p)
  /\ Room(CloneIds)
  /\ \E content \in Contents, over \in BOOLEAN, of \in CloneSource :
       LET d == [rev |-> 1, content |-> content, explicit |-> 0, last |-> 0, source |-> of]
           view == PreviewClone(d, Observed, over)
       IN /\ plan' = [plan EXCEPT ![p] = AfterClone(d, view, FALSE)]
          /\ Show(p, view)
  /\ spent' = spent \cup {p}
  /\ Silent
  /\ UNCHANGED <<call, database, outside, started, lost>>

UpdateClone(p) ==
  /\ Free("clone")
  /\ plan[p].rev \in 1..MaxRevision - 1
  /\ SourceHolds(plan[p])
  /\ \E content \in Contents, explicit \in {0} \cup Busy, over \in BOOLEAN :
       LET d == [plan[p] EXCEPT !.rev = @ + 1, !.content = content, !.explicit = explicit]
           view == PreviewClone(d, Observed, over)
       IN /\ plan' = [plan EXCEPT ![p] = AfterClone(d, view, FALSE)]
          /\ Show(p, view)
  /\ Silent
  /\ UNCHANGED <<spent, call, database, outside, started, lost>>

\* Other ports than before are a new revision, also within the bound.
ViewClone(p) ==
  /\ Free("clone")
  /\ p \in Live
  /\ SourceHolds(plan[p])
  /\ \E over \in BOOLEAN :
       LET view == PreviewClone(plan[p], Observed, over)
           next == AfterClone(plan[p], view, TRUE)
       IN /\ next.rev =< MaxRevision
          /\ plan' = [plan EXCEPT ![p] = next]
          /\ Show(p, [view EXCEPT !.rev = next.rev])
  /\ Silent
  /\ UNCHANGED <<spent, call, database, outside, started, lost>>

DiscardClone(p) ==
  /\ Free("clone")
  /\ p \in Live
  /\ Undecided(p)
  /\ plan' = [plan EXCEPT ![p] = NoPlan]
  /\ Silent
  /\ UNCHANGED <<spent, call, database, outside, history>>

(***************************************************************************)
(* confirm: a request that was accepted before is answered at once.  The   *)
(* user confirms what the screen shows, which may be older than the plan.  *)
(***************************************************************************)
ReplyAndStart(result, fresh) ==
  /\ answer' = result
  /\ started' = IF result.result > 0 THEN [started EXCEPT ![result.result] = @ + 1] ELSE started
Reply(result, fresh) ==
  /\ answer' = result
  /\ started' = IF fresh THEN [started EXCEPT ![result.result] = @ + 1] ELSE started

Outcome(c, result, why) ==
  [result |-> result, why |-> why, plan |-> c.plan, rev |-> c.rev]

\* accepted: the answers that need no more than the database.
AcceptedByRequest(c) ==
  {Outcome(c, IF SameCommit(i, c.plan, c.rev) THEN i.id ELSE NoInstance, "used") : i \in ReceiptOf(c.request)}
Accepted(c) ==
  IF \E i \in ReceiptOf(c.request) : ~SameCommit(i, c.plan, c.rev)
  THEN {Outcome(c, NoInstance, "used")}
  ELSE {Outcome(c, IF i.rev = c.rev THEN i.id ELSE NoInstance, "known") : i \in PlanReceipt(c.plan)}

Asked(p, r) ==
  [op |-> "confirm", plan |-> p, request |-> r, rev |-> screen[p].rev, port |-> screen[p].port,
   seen |-> screen[p], taken |-> Observed]

Confirm(s) ==
  /\ Free(s)
  /\ \E p \in IdsOf(s), r \in Requests :
       LET c == Asked(p, r)
       IN /\ screen[p] # NoView
          /\ \/ /\ \E known \in Accepted(c) : Reply(known, FALSE)
                /\ UNCHANGED call
             \/ /\ Accepted(c) = {}
                /\ Hold(s, c)
                /\ Silent
                /\ UNCHANGED started
  /\ UNCHANGED <<plan, spent, database, outside, lost, screen>>

\* The receipt command: what became of a plan, also after a restart.
Receipt(s) ==
  /\ Free(s)
  /\ \E p \in IdsOf(s) : \E i \in PlanReceipt(p) : Reply(Outcome(i, i.id, "receipt"), FALSE)
  /\ UNCHANGED <<plan, spent, call, database, outside, lost, screen>>

\* An observation or a condition that fails, or no place at the runner.
Refuse(s, why) ==
  /\ answer' = Outcome(call[s], NoInstance, why)
  /\ Release(s)

Refused(s) ==
  /\ call[s].op = "confirm"
  /\ Refuse(s, "failed")
  /\ UNCHANGED <<plan, spent, database, outside, history>>

\* commit_plan looks at the ports again before its transaction.
MayCommitOtherPort(c, view) == NoConcern(view)
MayCommit(c, view) == NoConcern(view) /\ view.port = c.port

CheckCreate(p) ==
  /\ Serves("create", "confirm", p)
  /\ plan[p].rev = call["create"].rev
  /\ LET view == PreviewCreate(plan[p], call["create"].taken, FALSE)
     IN /\ MayCommit(call["create"], view)
        /\ call' = [call EXCEPT !["create"].op = "commit", !["create"].port = view.port]
  /\ Silent
  /\ UNCHANGED <<plan, spent, database, outside, history>>

\* The views of a clone may find another port, which is a revision that nobody
\* has confirmed.
MayCommitClone(c, next, view) == next.rev = c.rev /\ MayCommit(c, view)

CheckClone(p) ==
  /\ Serves("clone", "confirm", p)
  /\ p \in Live
  /\ SourceHolds(plan[p])
  /\ LET c == call["clone"]
         view == PreviewClone(plan[p], c.taken, FALSE)
         next == AfterClone(plan[p], view, TRUE)
     IN /\ next.rev =< MaxRevision
        /\ plan' = [plan EXCEPT ![p] = next]
        /\ \/ /\ MayCommitClone(c, next, view)
              /\ call' = [call EXCEPT !["clone"].op = "commit", !["clone"].port = view.port]
              /\ Silent
           \/ ~MayCommitClone(c, next, view) /\ Refuse("clone", "stale")
  /\ UNCHANGED <<spent, database, outside, history>>

(***************************************************************************)
(* commit_plan of the store is one transaction.  Other operations have had *)
(* time to change the source and the reservations since the checks.        *)
(***************************************************************************)
GuardRevisions(p) ==
  p \in CloneIds => source.rev = plan[p].source.rev /\ source.spec = plan[p].source.spec
GuardHolds(p) == p \in CloneIds => SourceHolds(plan[p])
PortIsHeld(n) == n # source.port
PortIsFree(n) == n \notin Reserved

\* inherit_image_resolution, for a clone of the same version.
Inherited(of) == IF of = 0 THEN 0 ELSE source.spec

\* insert_instance: the inputs are those of the plan, the image resolution is
\* that of the source at its last specification.
Inserted(c) ==
  LET d == plan[c.plan]
      of == IF c.plan \in CloneIds THEN d.source.spec ELSE 0
  IN [id |-> Cardinality(instances) + 1, plan |-> c.plan, request |-> c.request, rev |-> c.rev,
      content |-> d.content, seen |-> c.seen, port |-> c.port, of |-> of,
      image |-> Inherited(of),
      alive |-> of = 0 \/ source.state = "managed"]

CanInsert(c) ==
  /\ ReceiptOf(c.request) = {}
  /\ PlanReceipt(c.plan) = {}
  /\ GuardHolds(c.plan)
  /\ PortIsFree(c.port)

\* The plan is removed when its commitment is over.  A name in use or a failing
\* database refuses it as well.
Commit(s) ==
  /\ call[s].op = "commit"
  /\ \/ /\ CanInsert(call[s])
        /\ instances' = instances \cup {Inserted(call[s])}
        /\ call' = [call EXCEPT ![s].op = "accepted"]
        /\ plan' = [plan EXCEPT ![call[s].plan] = NoPlan]
        /\ Silent
     \/ /\ Refuse(s, "conflict")
        /\ UNCHANGED <<instances, plan>>
  /\ UNCHANGED <<spent, source, outside, history>>

\* A fresh acceptance is handed to the runner once.
Execute(s) ==
  /\ call[s].op = "accepted"
  /\ \E i \in PlanReceipt(call[s].plan) : Reply(Outcome(call[s], i.id, "fresh"), TRUE)
  /\ Release(s)
  /\ UNCHANGED <<plan, spent, database, outside, lost, screen>>

(***************************************************************************)
(* The world: the source, other programs, time and the end of the          *)
(* application.                                                            *)
(***************************************************************************)
SourceAccepts ==
  /\ source.state = "managed"
  /\ source' = [source EXCEPT !.state = "busy"]
  /\ Silent
  /\ UNCHANGED <<memory, instances, outside, history>>

SourceDone ==
  /\ source.state = "busy"
  /\ source' = [source EXCEPT !.state = "managed"]
  /\ Silent
  /\ UNCHANGED <<memory, instances, outside, history>>

SourceRenamed ==
  /\ source.state = "managed"
  /\ source.rev < MaxSource
  /\ source' = [source EXCEPT !.rev = @ + 1]
  /\ Silent
  /\ UNCHANGED <<memory, instances, outside, history>>

SourceEdited ==
  /\ source.state = "busy"
  /\ source.rev < MaxSource
  /\ \E n \in Ports \ Reserved :
       source' = [state |-> "managed", rev |-> source.rev + 1, spec |-> source.spec + 1, port |-> n]
  /\ Silent
  /\ UNCHANGED <<memory, instances, outside, history>>

SourceRetired ==
  /\ source.state = "busy"
  /\ source' = [source EXCEPT !.state = "retired", !.port = 0]
  /\ Silent
  /\ UNCHANGED <<memory, instances, outside, history>>

OutsideTakes(n) ==
  /\ n \notin outside
  /\ outside' = outside \cup {n}
  /\ Silent
  /\ UNCHANGED <<memory, database, history>>

OutsideGives(n) ==
  /\ n \in outside
  /\ outside' = outside \ {n}
  /\ Silent
  /\ UNCHANGED <<memory, database, history>>

\* IDLE_SECONDS have passed since the last command about a plan.  The next
\* command removes it before it looks at the plans, so that it is gone now.
Expire(p) ==
  /\ p \in Live
  /\ ~\E s \in Sessions : call[s].op = "commit" /\ call[s].plan = p
  /\ plan' = [plan EXCEPT ![p] = NoPlan]
  /\ Silent
  /\ UNCHANGED <<spent, call, database, outside, history>>

Restart ==
  /\ plan' = [p \in Plans |-> NoPlan]
  /\ call' = [s \in Sessions |-> Resting]
  /\ Silent
  /\ lost' = lost \cup {i.id : i \in {j \in instances : started[j.id] = 0}}
  /\ UNCHANGED <<spent, database, outside, started, screen>>

Create ==
  \E p \in CreateIds :
    PrepareCreate(p) \/ UpdateCreate(p) \/ ViewCreate(p) \/ DiscardCreate(p) \/ CheckCreate(p)
Clone ==
  \E p \in CloneIds :
    PrepareClone(p) \/ UpdateClone(p) \/ ViewClone(p) \/ DiscardClone(p) \/ CheckClone(p)
Commands ==
  \E s \in Sessions : Confirm(s) \/ Receipt(s) \/ Refused(s) \/ Commit(s) \/ Execute(s)
World ==
  \/ SourceAccepts
  \/ SourceDone
  \/ SourceRenamed
  \/ SourceEdited
  \/ SourceRetired
  \/ \E n \in Busy : OutsideTakes(n) \/ OutsideGives(n)
  \/ \E p \in Plans : Expire(p)
  \/ Restart

Next == Create \/ Clone \/ Commands \/ World

Spec == Init /\ [][Next]_vars

(***************************************************************************)
(* Properties.                                                             *)
(***************************************************************************)

\* What was committed is what the user saw when confirming, as a whole: the
\* content of the plan and its port, whatever edits, other views, lost answers
\* and other programs came in between.
ReviewedIsCommitted ==
  \A i \in instances : i.seen = [content |-> i.content, rev |-> i.rev, port |-> i.port]

\* A plan becomes at most one instance, and every later confirmation of the
\* same revision is answered with it and never with an error, whatever was
\* lost in between, unless its request id stands for another commitment.
AcceptedOnce ==
  /\ \A i, j \in instances : i.plan = j.plan => i = j
  /\ answer.result > 0 =>
       \E i \in instances : i.id = answer.result /\ SameCommit(i, answer.plan, answer.rev)
  /\ answer.result = NoInstance /\ answer.why # "used" =>
       ~\E i \in instances : SameCommit(i, answer.plan, answer.rev)

\* A clone takes its inputs from its source when it is planned and its image
\* resolution when it is committed.  Both are of one specification, and the
\* source was not about to be deleted.
CloneOfOneSource == \A i \in instances : i.image = i.of /\ i.alive

\* No two instances hold a port, although a create, a clone and an edit of
\* the source each choose one from an observation of their own.
NoPortTwice ==
  /\ \A i, j \in instances : i.port = j.port => i = j
  /\ \A i \in instances : i.port # source.port

\* The operation of an instance is started at most once, and was started
\* when its confirmation is answered, unless the application ended between
\* its acceptance and its start.
StartedOnce ==
  /\ \A n \in DOMAIN started : started[n] =< 1
  /\ answer.result > 0 => started[answer.result] = 1 \/ answer.result \in lost

================================================================================
