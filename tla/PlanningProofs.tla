---------------------------- MODULE PlanningProofs ----------------------------
(***************************************************************************)
(* What Planning says of the plans and of the instances made of them, for  *)
(* any ids, requests, ports and contents.  The inductive invariant says    *)
(* of each call what its checks have established and nobody can undo while *)
(* it holds the mutex of its session, and of each instance who answers for *)
(* its start.                                                              *)
(***************************************************************************)
EXTENDS Planning, FiniteSetTheorems, TLAPS

\* A plan is in memory under an id that was given to it.
IsClonePlan(d) ==
  d = [rev |-> d.rev, content |-> d.content, explicit |-> d.explicit, last |-> d.last,
       source |-> d.source]

PlansOK ==
  /\ plan = [p \in Plans |-> plan[p]]
  /\ \A p \in Plans :
       /\ plan[p].rev \in Nat
       /\ plan[p].rev > 0 => p \in spent
       /\ p \in CloneIds /\ plan[p].rev > 0 => IsClonePlan(plan[p])

\* What the screen shows of a plan is an earlier revision of it, or this one.
IsView(v) ==
  /\ v = [content |-> v.content, rev |-> v.rev, port |-> v.port]
  /\ v.rev \in Nat \ {0}
  /\ v.port # 0

NotAhead(v, d) == d.rev > 0 => v.rev =< d.rev
Agrees(v, d) == v.rev = d.rev => v.content = d.content

ScreenOK ==
  /\ screen = [p \in Plans |-> screen[p]]
  /\ \A p \in Plans : screen[p] # NoView =>
       /\ p \in spent
       /\ IsView(screen[p])
       /\ NotAhead(screen[p], plan[p])
       /\ Agrees(screen[p], plan[p])

\* A call holds what its user saw.  It was asked about a plan without an
\* instance; after its checks that plan is at the revision it is about; when
\* it has made an instance, it alone will start it.
IsCall(c) ==
  c = [op |-> c.op, plan |-> c.plan, request |-> c.request, rev |-> c.rev, port |-> c.port,
       seen |-> c.seen, taken |-> c.taken]

CallHolds(s, c) ==
  c.op # "idle" =>
    /\ IsCall(c)
    /\ c.plan \in IdsOf(s)
    /\ c.plan \in spent
    /\ IsView(c.seen)
    /\ c.rev = c.seen.rev
    /\ c.port = c.seen.port
    /\ NotAhead(c.seen, plan[c.plan])
    /\ Agrees(c.seen, plan[c.plan])

CallOK(s, c) ==
  /\ c.op \in {"idle", "confirm", "commit", "accepted"}
  /\ CallHolds(s, c)
  /\ c.op \in {"confirm", "commit"} => PlanReceipt(c.plan) = {}
  /\ c.op = "commit" => plan[c.plan].rev = c.rev
  /\ c.op = "accepted" => \E i \in instances : SameCommit(i, c.plan, c.rev) /\ started[i.id] = 0

CallsOK ==
  /\ call = [s \in Sessions |-> call[s]]
  /\ \A s \in Sessions : CallOK(s, call[s])

\* Ids count the instances, and two instances share nothing that names one.
InstancesOK ==
  /\ IsFiniteSet(instances)
  /\ \A i \in instances :
       /\ i.plan \in Plans
       /\ i.id \in 1..Cardinality(instances)
       /\ i.port # 0
       /\ i.port # source.port
  /\ \A i, j \in instances : i.plan = j.plan \/ i.id = j.id \/ i.port = j.port => i = j

SourceOK ==
  source = [state |-> source.state, rev |-> source.rev, spec |-> source.spec, port |-> source.port]

\* An instance was started once, or is about to be, or the application ended.
WillStart(i) == \E s \in Sessions : call[s].op = "accepted" /\ call[s].plan = i.plan

StartsOK ==
  /\ started \in [1..Cardinality(Plans) -> 0..1]
  /\ \A n \in 1..Cardinality(Plans) : n > Cardinality(instances) => started[n] = 0
  /\ \A i \in instances : started[i.id] = 1 \/ i.id \in lost \/ WillStart(i)

AnswerOK == answer.result > 0 => started[answer.result] = 1 \/ answer.result \in lost

PlInv ==
  /\ PlansOK
  /\ ScreenOK
  /\ CallsOK
  /\ InstancesOK
  /\ SourceOK
  /\ StartsOK
  /\ AnswerOK
  /\ ReviewedIsCommitted
  /\ AcceptedOnce
  /\ CloneOfOneSource


(***************************************************************************)
(* The operators.                                                          *)
(***************************************************************************)

\* Instances of different plans are no more than the plans.
LEMMA AsManyAsPlans ==
  ASSUME NEW S, \A i \in S : i.plan \in Plans, \A i, j \in S : i.plan = j.plan => i = j
  PROVE  /\ IsFiniteSet(S)
         /\ IsFiniteSet(Plans)
         /\ Cardinality(S) =< Cardinality(Plans)
         /\ Cardinality(S) \in Nat /\ Cardinality(Plans) \in Nat
<1>1. IsFiniteSet(Plans)
  BY PlanningAssumption, FS_Union DEF Plans
<1>2. PICK f : f = [i \in S |-> i.plan]
  OBVIOUS
<1>3. f \in [S -> Plans]
  BY <1>2
<1>4. IsInjective(f)
  BY <1>2 DEF IsInjective
<1>5. f \in Injection(S, Plans)
  BY <1>3, <1>4 DEF Injection
<1>6. IsFiniteSet(S) /\ Cardinality(S) =< Cardinality(Plans)
  BY <1>1, <1>5, FS_Injection
<1>7. QED
  BY <1>1, <1>6, FS_CardinalityType

\* The two sessions have plans of their own.
LEMMA OwnPlans ==
  ASSUME NEW s \in Sessions, NEW t \in Sessions, NEW p, p \in IdsOf(s), p \in IdsOf(t)
  PROVE  s = t /\ p \in Plans
BY PlanningAssumption DEF Sessions, IdsOf, Plans

\* A preview shows the content and the revision of its plan, and without a
\* concern a port.
LEMMA Previews ==
  ASSUME NEW d, NEW taken, NEW over, d.rev \in Nat \ {0}
  PROVE  /\ PreviewCreate(d, taken, over).content = d.content
         /\ PreviewCreate(d, taken, over).rev = d.rev
         /\ PreviewClone(d, taken, over).content = d.content
         /\ PreviewClone(d, taken, over).rev = d.rev
         /\ NoConcern(PreviewCreate(d, taken, over)) => IsView(PreviewCreate(d, taken, over))
         /\ NoConcern(PreviewClone(d, taken, over)) => IsView(PreviewClone(d, taken, over))
<1>1. PICK n : n = IF over THEN 0 ELSE PortFor(d.explicit, 0, taken)
  OBVIOUS
<1>2. PreviewCreate(d, taken, over) = [content |-> d.content, rev |-> d.rev, port |-> n]
  BY <1>1 DEF PreviewCreate
<1>3. PICK m : PreviewClone(d, taken, over) = [content |-> d.content, rev |-> d.rev, port |-> m]
  BY DEF PreviewClone
<1>4. QED
  BY <1>2, <1>3 DEF NoConcern, IsView

\* The next state of a clone plan is one of the same content, and its revision
\* moves only forward.
LEMMA Advances ==
  ASSUME NEW d, NEW view, NEW advance \in BOOLEAN, IsClonePlan(d), d.rev \in Nat \ {0}
  PROVE  /\ IsClonePlan(AfterClone(d, view, advance))
         /\ AfterClone(d, view, advance).content = d.content
         /\ AfterClone(d, view, advance).rev \in Nat \ {0}
         /\ AfterClone(d, view, advance).rev \in {d.rev, d.rev + 1}
         /\ AfterClone(d, view, advance).rev >= d.rev
         /\ ~advance => AfterClone(d, view, advance).rev = d.rev
<1>1. PICK rev : rev = IF advance /\ ~AdvanceKeeps(d, view.port) THEN d.rev + 1 ELSE d.rev
  OBVIOUS
<1>2. PICK last : last = IF view.port = 0 THEN d.last ELSE view.port
  OBVIOUS
<1>3. AfterClone(d, view, advance) =
        [rev |-> rev, content |-> d.content, explicit |-> d.explicit, last |-> last, source |-> d.source]
  <2>1. AfterClone(d, view, advance) = [d EXCEPT !.rev = rev, !.last = last]
    BY <1>1, <1>2 DEF AfterClone
  <2>2. PICK r, c, e, l, s : d = [rev |-> r, content |-> c, explicit |-> e, last |-> l, source |-> s]
    BY DEF IsClonePlan
  <2>3. QED
    BY <2>1, <2>2
<1>4. rev \in Nat \ {0} /\ rev \in {d.rev, d.rev + 1} /\ (~advance => rev = d.rev)
  BY <1>1
<1>5. QED
  BY <1>3, <1>4 DEF IsClonePlan

\* A show leaves the screen alone or puts the view of one plan on it.
LEMMA Shown ==
  ASSUME NEW p, NEW view, Show(p, view)
  PROVE  screen' = screen \/ (NoConcern(view) /\ screen' = [screen EXCEPT ![p] = view])
BY DEF Show

(***************************************************************************)
(* Steps that share a shape.                                               *)
(***************************************************************************)

LEMMA Settled ==
  ASSUME PlInv, Silent, UNCHANGED <<instances, source, started, lost, call>>
  PROVE  /\ InstancesOK' /\ SourceOK' /\ StartsOK' /\ AnswerOK'
         /\ ReviewedIsCommitted' /\ AcceptedOnce' /\ CloneOfOneSource'
<1>1. InstancesOK' /\ SourceOK' /\ ReviewedIsCommitted' /\ CloneOfOneSource'
  BY DEF PlInv, InstancesOK, SourceOK, ReviewedIsCommitted, CloneOfOneSource
<1>2. StartsOK'
  BY DEF PlInv, StartsOK, WillStart
<1>3. answer'.result = -1
  BY DEF Silent, NoAnswer
<1>4. AnswerOK' /\ AcceptedOnce'
  BY <1>3 DEF PlInv, AnswerOK, AcceptedOnce, NoInstance
<1>5. QED
  BY <1>1, <1>2, <1>4

\* A command that writes a revision of a plan of its session, which is not
\* behind the screen, and may show it.
LEMMA Drafted ==
  ASSUME PlInv, NEW s \in Sessions, NEW p \in IdsOf(s), NEW d, NEW view,
         Free(s),
         plan' = [plan EXCEPT ![p] = d],
         spent \subseteq spent', p \in spent',
         d.rev \in Nat \ {0},
         p \in CloneIds => IsClonePlan(d),
         screen[p] # NoView => NotAhead(screen[p], d) /\ Agrees(screen[p], d),
         screen' = screen \/ (IsView(view) /\ view.rev = d.rev /\ view.content = d.content
                              /\ screen' = [screen EXCEPT ![p] = view]),
         Silent,
         UNCHANGED <<call, database, outside, started, lost>>
  PROVE  PlInv'
<1>1. p \in Plans
  BY OwnPlans
<1>2. PlansOK'
  BY <1>1 DEF PlInv, PlansOK
<1>3. \A q \in Plans : plan'[q] = IF q = p THEN d ELSE plan[q]
  BY DEF PlInv, PlansOK
<1>4. screen' = [q \in Plans |-> screen'[q]]
  BY <1>1 DEF PlInv, ScreenOK
<1>5. ASSUME NEW q \in Plans, screen'[q] # NoView
      PROVE  q \in spent' /\ IsView(screen'[q]) /\ NotAhead(screen'[q], plan'[q]) /\ Agrees(screen'[q], plan'[q])
  <2>1. CASE q # p
    BY <2>1, <1>3, <1>5 DEF PlInv, ScreenOK
  <2>2. CASE q = p /\ screen' = screen
    BY <2>2, <1>3, <1>5 DEF PlInv, ScreenOK
  <2>3. CASE q = p /\ screen' # screen
    <3>1. screen'[p] = view
      BY <2>3, <1>1 DEF PlInv, ScreenOK
    <3>2. QED
      BY <2>3, <3>1, <1>1, <1>3 DEF NotAhead, Agrees
  <2>4. QED
    BY <2>1, <2>2, <2>3
<1>6. ScreenOK'
  BY <1>4, <1>5 DEF ScreenOK
<1>7. ASSUME NEW t \in Sessions PROVE CallOK(t, call[t])'
  <2>1. CallOK(t, call[t])
    BY DEF PlInv, CallsOK
  <2>2. CASE call[t].op = "idle"
    BY <2>2 DEF CallOK, CallHolds
  <2>3. CASE call[t].op # "idle"
    <3>1. call[t].plan \in IdsOf(t)
      BY <2>1, <2>3 DEF CallOK, CallHolds
    <3>2. t # s
      BY <2>3 DEF Free
    <3>3. call[t].plan # p /\ call[t].plan \in Plans
      BY <3>1, <3>2, OwnPlans
    <3>4. plan'[call[t].plan] = plan[call[t].plan]
      BY <3>3, <1>3
    <3>5. QED
      BY <2>1, <3>4 DEF CallOK, CallHolds, PlanReceipt, database
  <2>4. QED
    BY <2>2, <2>3
<1>8. CallsOK'
  BY <1>7 DEF PlInv, CallsOK
<1>9. QED
  BY <1>2, <1>6, <1>8, Settled DEF PlInv, database

\* A plan is gone: discarded, or expired before its transaction.
LEMMA Dropped ==
  ASSUME PlInv, NEW p \in Plans,
         ~\E s \in Sessions : call[s].op = "commit" /\ call[s].plan = p,
         plan' = [plan EXCEPT ![p] = NoPlan],
         Silent,
         UNCHANGED <<spent, call, database, outside, history>>
  PROVE  PlInv'
<1>1. \A q \in Plans : plan'[q] = IF q = p THEN NoPlan ELSE plan[q]
  BY DEF PlInv, PlansOK
<1>2. NoPlan.rev = 0
  BY DEF NoPlan
<1>3. PlansOK'
  BY <1>1, <1>2 DEF PlInv, PlansOK
<1>4. ASSUME NEW v, IsView(v) PROVE NotAhead(v, NoPlan) /\ Agrees(v, NoPlan)
  BY <1>2, <1>4 DEF IsView, NotAhead, Agrees
<1>5. ScreenOK'
  BY <1>1, <1>4 DEF PlInv, ScreenOK, history
<1>6. ASSUME NEW t \in Sessions PROVE CallOK(t, call[t])'
  <2>1. CallOK(t, call[t])
    BY DEF PlInv, CallsOK
  <2>2. CASE call[t].op = "idle"
    BY <2>2 DEF CallOK, CallHolds
  <2>3. CASE call[t].op # "idle"
    <3>1. call[t].plan \in Plans /\ IsView(call[t].seen)
      BY <2>1, <2>3, OwnPlans DEF CallOK, CallHolds
    <3>2. CallHolds(t, call[t])'
      BY <2>1, <3>1, <1>1, <1>4 DEF CallOK, CallHolds
    <3>3. QED
      BY <2>1, <3>1, <3>2, <1>1 DEF CallOK, PlanReceipt, database, history
  <2>4. QED
    BY <2>2, <2>3
<1>7. CallsOK'
  BY <1>6 DEF PlInv, CallsOK
<1>8. QED
  BY <1>3, <1>5, <1>7, Settled DEF PlInv, database, history

\* Plans, instances and the screen stay; the source keeps off the ports of the
\* instances.
LEMMA Elsewhere ==
  ASSUME PlInv, Silent, UNCHANGED <<memory, instances, history>>,
         SourceOK', \A i \in instances : i.port # source'.port
  PROVE  PlInv'
<1>1. PlansOK' /\ ScreenOK'
  BY DEF PlInv, PlansOK, ScreenOK, memory, history
<1>2. CallsOK'
  BY DEF PlInv, CallsOK, CallOK, CallHolds, PlanReceipt, memory, history
<1>3. InstancesOK' /\ ReviewedIsCommitted' /\ CloneOfOneSource'
  BY DEF PlInv, InstancesOK, ReviewedIsCommitted, CloneOfOneSource
<1>4. StartsOK'
  BY DEF PlInv, StartsOK, WillStart, memory, history
<1>5. answer'.result = -1
  BY DEF Silent, NoAnswer
<1>6. AnswerOK' /\ AcceptedOnce'
  BY <1>5 DEF PlInv, AnswerOK, AcceptedOnce, NoInstance
<1>7. QED
  BY <1>1, <1>2, <1>3, <1>4, <1>6 DEF PlInv

(***************************************************************************)
(* The steps one by one.                                                   *)
(***************************************************************************)

LEMMA Initially == Init => PlInv
<1> SUFFICES ASSUME Init PROVE PlInv
  OBVIOUS
<1>1. PlansOK
  BY DEF Init, PlansOK, NoPlan
<1>2. ScreenOK
  BY DEF Init, ScreenOK
<1>3. CallsOK
  BY DEF Init, CallsOK, CallOK, CallHolds, Resting
<1>4. InstancesOK /\ SourceOK /\ ReviewedIsCommitted /\ CloneOfOneSource
  BY FS_EmptySet DEF Init, InstancesOK, SourceOK, ReviewedIsCommitted, CloneOfOneSource
<1>5. IsFiniteSet(Plans) /\ Cardinality(Plans) \in Nat
  BY PlanningAssumption, FS_Union, FS_CardinalityType DEF Plans
<1>6. StartsOK
  BY <1>5 DEF Init, StartsOK
<1>7. answer.result = -1
  BY DEF Init, NoAnswer
<1>8. AnswerOK /\ AcceptedOnce
  BY <1>7 DEF Init, AnswerOK, AcceptedOnce, NoInstance
<1>9. QED
  BY <1>1, <1>2, <1>3, <1>4, <1>6, <1>8 DEF PlInv

LEMMA PrepareKeeps ==
  ASSUME PlInv, NEW p, (p \in CreateIds /\ PrepareCreate(p)) \/ (p \in CloneIds /\ PrepareClone(p))
  PROVE  PlInv'
<1>1. p \in Plans /\ screen[p] = NoView
  <2>1. p \in Plans /\ p \notin spent
    BY DEF PrepareCreate, PrepareClone, NewId, Plans
  <2>2. QED
    BY <2>1 DEF PlInv, ScreenOK
<1>2. CASE p \in CreateIds /\ PrepareCreate(p)
  <2>1. PICK content \in Contents, over \in BOOLEAN :
          LET d == [rev |-> 1, content |-> content, explicit |-> 0]
          IN plan' = [plan EXCEPT ![p] = d] /\ Show(p, PreviewCreate(d, Observed, over))
    BY <1>2 DEF PrepareCreate
  <2>2. PICK d : d = [rev |-> 1, content |-> content, explicit |-> 0]
    OBVIOUS
  <2>3. PICK view : view = PreviewCreate(d, Observed, over)
    OBVIOUS
  <2>4. plan' = [plan EXCEPT ![p] = d] /\ Show(p, view) /\ d.rev \in Nat \ {0}
    BY <2>1, <2>2, <2>3
  <2>5. view.content = d.content /\ view.rev = d.rev /\ (NoConcern(view) => IsView(view))
    BY <2>3, <2>4, Previews
  <2>6. "create" \in Sessions /\ p \in IdsOf("create") /\ p \notin CloneIds
    BY <1>2, PlanningAssumption DEF Sessions, IdsOf
  <2>7. QED
    BY <1>1, <1>2, <2>4, <2>5, <2>6, Shown, Drafted DEF PrepareCreate
<1>3. CASE p \in CloneIds /\ PrepareClone(p)
  <2>1. PICK content \in Contents, over \in BOOLEAN, of \in CloneSource :
          LET d == [rev |-> 1, content |-> content, explicit |-> 0, last |-> 0, source |-> of]
              view == PreviewClone(d, Observed, over)
          IN plan' = [plan EXCEPT ![p] = AfterClone(d, view, FALSE)] /\ Show(p, view)
    BY <1>3 DEF PrepareClone
  <2>2. PICK d : d = [rev |-> 1, content |-> content, explicit |-> 0, last |-> 0, source |-> of]
    OBVIOUS
  <2>3. PICK view : view = PreviewClone(d, Observed, over)
    OBVIOUS
  <2>4. PICK next : next = AfterClone(d, view, FALSE)
    OBVIOUS
  <2>5. plan' = [plan EXCEPT ![p] = next] /\ Show(p, view)
    BY <2>1, <2>2, <2>3, <2>4
  <2>6. IsClonePlan(d) /\ d.rev \in Nat \ {0}
    BY <2>2 DEF IsClonePlan
  <2>7. view.content = d.content /\ view.rev = d.rev /\ (NoConcern(view) => IsView(view))
    BY <2>3, <2>6, Previews
  <2>8. IsClonePlan(next) /\ next.content = d.content /\ next.rev = d.rev
    BY <2>4, <2>6, Advances
  <2>9. "clone" \in Sessions /\ p \in IdsOf("clone")
    BY <1>3 DEF Sessions, IdsOf
  <2>10. screen' = screen \/ (IsView(view) /\ view.rev = next.rev /\ view.content = next.content
                              /\ screen' = [screen EXCEPT ![p] = view])
    BY <2>5, <2>7, <2>8, Shown
  <2>11. /\ Free("clone") /\ spent' = spent \cup {p} /\ Silent
         /\ UNCHANGED <<call, database, outside, started, lost>>
    BY <1>3 DEF PrepareClone
  <2>12. next.rev \in Nat \ {0}
    BY <2>6, <2>8
  <2>13. QED
    BY <1>1, <2>5, <2>8, <2>9, <2>10, <2>11, <2>12, Drafted
<1>4. QED
  BY <1>2, <1>3

\* The screen is not ahead of the plan, so a further revision is ahead of it.
LEMMA Further ==
  ASSUME PlInv, NEW p \in Live, NEW rev, NEW d, d.rev = rev, rev = plan[p].rev + 1
  PROVE  /\ screen[p] # NoView => NotAhead(screen[p], d) /\ Agrees(screen[p], d)
         /\ rev \in Nat \ {0}
         /\ p \in spent
<1>1. p \in Plans /\ plan[p].rev \in Nat \ {0} /\ p \in spent
  BY DEF Live, PlInv, PlansOK
<1>2. ASSUME screen[p] # NoView PROVE NotAhead(screen[p], d) /\ Agrees(screen[p], d)
  <2>1. IsView(screen[p]) /\ screen[p].rev =< plan[p].rev
    BY <1>1, <1>2 DEF PlInv, ScreenOK, NotAhead
  <2>2. QED
    BY <1>1, <2>1 DEF IsView, NotAhead, Agrees
<1>3. QED
  BY <1>1, <1>2

LEMMA LiveForms ==
  ASSUME PlInv, NEW p \in Live
  PROVE  /\ p \in Plans
         /\ plan[p].rev \in Nat \ {0}
         /\ p \in spent
         /\ p \in CloneIds => IsClonePlan(plan[p])
         /\ screen[p] # NoView => NotAhead(screen[p], plan[p]) /\ Agrees(screen[p], plan[p])
BY DEF Live, PlInv, PlansOK, ScreenOK

LEMMA UpdateKeeps ==
  ASSUME PlInv, NEW p, (p \in CreateIds /\ UpdateCreate(p)) \/ (p \in CloneIds /\ UpdateClone(p))
  PROVE  PlInv'
<1>1. p \in Plans /\ plan[p].rev \in 1..MaxRevision - 1
  BY DEF UpdateCreate, UpdateClone, Plans
<1>2. p \in Live
  BY <1>1, PlanningAssumption DEF Live
<1>3. CASE p \in CreateIds /\ UpdateCreate(p)
  <2>1. PICK content \in Contents, explicit \in {0} \cup Busy, over \in BOOLEAN :
          LET d == [rev |-> plan[p].rev + 1, content |-> content, explicit |-> explicit]
          IN plan' = [plan EXCEPT ![p] = d] /\ Show(p, PreviewCreate(d, Observed, over))
    BY <1>3 DEF UpdateCreate
  <2>2. PICK d : d = [rev |-> plan[p].rev + 1, content |-> content, explicit |-> explicit]
    OBVIOUS
  <2>3. PICK view : view = PreviewCreate(d, Observed, over)
    OBVIOUS
  <2>4. plan' = [plan EXCEPT ![p] = d] /\ Show(p, view) /\ d.rev = plan[p].rev + 1
    BY <2>1, <2>2, <2>3
  <2>5. /\ screen[p] # NoView => NotAhead(screen[p], d) /\ Agrees(screen[p], d)
        /\ d.rev \in Nat \ {0} /\ p \in spent
    BY <1>2, <2>4, Further
  <2>6. view.content = d.content /\ view.rev = d.rev /\ (NoConcern(view) => IsView(view))
    BY <2>3, <2>5, Previews
  <2>7. "create" \in Sessions /\ p \in IdsOf("create") /\ p \notin CloneIds
    BY <1>3, PlanningAssumption DEF Sessions, IdsOf
  <2>8. QED
    BY <1>3, <2>4, <2>5, <2>6, <2>7, Shown, Drafted DEF UpdateCreate
<1>4. CASE p \in CloneIds /\ UpdateClone(p)
  <2>1. PICK content \in Contents, explicit \in {0} \cup Busy, over \in BOOLEAN :
          LET d == [plan[p] EXCEPT !.rev = @ + 1, !.content = content, !.explicit = explicit]
              view == PreviewClone(d, Observed, over)
          IN plan' = [plan EXCEPT ![p] = AfterClone(d, view, FALSE)] /\ Show(p, view)
    BY <1>4 DEF UpdateClone
  <2>2. PICK d : d = [plan[p] EXCEPT !.rev = @ + 1, !.content = content, !.explicit = explicit]
    OBVIOUS
  <2>3. PICK view : view = PreviewClone(d, Observed, over)
    OBVIOUS
  <2>4. PICK next : next = AfterClone(d, view, FALSE)
    OBVIOUS
  <2>5. plan' = [plan EXCEPT ![p] = next] /\ Show(p, view)
    BY <2>1, <2>2, <2>3, <2>4
  <2>6. IsClonePlan(d) /\ d.rev = plan[p].rev + 1
    <3>1. PICK old : old = plan[p]
      OBVIOUS
    <3>2. IsClonePlan(old)
      BY <1>2, <1>4, <3>1, LiveForms
    <3>3. PICK r, c, e, l, s :
            old = [rev |-> r, content |-> c, explicit |-> e, last |-> l, source |-> s]
      BY <3>2 DEF IsClonePlan
    <3>4. d = [old EXCEPT !.rev = r + 1, !.content = content, !.explicit = explicit]
      BY <2>2, <3>1, <3>3
    <3>5. d = [rev |-> r + 1, content |-> content, explicit |-> explicit, last |-> l, source |-> s]
      BY <3>3, <3>4
    <3>6. QED
      BY <3>1, <3>3, <3>5 DEF IsClonePlan
  <2>7. d.rev \in Nat \ {0} /\ p \in spent
    BY <1>2, <2>6, Further
  <2>8. view.content = d.content /\ view.rev = d.rev /\ (NoConcern(view) => IsView(view))
    BY <2>3, <2>7, Previews
  <2>9. IsClonePlan(next) /\ next.content = d.content /\ next.rev = d.rev
    BY <2>4, <2>6, <2>7, Advances
  <2>10. screen[p] # NoView => NotAhead(screen[p], next) /\ Agrees(screen[p], next)
    BY <1>2, <2>6, <2>9, Further
  <2>11. "clone" \in Sessions /\ p \in IdsOf("clone")
    BY <1>4 DEF Sessions, IdsOf
  <2>12. screen' = screen \/ (IsView(view) /\ view.rev = next.rev /\ view.content = next.content
                              /\ screen' = [screen EXCEPT ![p] = view])
    BY <2>5, <2>8, <2>9, Shown
  <2>13. /\ Free("clone") /\ spent' = spent /\ Silent
         /\ UNCHANGED <<call, database, outside, started, lost>>
    BY <1>4 DEF UpdateClone
  <2>14. next.rev \in Nat \ {0}
    BY <2>7, <2>9
  <2>15. QED
    BY <2>5, <2>7, <2>9, <2>10, <2>11, <2>12, <2>13, <2>14, Drafted
<1>5. QED
  BY <1>3, <1>4

\* The plan a view leaves behind: as it was, or a revision further on.
LEMMA Viewed ==
  ASSUME PlInv, NEW p \in Live, p \in CloneIds, NEW view, NEW next,
         next = AfterClone(plan[p], view, TRUE)
  PROVE  /\ IsClonePlan(next)
         /\ next.content = plan[p].content
         /\ next.rev \in Nat \ {0}
         /\ next.rev >= plan[p].rev
         /\ screen[p] # NoView => NotAhead(screen[p], next) /\ Agrees(screen[p], next)
<1>1. IsClonePlan(plan[p]) /\ plan[p].rev \in Nat \ {0} /\ TRUE \in BOOLEAN
  BY LiveForms
<1>2. /\ IsClonePlan(next) /\ next.content = plan[p].content
      /\ next.rev \in Nat \ {0} /\ next.rev \in {plan[p].rev, plan[p].rev + 1} /\ next.rev >= plan[p].rev
  BY <1>1, Advances
<1>3. CASE next.rev = plan[p].rev
  BY <1>2, <1>3, LiveForms DEF NotAhead, Agrees
<1>4. CASE next.rev = plan[p].rev + 1
  BY <1>2, <1>4, Further
<1>5. QED
  BY <1>2, <1>3, <1>4

LEMMA ViewKeeps ==
  ASSUME PlInv, NEW p, (p \in CreateIds /\ ViewCreate(p)) \/ (p \in CloneIds /\ ViewClone(p))
  PROVE  PlInv'
<1>1. p \in Live
  BY DEF ViewCreate, ViewClone
<1>2. CASE p \in CreateIds /\ ViewCreate(p)
  <2>1. PICK over \in BOOLEAN : Show(p, PreviewCreate(plan[p], Observed, over))
    BY <1>2 DEF ViewCreate
  <2>2. PICK d : d = plan[p]
    OBVIOUS
  <2>3. PICK view : view = PreviewCreate(plan[p], Observed, over)
    OBVIOUS
  <2>4. plan' = [plan EXCEPT ![p] = d]
    BY <1>1, <1>2, <2>2 DEF ViewCreate, PlInv, PlansOK, Live
  <2>5. view.content = d.content /\ view.rev = d.rev /\ (NoConcern(view) => IsView(view))
    BY <1>1, <2>2, <2>3, LiveForms, Previews
  <2>6. "create" \in Sessions /\ p \in IdsOf("create") /\ p \notin CloneIds
    BY <1>2, PlanningAssumption DEF Sessions, IdsOf
  <2>7. spent' = spent /\ p \in spent /\ d.rev \in Nat \ {0}
    BY <1>1, <1>2, <2>2, LiveForms DEF ViewCreate
  <2>8. screen[p] # NoView => NotAhead(screen[p], d) /\ Agrees(screen[p], d)
    BY <1>1, <2>2, LiveForms
  <2>9. Show(p, view)
    BY <2>1, <2>3
  <2>10. QED
    BY <1>2, <2>4, <2>5, <2>6, <2>7, <2>8, <2>9, Shown, Drafted DEF ViewCreate
<1>3. CASE p \in CloneIds /\ ViewClone(p)
  <2>1. PICK over \in BOOLEAN :
          LET view == PreviewClone(plan[p], Observed, over)
              next == AfterClone(plan[p], view, TRUE)
          IN plan' = [plan EXCEPT ![p] = next] /\ Show(p, [view EXCEPT !.rev = next.rev])
    BY <1>3 DEF ViewClone
  <2>2. PICK view : view = PreviewClone(plan[p], Observed, over)
    OBVIOUS
  <2>3. PICK next : next = AfterClone(plan[p], view, TRUE)
    OBVIOUS
  <2>4. PICK shown : shown = [view EXCEPT !.rev = next.rev]
    OBVIOUS
  <2>5. plan' = [plan EXCEPT ![p] = next] /\ Show(p, shown)
    BY <2>1, <2>2, <2>3, <2>4
  <2>6. /\ IsClonePlan(next) /\ next.content = plan[p].content /\ next.rev \in Nat \ {0}
        /\ screen[p] # NoView => NotAhead(screen[p], next) /\ Agrees(screen[p], next)
    BY <1>1, <1>3, <2>3, Viewed
  <2>7. PICK m : view = [content |-> plan[p].content, rev |-> plan[p].rev, port |-> m]
    BY <2>2 DEF PreviewClone
  <2>8. shown = [content |-> plan[p].content, rev |-> next.rev, port |-> m]
    BY <2>4, <2>7
  <2>9. shown.content = next.content /\ shown.rev = next.rev /\ (NoConcern(shown) => IsView(shown))
    BY <2>6, <2>8 DEF NoConcern, IsView
  <2>10. "clone" \in Sessions /\ p \in IdsOf("clone")
    BY <1>3 DEF Sessions, IdsOf
  <2>11. p \in spent /\ spent' = spent
    BY <1>1, <1>3, LiveForms DEF ViewClone
  <2>12. QED
    BY <1>3, <2>5, <2>6, <2>9, <2>10, <2>11, Shown, Drafted DEF ViewClone
<1>4. QED
  BY <1>2, <1>3

LEMMA DiscardKeeps ==
  ASSUME PlInv, NEW p, (p \in CreateIds /\ DiscardCreate(p)) \/ (p \in CloneIds /\ DiscardClone(p))
  PROVE  PlInv'
<1>1. PICK s \in Sessions : p \in IdsOf(s) /\ Free(s)
  BY DEF DiscardCreate, DiscardClone, IdsOf, Sessions
<1>2. ASSUME NEW t \in Sessions, call[t].op = "commit", call[t].plan = p PROVE FALSE
  <2>1. call[t].plan \in IdsOf(t)
    BY <1>2 DEF PlInv, CallsOK, CallOK, CallHolds
  <2>2. t = s
    BY <1>1, <1>2, <2>1, OwnPlans
  <2>3. QED
    BY <1>1, <1>2, <2>2 DEF Free
<1>3. p \in Plans
  BY <1>1, OwnPlans
<1>4. QED
  BY <1>2, <1>3, Dropped DEF DiscardCreate, DiscardClone

\* Nobody waits for the start of an instance whose session is free.
LEMMA NotWaiting ==
  ASSUME PlInv, NEW s \in Sessions, Free(s), NEW i \in instances, i.plan \in IdsOf(s)
  PROVE  started[i.id] = 1 \/ i.id \in lost
<1>1. ASSUME NEW t \in Sessions, call[t].op = "accepted", call[t].plan = i.plan PROVE FALSE
  <2>1. call[t].plan \in IdsOf(t)
    BY <1>1 DEF PlInv, CallsOK, CallOK, CallHolds
  <2>2. t = s
    BY <1>1, <2>1, OwnPlans
  <2>3. QED
    BY <1>1, <2>2 DEF Free
<1>2. QED
  BY <1>1 DEF PlInv, StartsOK, WillStart

\* A command that only answers.
LEMMA Answers ==
  ASSUME PlInv, UNCHANGED <<plan, spent, call, database, outside, started, lost, screen>>,
         answer'.result > 0 =>
           /\ started[answer'.result] = 1 \/ answer'.result \in lost
           /\ \E i \in instances : i.id = answer'.result /\ SameCommit(i, answer'.plan, answer'.rev),
         answer'.result = NoInstance /\ answer'.why # "used" =>
           ~\E i \in instances : SameCommit(i, answer'.plan, answer'.rev)
  PROVE  PlInv'
<1>1. PlansOK' /\ ScreenOK'
  BY DEF PlInv, PlansOK, ScreenOK
<1>2. CallsOK'
  BY DEF PlInv, CallsOK, CallOK, CallHolds, PlanReceipt, database
<1>3. InstancesOK' /\ SourceOK' /\ ReviewedIsCommitted' /\ CloneOfOneSource'
  BY DEF PlInv, InstancesOK, SourceOK, ReviewedIsCommitted, CloneOfOneSource, database
<1>4. StartsOK'
  BY DEF PlInv, StartsOK, WillStart, database
<1>5. AnswerOK' /\ AcceptedOnce'
  BY DEF PlInv, AnswerOK, AcceptedOnce, NoInstance, SameCommit, database
<1>6. QED
  BY <1>1, <1>2, <1>3, <1>4, <1>5 DEF PlInv

\* A call that has made no instance moves on, and may move its plan.
LEMMA Moves ==
  ASSUME PlInv, NEW s \in Sessions, NEW c, NEW p \in IdsOf(s), NEW d,
         call' = [call EXCEPT ![s] = c], call[s].op # "accepted", CallOK(s, c)',
         plan' = [plan EXCEPT ![p] = d],
         d.rev \in Nat, d.rev > 0 => p \in spent, p \in CloneIds /\ d.rev > 0 => IsClonePlan(d),
         screen[p] # NoView => NotAhead(screen[p], d) /\ Agrees(screen[p], d),
         UNCHANGED <<spent, database, outside, history>>
  PROVE  /\ PlansOK' /\ ScreenOK' /\ CallsOK' /\ InstancesOK' /\ SourceOK' /\ StartsOK'
         /\ ReviewedIsCommitted' /\ CloneOfOneSource'
<1>1. p \in Plans
  BY OwnPlans
<1>2. \A q \in Plans : plan'[q] = IF q = p THEN d ELSE plan[q]
  BY DEF PlInv, PlansOK
<1>3. PlansOK'
  BY <1>1, <1>2 DEF PlInv, PlansOK
<1>4. ScreenOK'
  BY <1>1, <1>2 DEF PlInv, ScreenOK, history
<1>5. InstancesOK' /\ SourceOK' /\ ReviewedIsCommitted' /\ CloneOfOneSource'
  BY DEF PlInv, InstancesOK, SourceOK, ReviewedIsCommitted, CloneOfOneSource, database
<1>6. \A t \in Sessions : call'[t] = IF t = s THEN c ELSE call[t]
  BY DEF PlInv, CallsOK
<1>7. StartsOK'
  BY <1>6 DEF PlInv, StartsOK, WillStart, database, history
<1>8. ASSUME NEW t \in Sessions PROVE CallOK(t, call[t])'
  <2>1. CASE t = s
    <3>1. call'[t] = c
      BY <2>1, <1>6
    <3>2. QED
      BY <2>1, <3>1 DEF CallOK, CallHolds, PlanReceipt
  <2>2. CASE t # s
    <3>1. CallOK(t, call[t]) /\ call'[t] = call[t]
      BY <2>2, <1>6 DEF PlInv, CallsOK
    <3>2. CASE call[t].op = "idle"
      BY <3>1, <3>2 DEF CallOK, CallHolds
    <3>3. CASE call[t].op # "idle"
      <4>1. call[t].plan \in IdsOf(t)
        BY <3>1, <3>3 DEF CallOK, CallHolds
      <4>2. call[t].plan # p /\ call[t].plan \in Plans
        BY <2>2, <4>1, OwnPlans
      <4>3. plan'[call[t].plan] = plan[call[t].plan]
        BY <4>2, <1>2
      <4>4. QED
        BY <3>1, <4>3 DEF CallOK, CallHolds, PlanReceipt, database, history
    <3>4. QED
      BY <3>2, <3>3
  <2>3. QED
    BY <2>1, <2>2
<1>9. CallsOK'
  BY <1>8 DEF PlInv, CallsOK
<1>10. QED
  BY <1>3, <1>4, <1>5, <1>7, <1>9

\* A call is refused before its transaction: nothing has come of its plan.
LEMMA Refusals ==
  ASSUME PlInv, NEW s \in Sessions, NEW why, Refuse(s, why), call[s].op \in {"confirm", "commit"},
         UNCHANGED database, UNCHANGED history
  PROVE  AnswerOK' /\ AcceptedOnce' /\ call' = [call EXCEPT ![s] = Resting] /\ CallOK(s, Resting)'
<1>1. /\ answer' = [result |-> 0, why |-> why, plan |-> call[s].plan, rev |-> call[s].rev]
      /\ call' = [call EXCEPT ![s] = Resting]
  BY DEF Refuse, Release, Outcome, NoInstance
<1>2. PlanReceipt(call[s].plan) = {}
  BY DEF PlInv, CallsOK, CallOK
<1>3. AnswerOK' /\ AcceptedOnce'
  BY <1>1, <1>2 DEF PlInv, AnswerOK, AcceptedOnce, PlanReceipt, SameCommit, NoInstance, database
<1>4. CallOK(s, Resting)'
  BY DEF CallOK, CallHolds, Resting
<1>5. QED
  BY <1>1, <1>3, <1>4

LEMMA ConfirmKeeps ==
  ASSUME PlInv, NEW s \in Sessions, Confirm(s)
  PROVE  PlInv'
<1>1. PICK p \in IdsOf(s), r \in Requests :
        LET c == Asked(p, r)
        IN /\ screen[p] # NoView
           /\ \/ /\ \E known \in Accepted(c) : Reply(known, FALSE)
                 /\ UNCHANGED call
              \/ /\ Accepted(c) = {}
                 /\ Hold(s, c)
                 /\ Silent
                 /\ UNCHANGED started
  BY DEF Confirm
<1>2. PICK c : c = Asked(p, r)
  OBVIOUS
<1>3. c.plan = p /\ c.rev = screen[p].rev /\ c.op = "confirm"
  BY <1>2 DEF Asked
<1>4. Free(s) /\ UNCHANGED <<plan, spent, database, outside, lost, screen>>
  BY DEF Confirm
<1>5. CASE (\E known \in Accepted(c) : Reply(known, FALSE)) /\ UNCHANGED call
  <2>1. PICK known \in Accepted(c) : answer' = known /\ started' = started
    BY <1>5 DEF Reply
  <2>2. CASE known = Outcome(c, NoInstance, "used")
    <3>1. known.result = 0 /\ known.why = "used"
      BY <2>2 DEF Outcome, NoInstance
    <3>2. QED
      BY <1>4, <1>5, <2>1, <3>1, Answers DEF NoInstance
  <2>3. CASE known # Outcome(c, NoInstance, "used")
    <3>1. PICK i \in instances :
            i.plan = p /\ known = Outcome(c, IF i.rev = c.rev THEN i.id ELSE NoInstance, "known")
      BY <1>3, <2>1, <2>3 DEF Accepted, PlanReceipt
    <3>2. /\ known.result = IF i.rev = c.rev THEN i.id ELSE 0
          /\ known.plan = p /\ known.rev = c.rev
      BY <3>1, <1>3 DEF Outcome, NoInstance
    <3>3. i.id > 0 /\ \A j \in instances : j.plan = i.plan => i = j
      <4>1. Cardinality(instances) \in Nat /\ i.id \in 1..Cardinality(instances)
        BY FS_CardinalityType DEF PlInv, InstancesOK
      <4>2. QED
        BY <4>1 DEF PlInv, InstancesOK
    <3>4. started[i.id] = 1 \/ i.id \in lost
      BY <1>4, <3>1, NotWaiting
    <3>5. known.result > 0 => i.rev = c.rev /\ known.result = i.id
      BY <3>2
    <3>6. known.result = 0 => i.rev # c.rev
      BY <3>2, <3>3
    <3>7. QED
      BY <1>4, <1>5, <2>1, <3>1, <3>2, <3>3, <3>4, <3>5, <3>6, Answers DEF SameCommit, NoInstance
  <2>4. QED
    BY <2>2, <2>3
<1>6. CASE Accepted(c) = {} /\ Hold(s, c) /\ Silent /\ UNCHANGED started
  <2>1. call' = [call EXCEPT ![s] = c] /\ call[s].op = "idle"
    BY <1>6 DEF Hold, Free
  <2>2. PlanReceipt(p) = {}
    BY <1>3, <1>6 DEF Accepted
  <2>3. p \in Plans
    BY OwnPlans
  <2>4. IsView(screen[p]) /\ p \in spent /\ NotAhead(screen[p], plan[p]) /\ Agrees(screen[p], plan[p])
    BY <1>1, <2>3 DEF PlInv, ScreenOK
  <2>5. IsCall(c) /\ c.seen = screen[p] /\ c.port = screen[p].port
    BY <1>2 DEF Asked, IsCall
  <2>6. CallHolds(s, c)'
    BY <1>3, <1>4, <2>4, <2>5 DEF CallHolds
  <2>7. CallOK(s, c)'
    BY <1>3, <1>4, <2>2, <2>6 DEF CallOK, PlanReceipt, database
  <2>8. PICK d : d = plan[p]
    OBVIOUS
  <2>9. plan' = [plan EXCEPT ![p] = d] /\ d.rev \in Nat /\ (d.rev > 0 => p \in spent)
        /\ (p \in CloneIds /\ d.rev > 0 => IsClonePlan(d))
    BY <1>4, <2>3, <2>8 DEF PlInv, PlansOK
  <2>10. UNCHANGED <<spent, database, outside, history>>
    BY <1>4, <1>6 DEF history
  <2>11. /\ PlansOK' /\ ScreenOK' /\ CallsOK' /\ InstancesOK' /\ SourceOK' /\ StartsOK'
         /\ ReviewedIsCommitted' /\ CloneOfOneSource'
    BY <2>1, <2>4, <2>7, <2>8, <2>9, <2>10, Moves
  <2>12. answer'.result = -1
    BY <1>6 DEF Silent, NoAnswer
  <2>13. AnswerOK' /\ AcceptedOnce'
    BY <1>4, <2>12 DEF PlInv, AnswerOK, AcceptedOnce, NoInstance, database
  <2>14. QED
    BY <2>11, <2>13 DEF PlInv
<1>7. QED
  BY <1>1, <1>2, <1>5, <1>6

LEMMA ReceiptKeeps ==
  ASSUME PlInv, NEW s \in Sessions, Receipt(s)
  PROVE  PlInv'
<1>1. PICK p \in IdsOf(s), i \in instances :
        i \in PlanReceipt(p) /\ answer' = Outcome(i, i.id, "receipt") /\ started' = started
  BY DEF Receipt, Reply, PlanReceipt
<1>2. i.plan = p
  BY <1>1 DEF PlanReceipt
<1>3. answer' = [result |-> i.id, why |-> "receipt", plan |-> i.plan, rev |-> i.rev]
  BY <1>1 DEF Outcome
<1>4. i.id > 0
  <2>1. Cardinality(instances) \in Nat /\ i.id \in 1..Cardinality(instances)
    BY <1>2, FS_CardinalityType DEF PlInv, InstancesOK
  <2>2. QED
    BY <2>1
<1>5. started[i.id] = 1 \/ i.id \in lost
  BY <1>2, NotWaiting DEF Receipt
<1>6. UNCHANGED <<plan, spent, call, database, outside, started, lost, screen>>
  BY <1>1 DEF Receipt
<1>7. QED
  BY <1>2, <1>3, <1>4, <1>5, <1>6, Answers DEF SameCommit, NoInstance

\* The plan of a call, whatever has become of it.
LEMMA CallForms ==
  ASSUME PlInv, NEW s \in Sessions, call[s].op # "idle"
  PROVE  LET c == call[s] d == plan[call[s].plan]
         IN /\ c.plan \in IdsOf(s) /\ c.plan \in Plans /\ CallHolds(s, c)
            /\ plan = [plan EXCEPT ![c.plan] = d]
            /\ d.rev \in Nat /\ (d.rev > 0 => c.plan \in spent)
            /\ c.plan \in CloneIds /\ d.rev > 0 => IsClonePlan(d)
            /\ screen[c.plan] # NoView => NotAhead(screen[c.plan], d) /\ Agrees(screen[c.plan], d)
<1>1. CallHolds(s, call[s]) /\ call[s].plan \in IdsOf(s)
  BY DEF PlInv, CallsOK, CallOK, CallHolds
<1>2. call[s].plan \in Plans
  BY <1>1, OwnPlans
<1>3. QED
  BY <1>1, <1>2 DEF PlInv, PlansOK, ScreenOK

LEMMA RefusedKeeps ==
  ASSUME PlInv, NEW s \in Sessions, Refused(s)
  PROVE  PlInv'
<1>1. call[s].op = "confirm" /\ Refuse(s, "failed") /\ UNCHANGED <<plan, spent, database, outside, history>>
  BY DEF Refused
<1>2. AnswerOK' /\ AcceptedOnce' /\ call' = [call EXCEPT ![s] = Resting] /\ CallOK(s, Resting)'
  BY <1>1, Refusals
<1>3. PICK p, d : p = call[s].plan /\ d = plan[p]
  OBVIOUS
<1>4. QED
  BY <1>1, <1>2, <1>3, CallForms, Moves DEF PlInv

LEMMA CheckCreateKeeps ==
  ASSUME PlInv, NEW p \in CreateIds, CheckCreate(p)
  PROVE  PlInv'
<1>1. PICK old, view, d : /\ old = call["create"]
                          /\ view = PreviewCreate(plan[p], call["create"].taken, FALSE)
                          /\ d = plan[p]
  OBVIOUS
<1>2. /\ old.op = "confirm" /\ old.plan = p /\ d.rev = old.rev
      /\ NoConcern(view) /\ view.port = old.port
      /\ call' = [call EXCEPT !["create"].op = "commit", !["create"].port = view.port]
      /\ Silent /\ UNCHANGED <<plan, spent, database, outside, history>>
  BY <1>1 DEF CheckCreate, Serves, MayCommit
<1>3. "create" \in Sessions
  BY DEF Sessions
<1>4. CallOK("create", old)
  BY <1>1, <1>3 DEF PlInv, CallsOK
<1>5. /\ CallHolds("create", old) /\ p \in IdsOf("create") /\ p \in Plans
      /\ plan = [plan EXCEPT ![p] = d] /\ d.rev \in Nat /\ (d.rev > 0 => p \in spent)
      /\ (p \in CloneIds /\ d.rev > 0 => IsClonePlan(d))
      /\ screen[p] # NoView => NotAhead(screen[p], d) /\ Agrees(screen[p], d)
  BY <1>1, <1>2, <1>3, CallForms
<1>6. IsCall(old)
  BY <1>2, <1>5 DEF CallHolds
<1>7. PICK c : c = [old EXCEPT !.op = "commit", !.port = view.port]
  OBVIOUS
<1>8. c = [op |-> "commit", plan |-> old.plan, request |-> old.request, rev |-> old.rev,
           port |-> old.port, seen |-> old.seen, taken |-> old.taken]
  BY <1>2, <1>6, <1>7 DEF IsCall
<1>9. call' = [call EXCEPT !["create"] = c]
  BY <1>1, <1>2, <1>3, <1>7 DEF PlInv, CallsOK
<1>10. CallHolds("create", c)'
  BY <1>2, <1>5, <1>8 DEF CallHolds, IsCall
<1>11. CallOK("create", c)'
  BY <1>1, <1>2, <1>4, <1>8, <1>10 DEF CallOK, PlanReceipt, database
<1>12. /\ PlansOK' /\ ScreenOK' /\ CallsOK' /\ InstancesOK' /\ SourceOK' /\ StartsOK'
       /\ ReviewedIsCommitted' /\ CloneOfOneSource'
  BY <1>1, <1>2, <1>3, <1>5, <1>9, <1>11, Moves
<1>13. answer'.result = -1
  BY <1>2 DEF Silent, NoAnswer
<1>14. AnswerOK' /\ AcceptedOnce'
  BY <1>2, <1>13 DEF PlInv, AnswerOK, AcceptedOnce, NoInstance, database
<1>15. QED
  BY <1>12, <1>14 DEF PlInv

LEMMA CheckCloneKeeps ==
  ASSUME PlInv, NEW p \in CloneIds, CheckClone(p)
  PROVE  PlInv'
<1>1. PICK old, view, next : /\ old = call["clone"]
                             /\ view = PreviewClone(plan[p], old.taken, FALSE)
                             /\ next = AfterClone(plan[p], view, TRUE)
  OBVIOUS
<1>2. /\ old.op = "confirm" /\ old.plan = p /\ p \in Live
      /\ plan' = [plan EXCEPT ![p] = next]
      /\ \/ /\ MayCommitClone(old, next, view)
            /\ call' = [call EXCEPT !["clone"].op = "commit", !["clone"].port = view.port]
            /\ Silent
         \/ Refuse("clone", "stale")
      /\ UNCHANGED <<spent, database, outside, history>>
  BY <1>1 DEF CheckClone, Serves
<1>3. "clone" \in Sessions
  BY DEF Sessions
<1>4. CallOK("clone", old)
  BY <1>1, <1>3 DEF PlInv, CallsOK
<1>5. CallHolds("clone", old) /\ p \in IdsOf("clone") /\ p \in Plans /\ p \in spent
  BY <1>1, <1>2, <1>3, CallForms, LiveForms
<1>6. /\ IsClonePlan(next) /\ next.content = plan[p].content
      /\ next.rev \in Nat \ {0} /\ next.rev >= plan[p].rev
      /\ screen[p] # NoView => NotAhead(screen[p], next) /\ Agrees(screen[p], next)
  BY <1>1, <1>2, Viewed
<1>7. /\ IsCall(old) /\ IsView(old.seen) /\ old.rev = old.seen.rev /\ old.port = old.seen.port
      /\ old.seen.rev =< plan[p].rev /\ Agrees(old.seen, plan[p])
      /\ plan[p].rev \in Nat \ {0}
  BY <1>2, <1>5, LiveForms DEF CallHolds, NotAhead
<1>8. plan'[p] = next
  BY <1>2, <1>5 DEF PlInv, PlansOK
<1>9. NotAhead(old.seen, next) /\ Agrees(old.seen, next)
  BY <1>6, <1>7 DEF NotAhead, Agrees, IsView
<1>10. CASE /\ MayCommitClone(old, next, view) /\ Silent
            /\ call' = [call EXCEPT !["clone"].op = "commit", !["clone"].port = view.port]
  <2>1. next.rev = old.rev /\ view.port = old.port
    BY <1>10 DEF MayCommitClone, MayCommit
  <2>2. PICK c : c = [old EXCEPT !.op = "commit", !.port = view.port]
    OBVIOUS
  <2>3. c = [op |-> "commit", plan |-> p, request |-> old.request, rev |-> old.rev,
             port |-> old.port, seen |-> old.seen, taken |-> old.taken]
    BY <1>2, <1>7, <2>1, <2>2 DEF IsCall
  <2>4. call' = [call EXCEPT !["clone"] = c]
    BY <1>1, <1>3, <1>10, <2>2 DEF PlInv, CallsOK
  <2>5. CallHolds("clone", c)'
    BY <1>2, <1>5, <1>7, <1>8, <1>9, <2>3 DEF CallHolds, IsCall
  <2>6. CallOK("clone", c)'
    BY <1>1, <1>2, <1>4, <1>8, <2>1, <2>3, <2>5 DEF CallOK, PlanReceipt, database
  <2>7. /\ PlansOK' /\ ScreenOK' /\ CallsOK' /\ InstancesOK' /\ SourceOK' /\ StartsOK'
        /\ ReviewedIsCommitted' /\ CloneOfOneSource'
    BY <1>1, <1>2, <1>3, <1>5, <1>6, <2>4, <2>6, Moves
  <2>8. answer'.result = -1
    BY <1>10 DEF Silent, NoAnswer
  <2>9. AnswerOK' /\ AcceptedOnce'
    BY <1>2, <2>8 DEF PlInv, AnswerOK, AcceptedOnce, NoInstance, database, history
  <2>10. QED
    BY <2>7, <2>9 DEF PlInv
<1>11. CASE Refuse("clone", "stale")
  <2>1. UNCHANGED database /\ UNCHANGED history /\ call["clone"].op \in {"confirm", "commit"}
    BY <1>1, <1>2
  <2>2. AnswerOK' /\ AcceptedOnce' /\ call' = [call EXCEPT !["clone"] = Resting]
        /\ CallOK("clone", Resting)'
    BY <1>3, <1>11, <2>1, Refusals
  <2>3. /\ PlansOK' /\ ScreenOK' /\ CallsOK' /\ InstancesOK' /\ SourceOK' /\ StartsOK'
        /\ ReviewedIsCommitted' /\ CloneOfOneSource'
    BY <1>1, <1>2, <1>3, <1>5, <1>6, <2>2, Moves
  <2>4. QED
    BY <2>2, <2>3 DEF PlInv
<1>12. QED
  BY <1>2, <1>10, <1>11

\* The transaction: a further instance, of a plan that has none yet.
LEMMA CommitKeeps ==
  ASSUME PlInv, NEW s \in Sessions, Commit(s)
  PROVE  PlInv'
<1>1. PICK c : c = call[s]
  OBVIOUS
<1>2. c.op = "commit" /\ UNCHANGED <<spent, source, outside, history>>
  BY <1>1 DEF Commit
<1>3. CallOK(s, c) /\ CallHolds(s, c) /\ c.plan \in IdsOf(s) /\ c.plan \in Plans
  BY <1>1, <1>2, CallForms DEF PlInv, CallsOK
<1>4. CASE Refuse(s, "conflict") /\ UNCHANGED <<instances, plan>>
  <2>1. UNCHANGED database /\ UNCHANGED history /\ call[s].op \in {"confirm", "commit"}
    BY <1>1, <1>2, <1>4 DEF database
  <2>2. AnswerOK' /\ AcceptedOnce' /\ call' = [call EXCEPT ![s] = Resting] /\ CallOK(s, Resting)'
    BY <1>4, <2>1, Refusals
  <2>3. PICK p, d : p = call[s].plan /\ d = plan[p]
    OBVIOUS
  <2>4. QED
    BY <1>1, <1>2, <1>4, <2>1, <2>2, <2>3, CallForms, Moves DEF PlInv
<1>5. CASE /\ CanInsert(c)
           /\ instances' = instances \cup {Inserted(c)}
           /\ call' = [call EXCEPT ![s].op = "accepted"]
           /\ plan' = [plan EXCEPT ![c.plan] = NoPlan]
           /\ Silent
  <2>1. PICK new : new = Inserted(c)
    OBVIOUS
  <2>2. instances' = instances \cup {new}
    BY <1>5, <2>1
  <2>3. /\ new.id = Cardinality(instances) + 1 /\ new.plan = c.plan /\ new.rev = c.rev
        /\ new.content = plan[c.plan].content /\ new.seen = c.seen /\ new.port = c.port
    BY <2>1 DEF Inserted
  <2>4. new.seen = [content |-> new.content, rev |-> new.rev, port |-> new.port] /\ new.port # 0
    BY <1>2, <1>3, <2>3 DEF CallOK, CallHolds, IsView, Agrees
  <2>5. new.image = new.of /\ new.alive
    <3>1. CASE c.plan \in CloneIds
      <4>1. source.state = "managed" /\ source.spec = plan[c.plan].source.spec
        BY <1>5, <3>1 DEF CanInsert, GuardHolds, SourceHolds, CloneSource
      <4>2. QED
        BY <2>1, <3>1, <4>1 DEF Inserted, Inherited
    <3>2. CASE c.plan \notin CloneIds
      BY <2>1, <3>2 DEF Inserted, Inherited
    <3>3. QED
      BY <3>1, <3>2
  <2>6. /\ \A i \in instances : i.plan # c.plan
        /\ \A i \in instances : i.port # c.port
        /\ c.port # source.port
    BY <1>5, <2>3, <2>4 DEF CanInsert, PlanReceipt, PortIsFree, Reserved
  <2>7. IsFiniteSet(instances) /\ Cardinality(instances) \in Nat
    BY FS_CardinalityType DEF PlInv, InstancesOK
  <2>8. IsFiniteSet(instances') /\ Cardinality(instances') = Cardinality(instances) + 1
    BY <2>2, <2>3, <2>6, <2>7, FS_AddElement
  <2>9. \A i \in instances : i.id \in 1..Cardinality(instances)
    BY DEF PlInv, InstancesOK
  <2>10. InstancesOK'
    <3>1. ASSUME NEW i \in instances'
          PROVE  i.plan \in Plans /\ i.id \in 1..Cardinality(instances') /\ i.port # 0 /\ i.port # source'.port
      <4>1. CASE i = new
        BY <4>1, <1>2, <1>3, <2>3, <2>4, <2>6, <2>7, <2>8
      <4>2. CASE i \in instances
        BY <4>2, <1>2, <2>7, <2>8 DEF PlInv, InstancesOK
      <4>3. QED
        BY <2>2, <4>1, <4>2
    <3>2. ASSUME NEW i \in instances', NEW j \in instances',
                 i.plan = j.plan \/ i.id = j.id \/ i.port = j.port
          PROVE  i = j
      <4>1. CASE i \in instances /\ j \in instances
        BY <3>2, <4>1 DEF PlInv, InstancesOK
      <4>2. ASSUME NEW k \in instances PROVE k.plan # new.plan /\ k.id # new.id /\ k.port # new.port
        BY <2>3, <2>6, <2>7, <2>9
      <4>3. QED
        BY <2>2, <3>2, <4>1, <4>2
    <3>3. QED
      BY <2>8, <3>1, <3>2 DEF InstancesOK
  <2>11. new.id \in 1..Cardinality(Plans) /\ started[new.id] = 0
    <3>1. Cardinality(instances') =< Cardinality(Plans) /\ Cardinality(Plans) \in Nat
      BY <2>10, AsManyAsPlans DEF InstancesOK
    <3>2. QED
      BY <2>3, <2>7, <2>8, <3>1 DEF PlInv, StartsOK
  <2>12. IsCall(c)
    BY <1>2, <1>3 DEF CallHolds
  <2>13. PICK after : after = [c EXCEPT !.op = "accepted"]
    OBVIOUS
  <2>14. after = [op |-> "accepted", plan |-> c.plan, request |-> c.request, rev |-> c.rev,
                  port |-> c.port, seen |-> c.seen, taken |-> c.taken]
    BY <2>12, <2>13 DEF IsCall
  <2>15. \A t \in Sessions : call'[t] = IF t = s THEN after ELSE call[t]
    BY <1>1, <1>5, <2>13 DEF PlInv, CallsOK
  <2>16. \A q \in Plans : plan'[q] = IF q = c.plan THEN NoPlan ELSE plan[q]
    BY <1>5 DEF PlInv, PlansOK
  <2>17. NoPlan.rev = 0
    BY DEF NoPlan
  <2>18. PlansOK'
    BY <1>2, <1>5, <2>16, <2>17 DEF PlInv, PlansOK
  <2>19. ASSUME NEW v, IsView(v) PROVE NotAhead(v, NoPlan) /\ Agrees(v, NoPlan)
    BY <2>17, <2>19 DEF IsView, NotAhead, Agrees
  <2>20. ScreenOK'
    BY <1>2, <2>16, <2>19 DEF PlInv, ScreenOK, history
  <2>21. ASSUME NEW t \in Sessions PROVE CallOK(t, call[t])'
    <3>1. CASE t = s
      <4>1. call'[t] = after /\ plan'[after.plan] = NoPlan
        BY <1>3, <2>14, <2>15, <2>16, <3>1
      <4>2. CallHolds(s, after)'
        BY <1>2, <1>3, <2>14, <2>19, <4>1 DEF CallHolds, IsCall
      <4>3. SameCommit(new, after.plan, after.rev) /\ started'[new.id] = 0 /\ new \in instances'
        BY <1>2, <2>2, <2>3, <2>11, <2>14 DEF SameCommit, history
      <4>4. QED
        BY <2>14, <3>1, <4>1, <4>2, <4>3 DEF CallOK, CallHolds, SameCommit
    <3>2. CASE t # s
      <4>1. CallOK(t, call[t]) /\ call'[t] = call[t]
        BY <2>15, <3>2 DEF PlInv, CallsOK
      <4>2. CASE call[t].op = "idle"
        BY <4>1, <4>2 DEF CallOK, CallHolds
      <4>3. CASE call[t].op # "idle"
        <5>1. call[t].plan \in IdsOf(t)
          BY <4>1, <4>3 DEF CallOK, CallHolds
        <5>2. call[t].plan # c.plan /\ call[t].plan \in Plans
          BY <1>3, <3>2, <5>1, OwnPlans
        <5>3. plan'[call[t].plan] = plan[call[t].plan] /\ PlanReceipt(call[t].plan) = PlanReceipt(call[t].plan)'
          BY <2>2, <2>3, <2>16, <4>1, <5>2 DEF PlanReceipt
        <5>4. CallHolds(t, call[t])'
          BY <1>2, <4>1, <5>3 DEF CallOK, CallHolds
        <5>5. QED
          BY <1>2, <2>2, <4>1, <5>3, <5>4 DEF CallOK, SameCommit, history
      <4>4. QED
        BY <4>2, <4>3
    <3>3. QED
      BY <3>1, <3>2
  <2>22. CallsOK'
    <3>1. call' = [t \in Sessions |-> call'[t]]
      BY <1>5 DEF PlInv, CallsOK
    <3>2. QED
      BY <2>21, <3>1 DEF CallsOK
  <2>23. ASSUME NEW i \in instances' PROVE started'[i.id] = 1 \/ i.id \in lost' \/ WillStart(i)'
    <3>1. CASE i = new
      BY <2>3, <2>14, <2>15, <3>1 DEF WillStart
    <3>2. CASE i \in instances
      <4>1. ASSUME WillStart(i) PROVE WillStart(i)'
        <5>1. PICK t \in Sessions : call[t].op = "accepted" /\ call[t].plan = i.plan
          BY <4>1 DEF WillStart
        <5>2. call'[t] = call[t]
          BY <1>1, <1>2, <2>15, <5>1
        <5>3. QED
          BY <5>1, <5>2 DEF WillStart
      <4>2. QED
        BY <1>2, <3>2, <4>1 DEF PlInv, StartsOK, history
    <3>3. QED
      BY <2>2, <3>1, <3>2
  <2>24. StartsOK'
    <3>1. started' = started
      BY <1>2 DEF history
    <3>2. \A n \in 1..Cardinality(Plans) : n > Cardinality(instances') => started'[n] = 0
      BY <2>7, <2>8, <3>1, AsManyAsPlans DEF PlInv, StartsOK
    <3>3. QED
      BY <2>23, <3>1, <3>2 DEF PlInv, StartsOK
  <2>25. answer'.result = -1
    BY <1>5 DEF Silent, NoAnswer
  <2>26. AnswerOK' /\ AcceptedOnce'
    BY <2>10, <2>25 DEF InstancesOK, AnswerOK, AcceptedOnce, NoInstance
  <2>27. SourceOK' /\ ReviewedIsCommitted' /\ CloneOfOneSource'
    BY <1>2, <2>2, <2>4, <2>5 DEF PlInv, SourceOK, ReviewedIsCommitted, CloneOfOneSource
  <2>28. QED
    BY <2>10, <2>18, <2>20, <2>22, <2>24, <2>26, <2>27 DEF PlInv
<1>6. QED
  BY <1>1, <1>4, <1>5 DEF Commit

\* The one start: nobody else has started the instance, and nobody will.
LEMMA ExecuteKeeps ==
  ASSUME PlInv, NEW s \in Sessions, Execute(s)
  PROVE  PlInv'
<1>1. PICK c : c = call[s]
  OBVIOUS
<1>2. PICK i \in instances : i \in PlanReceipt(c.plan) /\ Reply(Outcome(c, i.id, "fresh"), TRUE)
  BY <1>1 DEF Execute, PlanReceipt
<1>3. /\ c.op = "accepted" /\ i.plan = c.plan
      /\ call' = [call EXCEPT ![s] = Resting]
      /\ UNCHANGED <<plan, spent, database, outside, lost, screen>>
      /\ answer' = [result |-> i.id, why |-> "fresh", plan |-> c.plan, rev |-> c.rev]
      /\ started' = [started EXCEPT ![i.id] = @ + 1]
  BY <1>1, <1>2 DEF Execute, PlanReceipt, Release, Reply, Outcome
<1>4. /\ InstancesOK
      /\ \A j, k \in instances : j.plan = k.plan \/ j.id = k.id => j = k
  BY DEF PlInv, InstancesOK
<1>5. c.plan \in IdsOf(s)
  BY <1>1, <1>3 DEF PlInv, CallsOK, CallOK, CallHolds
<1>6. i.rev = c.rev /\ started[i.id] = 0
  <2>1. PICK j \in instances : SameCommit(j, c.plan, c.rev) /\ started[j.id] = 0
    BY <1>1, <1>3 DEF PlInv, CallsOK, CallOK
  <2>2. j = i
    BY <1>3, <1>4, <2>1 DEF SameCommit
  <2>3. QED
    BY <2>1, <2>2 DEF SameCommit
<1>7. /\ Cardinality(instances) =< Cardinality(Plans)
      /\ Cardinality(instances) \in Nat /\ Cardinality(Plans) \in Nat
  BY <1>4, AsManyAsPlans DEF InstancesOK
<1>8. \A j \in instances : j.id \in 1..Cardinality(instances) /\ j.id \in 1..Cardinality(Plans)
  BY <1>4, <1>7 DEF InstancesOK
<1>9. /\ started' \in [1..Cardinality(Plans) -> 0..1]
      /\ \A n \in 1..Cardinality(Plans) : started'[n] = IF n = i.id THEN 1 ELSE started[n]
  <2>1. started \in [1..Cardinality(Plans) -> 0..1]
    BY DEF PlInv, StartsOK
  <2>2. QED
    BY <1>3, <1>6, <1>8, <2>1
<1>10. \A t \in Sessions : call'[t] = IF t = s THEN Resting ELSE call[t]
  BY <1>3 DEF PlInv, CallsOK
<1>11. PlansOK' /\ ScreenOK'
  BY <1>3 DEF PlInv, PlansOK, ScreenOK
<1>12. ASSUME NEW t \in Sessions PROVE CallOK(t, call[t])'
  <2>1. CASE t = s
    <3>1. call'[t].op = "idle"
      BY <1>10, <2>1 DEF Resting
    <3>2. QED
      BY <3>1 DEF CallOK, CallHolds
  <2>2. CASE t # s
    <3>1. CallOK(t, call[t]) /\ call'[t] = call[t]
      BY <1>10, <2>2 DEF PlInv, CallsOK
    <3>2. CallHolds(t, call[t])'
      BY <1>3, <3>1 DEF CallOK, CallHolds
    <3>3. ASSUME call[t].op = "accepted"
          PROVE  \E j \in instances : SameCommit(j, call[t].plan, call[t].rev) /\ started'[j.id] = 0
      <4>1. PICK j \in instances : SameCommit(j, call[t].plan, call[t].rev) /\ started[j.id] = 0
        BY <3>1, <3>3 DEF CallOK
      <4>2. call[t].plan \in IdsOf(t)
        BY <3>1, <3>3 DEF CallOK, CallHolds
      <4>3. j.plan # i.plan
        BY <1>3, <1>5, <2>2, <4>1, <4>2, OwnPlans DEF SameCommit
      <4>4. j.id # i.id
        BY <1>4, <4>3
      <4>5. QED
        BY <1>8, <1>9, <4>1, <4>4
    <3>4. instances' = instances
      BY <1>3 DEF database
    <3>5. QED
      BY <1>3, <3>1, <3>2, <3>3, <3>4 DEF CallOK, PlanReceipt, SameCommit
  <2>3. QED
    BY <2>1, <2>2
<1>13. CallsOK'
  <2>1. call' = [t \in Sessions |-> call'[t]]
    BY <1>3 DEF PlInv, CallsOK
  <2>2. QED
    BY <1>12, <2>1 DEF CallsOK
<1>14. InstancesOK' /\ SourceOK' /\ ReviewedIsCommitted' /\ CloneOfOneSource'
  BY <1>3 DEF PlInv, InstancesOK, SourceOK, ReviewedIsCommitted, CloneOfOneSource, database
<1>15. ASSUME NEW j \in instances PROVE started'[j.id] = 1 \/ j.id \in lost \/ WillStart(j)'
  <2>1. CASE j = i
    BY <1>8, <1>9, <2>1
  <2>2. CASE j # i
    <3>1. j.plan # i.plan /\ j.id # i.id
      BY <1>4, <2>2
    <3>2. started'[j.id] = started[j.id]
      BY <1>8, <1>9, <3>1
    <3>3. ASSUME WillStart(j) PROVE WillStart(j)'
      <4>1. PICK t \in Sessions : call[t].op = "accepted" /\ call[t].plan = j.plan
        BY <3>3 DEF WillStart
      <4>2. t # s
        BY <1>1, <1>3, <3>1, <4>1
      <4>3. QED
        BY <1>10, <4>1, <4>2 DEF WillStart
    <3>4. QED
      BY <3>2, <3>3 DEF PlInv, StartsOK
  <2>3. QED
    BY <2>1, <2>2
<1>16. StartsOK'
  <2>1. instances' = instances /\ lost' = lost
    BY <1>3 DEF database
  <2>2. \A n \in 1..Cardinality(Plans) : n > Cardinality(instances) => started'[n] = 0
    BY <1>7, <1>8, <1>9 DEF PlInv, StartsOK
  <2>3. QED
    BY <1>9, <1>15, <2>1, <2>2 DEF StartsOK
<1>17. AnswerOK'
  BY <1>3, <1>8, <1>9 DEF AnswerOK
<1>18. i.id > 0
  BY <1>7, <1>8
<1>19. AcceptedOnce'
  BY <1>3, <1>6, <1>18 DEF PlInv, AcceptedOnce, SameCommit, NoInstance, database
<1>20. QED
  BY <1>11, <1>13, <1>14, <1>16, <1>17, <1>19 DEF PlInv

\* The source is in the hands of other operations, the ports in those of other
\* programs.
LEMMA WorldKeeps ==
  ASSUME PlInv,
         \/ SourceAccepts \/ SourceDone \/ SourceRenamed \/ SourceEdited \/ SourceRetired
         \/ \E n \in Busy : OutsideTakes(n) \/ OutsideGives(n)
  PROVE  PlInv'
<1>1. Silent /\ UNCHANGED <<memory, instances, history>>
  BY DEF SourceAccepts, SourceDone, SourceRenamed, SourceEdited, SourceRetired, OutsideTakes,
     OutsideGives, database
<1>2. PICK state, rev, spec, port :
        source = [state |-> state, rev |-> rev, spec |-> spec, port |-> port]
  BY DEF PlInv, SourceOK
<1>3. \A i \in instances : i.port # 0 /\ i.port # port
  BY <1>2 DEF PlInv, InstancesOK
<1>4. CASE SourceAccepts \/ SourceDone \/ SourceRenamed
  <2>1. PICK state2, rev2 : source' = [state |-> state2, rev |-> rev2, spec |-> spec, port |-> port]
    BY <1>2, <1>4 DEF SourceAccepts, SourceDone, SourceRenamed
  <2>2. SourceOK' /\ source'.port = port
    BY <2>1 DEF SourceOK
  <2>3. QED
    BY <1>1, <1>3, <2>2, Elsewhere
<1>5. CASE SourceEdited
  <2>1. PICK n \in Ports \ Reserved :
          source' = [state |-> "managed", rev |-> source.rev + 1, spec |-> source.spec + 1, port |-> n]
    BY <1>5 DEF SourceEdited
  <2>2. SourceOK' /\ source'.port = n
    BY <2>1 DEF SourceOK
  <2>3. \A i \in instances : i.port # n
    BY <1>3, <2>1 DEF Reserved
  <2>4. QED
    BY <1>1, <2>2, <2>3, Elsewhere
<1>6. CASE SourceRetired
  <2>1. source' = [state |-> "retired", rev |-> rev, spec |-> spec, port |-> 0]
    BY <1>2, <1>6 DEF SourceRetired
  <2>2. SourceOK' /\ source'.port = 0
    BY <2>1 DEF SourceOK
  <2>3. QED
    BY <1>1, <1>3, <2>2, Elsewhere
<1>7. CASE \E n \in Busy : OutsideTakes(n) \/ OutsideGives(n)
  <2>1. source' = source
    BY <1>7 DEF OutsideTakes, OutsideGives, database
  <2>2. SourceOK' /\ \A i \in instances : i.port # source'.port
    BY <1>2, <1>3, <2>1 DEF PlInv, SourceOK
  <2>3. QED
    BY <1>1, <2>2, Elsewhere
<1>8. QED
  BY <1>4, <1>5, <1>6, <1>7

\* What was accepted and not started is lost, and nothing else.
LEMMA RestartKeeps ==
  ASSUME PlInv, Restart
  PROVE  PlInv'
<1>1. /\ plan' = [p \in Plans |-> NoPlan]
      /\ call' = [t \in Sessions |-> Resting]
      /\ Silent
      /\ lost' = lost \cup {i.id : i \in {j \in instances : started[j.id] = 0}}
      /\ spent' = spent /\ instances' = instances /\ source' = source
      /\ started' = started /\ screen' = screen
  BY DEF Restart, database
<1>2. NoPlan.rev = 0 /\ Resting.op = "idle"
  BY DEF NoPlan, Resting
<1>3. PlansOK'
  BY <1>1, <1>2 DEF PlansOK
<1>4. ASSUME NEW v, IsView(v) PROVE NotAhead(v, NoPlan) /\ Agrees(v, NoPlan)
  BY <1>2, <1>4 DEF IsView, NotAhead, Agrees
<1>5. ScreenOK'
  BY <1>1, <1>4 DEF PlInv, ScreenOK
<1>6. CallsOK'
  BY <1>1, <1>2 DEF CallsOK, CallOK, CallHolds
<1>7. InstancesOK' /\ SourceOK' /\ ReviewedIsCommitted' /\ CloneOfOneSource'
  BY <1>1 DEF PlInv, InstancesOK, SourceOK, ReviewedIsCommitted, CloneOfOneSource
<1>8. ASSUME NEW i \in instances PROVE started[i.id] = 1 \/ i.id \in lost'
  <2>1. /\ Cardinality(instances) =< Cardinality(Plans)
        /\ Cardinality(instances) \in Nat /\ Cardinality(Plans) \in Nat
    BY AsManyAsPlans DEF PlInv, InstancesOK
  <2>2. i.id \in 1..Cardinality(Plans)
    BY <2>1 DEF PlInv, InstancesOK
  <2>3. started[i.id] \in 0..1
    BY <2>2 DEF PlInv, StartsOK
  <2>4. QED
    BY <1>1, <2>3
<1>9. StartsOK'
  BY <1>1, <1>8 DEF PlInv, StartsOK
<1>10. answer'.result = -1
  BY <1>1 DEF Silent, NoAnswer
<1>11. AnswerOK' /\ AcceptedOnce'
  BY <1>1, <1>10 DEF PlInv, AnswerOK, AcceptedOnce, NoInstance
<1>12. QED
  BY <1>3, <1>5, <1>6, <1>7, <1>9, <1>11 DEF PlInv

LEMMA ExpireKeeps ==
  ASSUME PlInv, NEW p \in Plans, Expire(p)
  PROVE  PlInv'
BY Dropped DEF Expire

LEMMA StutterKeeps ==
  ASSUME PlInv, UNCHANGED vars
  PROVE  PlInv'
<1>1. UNCHANGED <<plan, spent, call, answer, source, outside, instances, started, lost, screen>>
  BY DEF vars, memory, database, history
<1>2. PlansOK' /\ ScreenOK'
  BY <1>1 DEF PlInv, PlansOK, ScreenOK
<1>3. CallsOK'
  BY <1>1 DEF PlInv, CallsOK, CallOK, CallHolds, PlanReceipt
<1>4. InstancesOK' /\ SourceOK' /\ ReviewedIsCommitted' /\ CloneOfOneSource'
  BY <1>1 DEF PlInv, InstancesOK, SourceOK, ReviewedIsCommitted, CloneOfOneSource
<1>5. StartsOK' /\ AnswerOK' /\ AcceptedOnce'
  BY <1>1 DEF PlInv, StartsOK, WillStart, AnswerOK, AcceptedOnce
<1>6. QED
  BY <1>2, <1>3, <1>4, <1>5 DEF PlInv

LEMMA Inductive == PlInv /\ [Next]_vars => PlInv'
<1> SUFFICES ASSUME PlInv, [Next]_vars PROVE PlInv'
  OBVIOUS
<1>1. CASE Create
  <2>1. PICK p \in CreateIds :
          PrepareCreate(p) \/ UpdateCreate(p) \/ ViewCreate(p) \/ DiscardCreate(p) \/ CheckCreate(p)
    BY <1>1 DEF Create
  <2>2. CASE PrepareCreate(p)
    BY <2>1, <2>2, PrepareKeeps
  <2>3. CASE UpdateCreate(p)
    BY <2>1, <2>3, UpdateKeeps
  <2>4. CASE ViewCreate(p)
    BY <2>1, <2>4, ViewKeeps
  <2>5. CASE DiscardCreate(p)
    BY <2>1, <2>5, DiscardKeeps
  <2>6. CASE CheckCreate(p)
    BY <2>1, <2>6, CheckCreateKeeps
  <2>7. QED
    BY <2>1, <2>2, <2>3, <2>4, <2>5, <2>6
<1>2. CASE Clone
  <2>1. PICK p \in CloneIds :
          PrepareClone(p) \/ UpdateClone(p) \/ ViewClone(p) \/ DiscardClone(p) \/ CheckClone(p)
    BY <1>2 DEF Clone
  <2>2. CASE PrepareClone(p) \/ UpdateClone(p) \/ ViewClone(p)
    BY <2>1, <2>2, PrepareKeeps, UpdateKeeps, ViewKeeps
  <2>3. CASE DiscardClone(p) \/ CheckClone(p)
    BY <2>1, <2>3, DiscardKeeps, CheckCloneKeeps
  <2>4. QED
    BY <2>1, <2>2, <2>3
<1>3. CASE Commands
  BY <1>3, ConfirmKeeps, ReceiptKeeps, RefusedKeeps, CommitKeeps, ExecuteKeeps DEF Commands
<1>4. CASE World
  BY <1>4, WorldKeeps, ExpireKeeps, RestartKeeps DEF World
<1>5. CASE UNCHANGED vars
  BY <1>5, StutterKeeps
<1>6. QED
  BY <1>1, <1>2, <1>3, <1>4, <1>5 DEF Next

(***************************************************************************)
(* The theorems.                                                           *)
(***************************************************************************)

\* Plans, screens, calls, instances and starts agree, through edits, expiry,
\* ports that move, sources that change and ends of the application.
THEOREM Invariance == Spec => []PlInv
BY Initially, Inductive, PTL DEF Spec

\* What was committed is what the user saw when confirming, as a whole.
THEOREM Reviewed == Spec => []ReviewedIsCommitted
<1>1. PlInv => ReviewedIsCommitted
  BY DEF PlInv
<1>2. QED
  BY <1>1, Invariance, PTL

\* A plan becomes at most one instance, and every answer about it says so.
THEOREM Accepting == Spec => []AcceptedOnce
<1>1. PlInv => AcceptedOnce
  BY DEF PlInv
<1>2. QED
  BY <1>1, Invariance, PTL

\* A clone's inputs and its image resolution are of one specification of a
\* source that was not about to be deleted.
THEOREM OneSource == Spec => []CloneOfOneSource
<1>1. PlInv => CloneOfOneSource
  BY DEF PlInv
<1>2. QED
  BY <1>1, Invariance, PTL

\* No two instances hold a port, the edited source included.
THEOREM PortsApart == Spec => []NoPortTwice
<1>1. PlInv => NoPortTwice
  BY DEF PlInv, InstancesOK, NoPortTwice
<1>2. QED
  BY <1>1, Invariance, PTL

\* The operation of an instance is started at most once, and was started when
\* its confirmation is answered, or was lost with the application.
THEOREM StartedAtMostOnce == Spec => []StartedOnce
<1>1. ASSUME PlInv PROVE StartedOnce
  <2>1. /\ started \in [1..Cardinality(Plans) -> 0..1]
        /\ answer.result > 0 => started[answer.result] = 1 \/ answer.result \in lost
    BY <1>1 DEF PlInv, StartsOK, AnswerOK
  <2>2. \A n \in DOMAIN started : started[n] =< 1
    BY <2>1
  <2>3. QED
    BY <2>1, <2>2 DEF StartedOnce
<1>2. QED
  BY <1>1, Invariance, PTL
===============================================================================
