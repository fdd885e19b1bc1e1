------------------------------- MODULE HostPorts -------------------------------
(***************************************************************************)
(* The search for host ports: plan_ports of crates/application/src/        *)
(* host_ports.rs over the observations of crates/adapters/src/             *)
(* host_ports.rs.  One call reads the ledger and Docker once, asks the     *)
(* operating system port by port, and may run out of time before any       *)
(* question; its cursor then goes into the next call.  Ports are taken     *)
(* and released at any time, and the user may retype an explicit port.     *)
(* Slots are numbered in the order of their keys.                          *)
(***************************************************************************)
EXTENDS Integers, FiniteSets

CONSTANTS
  Slots,          \* 1..n
  Inputs,         \* what may be asked for: SlotRecords of the slots, 0 for none
  Ports,          \* the ports of the instance, 1..n
  Limit,          \* the candidates one call may try
  MaxPortChanges  \* bound on what changes around the calls

\* Ports are numbers above 0, and the slots are finitely many.
SlotRecords == [source : Nat, recommended : Nat, explicit : Nat, min : Nat, max : Nat]
PortConstants ==
  /\ Slots \subseteq Nat /\ IsFiniteSet(Slots)
  /\ Ports \subseteq Nat \ {0}
  /\ Inputs \subseteq [Slots -> SlotRecords]

ASSUME PortAssumption == PortConstants

VARIABLES
  input,       \* the slots of the plan
  taken,       \* who holds what: the ledger, published by Docker, bound on the host
  cursor,      \* PortCursor, as the running call changes its clone of it
  stored,      \* plan.port_cursor, from one call to the next
  search,      \* the running call
  plan,        \* PortPlan, the last result
  portChanges, \* counts changes, against MaxPortChanges
  ever,        \* history: ports taken at some time since the cursor is fresh
  retyped      \* history: the input has changed since the cursor is fresh

portVars == <<input, taken, cursor, search, plan, portChanges, stored, ever, retyped>>

Fresh == [next |-> [s \in Slots |-> 0], selected |-> [s \in Slots |-> 0],
          checked |-> [s \in Slots |-> 0]]
Returned == [at |-> "returned", used |-> {}, todo |-> {}, attempts |-> 0, ledger |-> {}]
Held(t) == t.ledger \cup t.host

PortInit ==
  /\ input \in Inputs
  /\ taken \in [ledger : SUBSET Ports, host : {{}}]
  /\ cursor = Fresh /\ stored = Fresh
  /\ search = Returned
  /\ plan = [kind |-> "none"]
  /\ portChanges = 0
  /\ ever = Held(taken)
  /\ retyped = FALSE

Automatic == {s \in Slots : input[s].explicit = 0}
Explicit == {input[s].explicit : s \in Slots \ Automatic}
LeastSlot(S) == CHOOSE s \in S : \A t \in S : s <= t
Greater(a, b) == IF a > b THEN a ELSE b

\* The cursor the plan goes on with; a fresh one has no history.
KeepCursor(next) ==
  /\ stored' = next /\ cursor' = next
  /\ IF next = Fresh THEN ever' = Held(taken) /\ retyped' = FALSE
     ELSE UNCHANGED <<ever, retyped>>

\* preview: an incomplete answer brings the cursor to go on with, a complete one
\* ends the search, and after any other the plan has the cursor it had.
ReturnPlan(result) ==
  /\ plan' = result
  /\ search' = Returned
  /\ KeepCursor(CASE result.kind = "incomplete" -> cursor
                  [] result.kind = "complete" -> Fresh
                  [] OTHER -> stored)

-------------------------------------------------------------------------------
(* One look at a port *)

\* PortSnapshot::inspect: the snapshot first, then the operating system; it
\* may also fail to answer.
PortLooks == {"free", "taken", "unavailable"}
InspectPort(port, look) ==
  /\ look = "free" => port \notin search.ledger \cup taken.host
  /\ look = "taken" => port \in search.ledger \cup taken.host
  /\ look = "unavailable" => port \notin search.ledger

Rejected(slot, reason) == ReturnPlan([kind |-> "rejected", slot |-> slot, reason |-> reason])

-------------------------------------------------------------------------------
(* plan_ports: the input, then what is explicit, then what was selected *)

\* An explicit port is in range and no other slot's.
ValidExplicit(s) ==
  /\ input[s].explicit \in input[s].min..input[s].max
  /\ \A t \in Slots \ Automatic : input[t].explicit = input[s].explicit => t = s

SelectedAnyway(s) == cursor.selected[s] > 0
\* A selection stays only if the plan, as it is now, could still make it.
StillSelected(s) ==
  LET port == cursor.selected[s]
  IN /\ port > 0 /\ s \in Automatic
     /\ port \in input[s].min..input[s].max /\ port > input[s].source
     /\ port \notin Explicit

\* PortSnapshot::observe: the reservations that are held or committed, and
\* every TCP port a container publishes, stopped ones included.
LedgerSnapshot == taken.ledger

\* plan_observed: the ledger and Docker are read, the cursor is taken up.
BeginCall ==
  /\ search = Returned
  /\ IF \E s \in Slots \ Automatic : ~ValidExplicit(s)
     THEN /\ \E s \in Slots \ Automatic : ~ValidExplicit(s) /\ Rejected(s, "input")
          /\ UNCHANGED <<input, taken, portChanges>>
     ELSE /\ cursor' = [cursor EXCEPT
               !.checked = [s \in Slots |-> IF @[s] = input[s].explicit THEN @[s] ELSE 0],
               !.selected = [s \in Slots |-> IF StillSelected(s) THEN @[s] ELSE 0]]
          /\ search' = [Returned EXCEPT !.at = "explicit", !.ledger = LedgerSnapshot,
               !.todo = {s \in Slots \ Automatic : cursor.checked[s] # input[s].explicit}]
          /\ UNCHANGED <<input, taken, plan, portChanges, stored, ever, retyped>>

\* A command or its output is not as expected: no port is suggested.
ObserveFails ==
  /\ search = Returned
  /\ Rejected(0, "unavailable")
  /\ UNCHANGED <<input, taken, portChanges>>

CheckExplicit ==
  /\ search.at = "explicit" /\ search.todo # {}
  /\ LET s == LeastSlot(search.todo)
     IN \E look \in PortLooks :
          /\ InspectPort(input[s].explicit, look)
          /\ IF look = "free"
             THEN /\ cursor' = [cursor EXCEPT !.checked[s] = input[s].explicit]
                  /\ search' = [search EXCEPT !.todo = @ \ {s}]
                  /\ UNCHANGED <<plan, stored, ever, retyped>>
             ELSE Rejected(s, look)
  /\ UNCHANGED <<input, taken, portChanges>>

StartRevalidation ==
  /\ search.at = "explicit" /\ search.todo = {}
  /\ search' = [search EXCEPT !.at = "selected",
                          !.todo = {s \in Slots : cursor.selected[s] > 0}]
  /\ UNCHANGED <<input, taken, cursor, plan, portChanges, stored, ever, retyped>>

\* A selection that is taken meanwhile is given up, and the search goes on
\* behind it.
Revalidate ==
  /\ search.at = "selected" /\ search.todo # {}
  /\ LET s == LeastSlot(search.todo)
         port == cursor.selected[s]
     IN \E look \in PortLooks :
          /\ InspectPort(port, look)
          /\ IF look = "unavailable" THEN Rejected(s, look)
             ELSE /\ cursor' = IF look = "free" THEN cursor ELSE
                       [cursor EXCEPT !.selected[s] = 0, !.next[s] = Greater(@, port + 1)]
                  /\ search' = [search EXCEPT !.todo = @ \ {s}]
                  /\ UNCHANGED <<plan, stored, ever, retyped>>
  /\ UNCHANGED <<input, taken, portChanges>>

Selections == {s \in Slots : cursor.selected[s] > 0}
StartScan ==
  /\ search.at = "selected" /\ search.todo = {}
  /\ IF \E s \in Selections : \/ cursor.selected[s] \in Explicit
                               \/ \E t \in Selections \ {s} : cursor.selected[s] = cursor.selected[t]
     THEN \E s \in Selections : Rejected(s, "planned")
     ELSE /\ search' = [search EXCEPT !.at = "scan",
                        !.used = Explicit \cup {cursor.selected[s] : s \in Selections}]
          /\ UNCHANGED <<cursor, plan, stored, ever, retyped>>
  /\ UNCHANGED <<input, taken, portChanges>>

-------------------------------------------------------------------------------
(* plan_ports: the scan of the automatic slots, in order *)

OpenSlots == {s \in Automatic : cursor.selected[s] = 0}
FirstPort(s) == IF input[s].source > 0 THEN input[s].source + 1 ELSE input[s].recommended
Candidate(s) == Greater(cursor.next[s], FirstPort(s))
HasCandidate(s) == FirstPort(s) > 0 /\ Candidate(s) <= input[s].max

Skip(s, port) == port < input[s].min \/ port \in search.used

\* The time is checked before every look.
OutOfTime ==
  /\ search.at # "returned" /\ (search.todo # {} \/ (search.at = "scan" /\ OpenSlots # {} /\ HasCandidate(LeastSlot(OpenSlots))))
  /\ ReturnPlan([kind |-> "incomplete"])
  /\ UNCHANGED <<input, taken, portChanges>>

Try ==
  /\ search.at = "scan" /\ OpenSlots # {} /\ search.attempts < Limit
  /\ LET s == LeastSlot(OpenSlots)
         port == Candidate(s)
     IN /\ HasCandidate(s)
        /\ \/ /\ Skip(s, port)
              /\ cursor' = [cursor EXCEPT !.next[s] = port + 1]
              /\ search' = [search EXCEPT !.attempts = @ + 1]
              /\ UNCHANGED <<plan, stored, ever, retyped>>
           \/ /\ ~Skip(s, port)
              /\ \E look \in PortLooks :
                   /\ InspectPort(port, look)
                   /\ IF look = "unavailable" THEN Rejected(s, look)
                      ELSE /\ cursor' = [cursor EXCEPT !.next[s] = port + 1,
                                !.selected[s] = IF look = "free" THEN port ELSE 0]
                           /\ search' = [search EXCEPT !.attempts = @ + 1,
                                !.used = IF look = "free" THEN @ \cup {port} ELSE @]
                           /\ UNCHANGED <<plan, stored, ever, retyped>>
  /\ UNCHANGED <<input, taken, portChanges>>

\* No starting point, or the range is exhausted: the user must choose.
NeedsInput ==
  /\ search.at = "scan" /\ OpenSlots # {} /\ ~HasCandidate(LeastSlot(OpenSlots))
  /\ ReturnPlan([kind |-> "needs input", slot |-> LeastSlot(OpenSlots), ever |-> ever, same |-> ~retyped])
  /\ UNCHANGED <<input, taken, portChanges>>

Complete ==
  /\ search.at = "scan" /\ OpenSlots = {}
  /\ ReturnPlan([kind |-> "complete", ever |-> ever, same |-> ~retyped, ledger |-> search.ledger,
             ports |-> [s \in Slots |-> IF cursor.selected[s] > 0 THEN cursor.selected[s]
                                                                ELSE input[s].explicit]])
  /\ UNCHANGED <<input, taken, portChanges>>

-------------------------------------------------------------------------------
(* Around the calls *)

\* Another program, container or instance takes a port or lets one go.
World ==
  /\ portChanges < MaxPortChanges
  /\ \E port \in Ports, where \in {"ledger", "host"} :
       taken' = [taken EXCEPT ![where] = IF port \in @ THEN @ \ {port} ELSE @ \cup {port}]
  /\ portChanges' = portChanges + 1
  /\ ever' = ever \cup Held(taken')
  /\ UNCHANGED <<input, cursor, stored, search, plan, retyped>>

\* The user types a port, or deletes it; the answer is not for this input.  The
\* plans drop the cursor then, but plan_ports does not rely on it.
Retype ==
  /\ search = Returned /\ portChanges < MaxPortChanges
  /\ \E s \in Slots, port \in Ports \cup {0} : input' = [input EXCEPT ![s].explicit = port]
  /\ portChanges' = portChanges + 1
  /\ plan' = [kind |-> "none"]
  /\ \/ KeepCursor(Fresh)
     \/ retyped' = TRUE /\ UNCHANGED <<cursor, stored, ever>>
  /\ UNCHANGED <<taken, search>>

PortNext ==
  \/ BeginCall \/ ObserveFails \/ OutOfTime \/ CheckExplicit
  \/ StartRevalidation \/ Revalidate \/ StartScan
  \/ Try \/ NeedsInput \/ Complete
  \/ World \/ Retype

PortSpec == PortInit /\ [][PortNext]_portVars

-------------------------------------------------------------------------------
(* Properties *)

\* A complete plan gives every slot a port of its range and of its own; one
\* that was searched is above the source's and was free in the ledger and
\* Docker as this very call read them, however many calls the search took
\* and whatever the user retyped between them.
PlanIsSound ==
  plan.kind = "complete" =>
    /\ \A s \in Slots : plan.ports[s] \in input[s].min..input[s].max
    /\ \A s, t \in Slots : plan.ports[s] = plan.ports[t] => s = t
    /\ \A s \in Slots \ Automatic : plan.ports[s] = input[s].explicit
    /\ \A s \in Automatic : plan.ports[s] > input[s].source
                            /\ plan.ports[s] \notin plan.ledger

Candidates(s) == {p \in Ports : p \in input[s].min..input[s].max /\ p >= FirstPort(s)}

\* For one and the same input, a search spread over several calls skips no
\* port that was free all the time, but what another slot of the plan has: a
\* slot gets its first such port, and only a slot that has hardly any is left
\* to the user.
NoFreePortSkipped ==
  plan.kind \in {"complete", "needs input"} /\ plan.same =>
    \/ /\ plan.kind = "complete"
       /\ \A s \in Automatic : \A p \in Candidates(s) :
            \/ p >= plan.ports[s] \/ p \in plan.ever
            \/ \E t \in Slots \ {s} : plan.ports[t] = p
    \/ /\ plan.kind = "needs input"
       /\ LET left == Candidates(plan.slot) \ plan.ever
          IN FirstPort(plan.slot) = 0 \/ Cardinality(left) < Cardinality(Slots)

PortSearchIsRight == PlanIsSound /\ NoFreePortSkipped
================================================================================
