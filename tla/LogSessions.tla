------------------------------ MODULE LogSessions ------------------------------
(***************************************************************************)
(* The log subscriptions of the desktop application: LogSessions of        *)
(* crates/adapters/src/log_subscription.rs, the supervisor of one log CLI  *)
(* in docker_cli/logs.rs, and the calls of log_commands.rs and main.rs.    *)
(* A subscribe call reserves its entry, looks at the instance and its      *)
(* container, starts a CLI and puts its stream into the entry.  Leases,    *)
(* windows that close, unsubscribe calls and the end of the application    *)
(* may close the entry at any moment of that.  An id may be used again     *)
(* when its entry is gone, so that a session is an id and the number of    *)
(* its use.                                                                *)
(***************************************************************************)
EXTENDS Integers, FiniteSets

CONSTANTS
  Requests,  \* the ids of subscribe calls, which name the subscriptions
  OwnerOf,   \* the window each of them comes from
  Closers,   \* unsubscribe calls that may run at a time
  Capacities, \* CAPACITY is one of these; the application has 2
  UsesOf     \* bound on the uses of each id

ASSUME LogAssumption ==
  /\ Capacities \subseteq Nat \ {0}
  /\ DOMAIN OwnerOf = Requests
  /\ UsesOf \in [Requests -> Nat]

Sessions == UNION {{r} \X (1..UsesOf[r]) : r \in Requests}
Tasks == Closers \cup {"exit"}

VARIABLES
  call,       \* where the subscribe call of an id is
  use,        \* the number of uses of an id
  entry,      \* the use of the id that has an entry, or 0
  closing,    \* the sessions whose closing flag is set
  started,    \* the sessions whose start is over
  attached,   \* the sessions whose entry has the stream
  cli,        \* the supervisor of a session
  alive,      \* the sessions whose docker logs process exists
  cancelled,  \* the sessions whose stream was told to end
  task,       \* the unsubscribe calls, that of the exit among them
  quit,       \* the end of the application
  todo,       \* the sessions the end still has to release
  capacity    \* CAPACITY, which never changes

entryVars == <<entry, closing, started, attached>>
cliVars == <<cli, alive, cancelled>>
callVars == <<call, use>>
exitVars == <<quit, todo>>
vars == <<callVars, entryVars, cliVars, task, exitVars>>

At(r) == <<r, entry[r]>>
Tracked == {s \in Sessions : entry[s[1]] = s[2]}
Now(r) == <<r, use[r]>>
Locked(s) == \E k \in Tasks : task[k].at = "closing" /\ task[k].of = s
Resting == [at |-> "idle", of |-> <<>>]

Init ==
  /\ capacity \in Capacities
  /\ call = [r \in Requests |-> "idle"]
  /\ use = [r \in Requests |-> 0]
  /\ entry = [r \in Requests |-> 0]
  /\ closing = {} /\ started = {} /\ attached = {}
  /\ cli = [s \in Sessions |-> "none"]
  /\ alive = {} /\ cancelled = {}
  /\ task = [k \in Tasks |-> Resting]
  /\ quit = "no" /\ todo = {}

-------------------------------------------------------------------------------
(* The table of sessions *)

\* try_lock fails while close holds the stream; close has cancelled it then.
Reachable(S) == {s \in S : s \in attached /\ ~Locked(s)}

\* What retain keeps of the entries that are closing.
Kept(s) ==
  IF s \in attached
  THEN Locked(s) \/ cli[s] # "confirmed"
  ELSE s \notin started

\* The entries a call of expire closes when the leases of old are over, and
\* the ones of them it removes.  A lease may be over whenever it is looked at.
Late(old) == Tracked \cap (closing \cup old)
Over(old) == {s \in Late(old) : ~Kept(s)}

\* Removing an entry drops its stream.
RemoveEntries(S, changed) ==
  /\ entry' = [r \in Requests |-> IF <<r, changed[r]>> \in S THEN 0 ELSE changed[r]]
  /\ attached' = attached \ S

ExpireEntries(old) ==
  /\ closing' = closing \cup Late(old)
  /\ cancelled' = cancelled \cup Reachable(Late(old))

\* The loop of main.rs.
Expire ==
  /\ \E old \in SUBSET Tracked : ExpireEntries(old) /\ RemoveEntries(Over(old), entry)
  /\ UNCHANGED <<callVars, started, cli, alive, task, exitVars>>

\* A window is destroyed.
CloseOwner(owner) ==
  LET S == {s \in Tracked : OwnerOf[s[1]] = owner}
  IN /\ closing' = closing \cup S
     /\ cancelled' = cancelled \cup Reachable(S)
     /\ UNCHANGED <<callVars, entry, started, attached, cli, alive, task, exitVars>>

-------------------------------------------------------------------------------
(* subscribe *)

Full(S) == Cardinality(S) >= capacity

\* The call expires the others first.
Refused(r, old) ==
  \/ quit # "no"
  \/ Full(Tracked \ Over(old))
  \/ At(r) \in Tracked \ Over(old)
  \/ Late(old) \ Over(old) # {}

Subscribe(r) == \E old \in SUBSET Tracked :
  /\ call[r] = "idle" /\ use[r] < UsesOf[r]
  /\ ExpireEntries(old)
  /\ IF Refused(r, old)
     THEN RemoveEntries(Over(old), entry) /\ UNCHANGED <<call, use>>
     ELSE /\ call' = [call EXCEPT ![r] = "validating"]
          /\ use' = [use EXCEPT ![r] = @ + 1]
          /\ RemoveEntries(Over(old), [entry EXCEPT ![r] = use'[r]])
  /\ UNCHANGED <<started, cli, alive, task, exitVars>>

FinishQuietly(r) ==
  /\ call' = [call EXCEPT ![r] = "idle"]
  /\ started' = IF call[r] = "validating" THEN started ELSE started \cup {Now(r)}

\* StartCompletion is dropped with the call, however that ends.
Finish(r) ==
  /\ started' = started \cup {Now(r)}
  /\ call' = [call EXCEPT ![r] = "idle"]

\* An entry that is closing keeps its place until someone saw the start end.
Fail(r) ==
  /\ Finish(r)
  /\ RemoveEntries({Now(r)} \ closing, entry)
  /\ UNCHANGED closing

\* The saved identity, the confirmed inputs and the container are looked at,
\* and the identity again after that.  What they find is left open.
Validate(r) ==
  /\ call[r] = "validating"
  /\ \/ call' = [call EXCEPT ![r] = "checking"] /\ UNCHANGED entryVars
     \/ Fail(r)
  /\ UNCHANGED <<use, cliVars, task, exitVars>>

\* The call is given up at its wait.
Abort(r) ==
  /\ call[r] = "validating"
  /\ Finish(r)
  /\ UNCHANGED <<use, entry, closing, attached, cliVars, task, exitVars>>

CheckClosing(r) ==
  /\ call[r] = "checking"
  /\ IF Now(r) \in closing
     THEN Fail(r)
     ELSE call' = [call EXCEPT ![r] = "launching"] /\ UNCHANGED entryVars
  /\ UNCHANGED <<use, cliVars, task, exitVars>>

\* follow_logs: the identifier or the secrets may be refused.
FollowLogs(r) ==
  /\ call[r] = "launching"
  /\ \/ /\ cli' = [cli EXCEPT ![Now(r)] = "queued"]
        /\ call' = [call EXCEPT ![r] = "launched"]
        /\ UNCHANGED entryVars
     \/ Fail(r) /\ UNCHANGED cli
  /\ UNCHANGED <<use, alive, cancelled, task, exitVars>>

\* Without its entry the stream is dropped.
Attach(r) ==
  LET s == Now(r)
  IN /\ call[r] = "launched"
     /\ Finish(r)
     /\ IF s \in Tracked
        THEN /\ attached' = attached \cup {s}
             /\ cancelled' = IF s \in closing THEN cancelled \cup {s} ELSE cancelled
        ELSE cancelled' = cancelled \cup {s} /\ UNCHANGED attached
     /\ UNCHANGED <<use, entry, closing, cli, alive, task, exitVars>>

-------------------------------------------------------------------------------
(* get *)

\* The call expires the others first.  A session whose container is not the
\* saved one any more, or not known yet, is closed.
Get(r, same) == \E old \in SUBSET Tracked :
  LET s == At(r)
      ends == IF s \in Tracked \ (closing \cup old) /\ ~same THEN {s} ELSE {}
  IN /\ same => s \in attached
     /\ closing' = closing \cup Late(old) \cup ends
     /\ cancelled' = cancelled \cup Reachable(Late(old) \cup ends)
     /\ RemoveEntries(Over(old), entry)
     /\ UNCHANGED <<callVars, started, cli, alive, task, exitVars>>

-------------------------------------------------------------------------------
(* unsubscribe *)

Begin(k, s) ==
  /\ closing' = closing \cup {s}
  /\ task' = [task EXCEPT ![k] = [at |-> "waiting", of |-> s]]

\* The owner of an entry releases it; for others it is missing.
Unsubscribe(k, r) ==
  /\ k \in Closers /\ task[k] = Resting
  /\ At(r) \in Tracked
  /\ Begin(k, At(r))
  /\ UNCHANGED <<callVars, entry, started, attached, cliVars, exitVars>>

Release(k, ok) ==
  /\ task' = [task EXCEPT ![k] = Resting]
  /\ IF k # "exit" THEN UNCHANGED exitVars
     ELSE /\ todo' = todo \ {task[k].of}
          /\ quit' = IF ok THEN quit ELSE "failing"

FindStreamEarly(k) ==
  /\ task[k].at = "waiting"
  /\ task' = [task EXCEPT ![k].at = IF task[k].of \in Tracked \cap attached THEN "locking" ELSE "removing"]
  /\ UNCHANGED <<callVars, entryVars, cliVars, exitVars>>

FindStream(k) ==
  /\ task[k].at = "waiting" /\ task[k].of \in started
  /\ task' = [task EXCEPT ![k].at = IF task[k].of \in Tracked \cap attached THEN "locking" ELSE "removing"]
  /\ UNCHANGED <<callVars, entryVars, cliVars, exitVars>>

\* PENDING_LEASE is over.
GiveUp(k) ==
  /\ task[k].at = "waiting" /\ task[k].of \notin started
  /\ Release(k, FALSE)
  /\ UNCHANGED <<callVars, entryVars, cliVars>>

LockStream(k) ==
  /\ task[k].at = "locking" /\ ~Locked(task[k].of)
  /\ task' = [task EXCEPT ![k].at = "closing"]
  /\ cancelled' = cancelled \cup {task[k].of}
  /\ UNCHANGED <<callVars, entryVars, cli, alive, exitVars>>

\* close returns with the supervisor, and later calls return the same.
Closed(k) ==
  /\ task[k].at = "closing"
  /\ \/ /\ cli[task[k].of] = "confirmed"
        /\ task' = [task EXCEPT ![k].at = "removing"]
        /\ UNCHANGED exitVars
     \/ /\ cli[task[k].of] = "unconfirmed"
        /\ Release(k, FALSE)
  /\ UNCHANGED <<callVars, entryVars, cliVars>>

RemoveAny(k) ==
  /\ task[k].at = "removing"
  /\ RemoveEntries({At(task[k].of[1])}, entry)
  /\ Release(k, TRUE)
  /\ UNCHANGED <<callVars, closing, started, cliVars>>

\* Only the session it began with, not a later one of the same id.
Remove(k) ==
  /\ task[k].at = "removing"
  /\ RemoveEntries({task[k].of}, entry)
  /\ Release(k, TRUE)
  /\ UNCHANGED <<callVars, closing, started, cliVars>>

-------------------------------------------------------------------------------
(* The end of the application *)

\* close_owner for every window, then shutdown.
Shutdown ==
  /\ quit = "no"
  /\ quit' = "closing"
  /\ todo' = Tracked
  /\ closing' = closing \cup Tracked
  /\ cancelled' = cancelled \cup Reachable(Tracked)
  /\ UNCHANGED <<callVars, entry, started, attached, cli, alive, task>>

\* One session after the other; what is gone already counts as released.
ReleaseNext(s) ==
  /\ quit \in {"closing", "failing"} /\ task["exit"] = Resting
  /\ s \in todo
  /\ IF entry[s[1]] # 0
     THEN /\ closing' = closing \cup {At(s[1])}
          /\ task' = [task EXCEPT !["exit"] = [at |-> "waiting", of |-> At(s[1])]]
          /\ todo' = (todo \ {s}) \cup {At(s[1])}
     ELSE todo' = todo \ {s} /\ UNCHANGED <<closing, task>>
  /\ UNCHANGED <<callVars, entry, started, attached, cliVars, quit>>

ShutdownDone ==
  /\ quit \in {"closing", "failing"} /\ todo = {}
  /\ quit' = IF quit = "closing" THEN "clean" ELSE "unclean"
  /\ UNCHANGED <<callVars, entryVars, cliVars, task, todo>>

-------------------------------------------------------------------------------
(* The supervisor of one log CLI *)

\* Told to end before it ran; not spawned or not attached; or running.
Spawn(s) ==
  /\ cli[s] = "queued"
  /\ \/ s \in cancelled /\ cli' = [cli EXCEPT ![s] = "confirmed"] /\ UNCHANGED alive
     \/ s \notin cancelled /\ cli' = [cli EXCEPT ![s] = "unconfirmed"] /\ UNCHANGED alive
     \/ /\ s \notin cancelled
        /\ cli' = [cli EXCEPT ![s] = "running"]
        /\ alive' = alive \cup {s}
  /\ UNCHANGED <<callVars, entryVars, cancelled, task, exitVars>>

\* The container is gone, the read failed, or the application ends it.  The
\* group is terminated in every case, and its end is confirmed only when the
\* child is reaped, its pipes are read to their ends and the group is empty.
EndRead(s, self) ==
  /\ cli[s] = "running"
  /\ self \/ s \in cancelled
  /\ \/ cli' = [cli EXCEPT ![s] = "confirmed"] /\ alive' = alive \ {s}
     \/ cli' = [cli EXCEPT ![s] = "unconfirmed"] /\ alive' \in {alive, alive \ {s}}
  /\ UNCHANGED <<callVars, entryVars, cancelled, task, exitVars>>

-------------------------------------------------------------------------------
SubscribeSteps(r) ==
  \/ Validate(r) \/ CheckClosing(r) \/ FollowLogs(r) \/ Attach(r)
Supervise(s) == Spawn(s) \/ EndRead(s, FALSE)
Serve(k) == FindStream(k) \/ LockStream(k) \/ Closed(k) \/ Remove(k)

Next ==
  \/ Expire \/ Shutdown \/ ShutdownDone
  \/ \E r \in Requests : Subscribe(r) \/ SubscribeSteps(r) \/ Abort(r) \/ \E same \in BOOLEAN : Get(r, same)
  \/ \E s \in Sessions : Supervise(s) \/ EndRead(s, TRUE) \/ ReleaseNext(s)
  \/ \E k \in Tasks : GiveUp(k) \/ Serve(k) \/ \E r \in Requests : Unsubscribe(k, r)
  \/ \E owner \in {OwnerOf[r] : r \in Requests} : CloseOwner(owner)

\* The calls and the supervisors run; their reads and waits have deadlines.
\* The loop of main.rs expires every five seconds.
Spec ==
  /\ Init /\ [][Next /\ UNCHANGED capacity]_<<vars, capacity>>
  /\ WF_vars(Expire)
  /\ \A r \in Requests : WF_vars(SubscribeSteps(r))
  /\ \A s \in Sessions : WF_vars(Supervise(s))
  /\ \A k \in Tasks : WF_vars(Serve(k))

-------------------------------------------------------------------------------
(* Properties *)

\* Every docker logs process belongs to an entry of the table, so that someone
\* can still end it, and there are never more of them than the capacity.
LiveReadsAreTracked == alive \subseteq Tracked /\ Cardinality(alive) <= capacity

\* When the application reports that its log reads were cleaned up, no process
\* of one is left and none can still start.
CleanExitIsQuiet ==
  quit = "clean" =>
    /\ alive = {}
    /\ \A s \in Sessions : cli[s] \notin {"queued", "running"}
    /\ \A r \in Requests : call[r] = "idle"

\* A session that is closing gives its place back, unless its process could not
\* be confirmed to have ended: otherwise no logs could be read any more.
ClosingGivesPlaceBack ==
  \A s \in Sessions :
    s \in Tracked \cap closing ~> (s \notin Tracked \/ cli[s] = "unconfirmed")
===============================================================================
