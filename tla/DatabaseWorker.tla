---------------------------- MODULE DatabaseWorker -----------------------------
(***************************************************************************)
(* The one database of a management root: DatabaseWorker of                *)
(* crates/adapters/src/sqlite.rs, in every process that opens the root.    *)
(* A process takes the backend lock, backs the file up if its schema is    *)
(* old, migrates it in one transaction and then runs the jobs of its       *)
(* callers on one thread.  A job may fail, or panic: that ends the thread, *)
(* but not the process.  A process may die anywhere; SQLite then rolls     *)
(* back what was not committed, and the system releases the lock.          *)
(***************************************************************************)
EXTENDS Integers, Sequences, FiniteSets

CONSTANTS
  Processes,  \* the processes that open the root
  Writers,    \* the callers of write and orm_write, with one job each
  Home,       \* the process each caller is in
  Known,      \* the number of migrations each process's build has
  MaxStarts   \* bound on the starts of a process

\* A caller is in a process, every build has migrations, and the names of no
\* holder, of no job and of the rows from before are no process and no caller.
DatabaseConstants ==
  /\ Home \in [Writers -> Processes]
  /\ Known \in [Processes -> Nat \ {0}]
  /\ "nobody" \notin Processes
  /\ {"none", "old"} \cap Writers = {}

ASSUME DatabaseAssumption == DatabaseConstants

VARIABLES
  file,      \* the database: does it exist, its schema, the committed jobs
  backups,   \* the files in migration-backups, equal ones as one: [whole, schema, rows]
  lock,      \* the holder of backend.lock, or "nobody"
  thread,    \* the database thread of each process: [at, job, existed]
  queue,     \* the channel of each process
  reply,     \* what each caller was told
  starts,    \* counts starts, against MaxStarts
  seen,      \* history: the jobs some reader has seen
  replaced   \* history: the existing files that were migrated

dbVars == <<file, backups, lock, thread, queue, reply, starts, seen, replaced>>

At(at) == [at |-> at, job |-> "none", existed |-> FALSE]

DatabaseInit ==
  /\ \/ file = [exists |-> FALSE, schema |-> 0, rows |-> {}]
     \/ \E v \in {Known[p] : p \in Processes} :
          file = [exists |-> TRUE, schema |-> v, rows |-> {"old"}]
  /\ backups = {}
  /\ lock = "nobody"
  /\ thread = [p \in Processes |-> At("none")]
  /\ queue = [p \in Processes |-> <<>>]
  /\ reply = [w \in Writers |-> "none"]
  /\ starts = [p \in Processes |-> 0]
  /\ seen = {}
  /\ replaced = {}

Quiet == UNCHANGED <<seen, replaced>>

-------------------------------------------------------------------------------
(* start: open_database *)

LockIsFree(p) == lock = "nobody"

\* A busy lock means AlreadyRunning, a schema that is not known NewerSchema;
\* both end the start, and the lock goes with its file.
Start(p) ==
  /\ thread[p].at = "none" /\ starts[p] < MaxStarts
  /\ starts' = [starts EXCEPT ![p] = @ + 1]
  /\ IF LockIsFree(p) /\ file.schema <= Known[p]
     THEN /\ lock' = p
          /\ thread' = [thread EXCEPT ![p] = [At("opened") EXCEPT !.existed = file.exists]]
          /\ file' = [file EXCEPT !.exists = TRUE]
     ELSE /\ thread' = [thread EXCEPT ![p] = At("ended")]
          /\ UNCHANGED <<file, lock>>
  /\ UNCHANGED <<backups, queue, reply>>
  /\ Quiet

Ends(p) ==
  /\ thread' = [thread EXCEPT ![p] = At("ended")]
  /\ lock' = IF lock = p THEN "nobody" ELSE lock

Step(p, at) == thread' = [thread EXCEPT ![p].at = at]

-------------------------------------------------------------------------------
(* start: migrate *)

NewBackup == [whole |-> FALSE, schema |-> file.schema, rows |-> file.rows]
\* Every file that was there before this start is backed up before it changes.
NeedsBackup(p) == thread[p].existed

\* The schema is this build's; the thread tells start so, or that the file
\* cannot be used after all.
Open(p) ==
  /\ thread[p].at = "opened" /\ file.schema = Known[p]
  /\ \/ Step(p, "ready") /\ UNCHANGED lock
     \/ Ends(p)
  /\ UNCHANGED <<file, backups, queue, reply, starts>>
  /\ Quiet

\* backup_before_migration: a new file under a new number, then the copy and
\* its check; a copy that fails is removed, one that is cut off stays.
StartBackup(p) ==
  /\ thread[p].at = "opened" /\ file.schema < Known[p] /\ NeedsBackup(p)
  /\ backups' = backups \cup {NewBackup}
  /\ Step(p, "copying")
  /\ UNCHANGED <<file, lock, queue, reply, starts>>
  /\ Quiet

FinishBackup(p) ==
  /\ thread[p].at = "copying"
  /\ backups' = (backups \ {NewBackup}) \cup {[NewBackup EXCEPT !.whole = TRUE]}
  /\ Step(p, "migrating")
  /\ UNCHANGED <<file, lock, queue, reply, starts>>
  /\ Quiet

FailBackup(p) ==
  /\ thread[p].at = "copying"
  /\ backups' = backups \ {NewBackup}
  /\ Ends(p)
  /\ UNCHANGED <<file, queue, reply, starts>>
  /\ Quiet

SkipBackup(p) ==
  /\ thread[p].at = "opened" /\ file.schema < Known[p] /\ ~NeedsBackup(p)
  /\ Step(p, "migrating")
  /\ UNCHANGED <<file, backups, lock, queue, reply, starts>>
  /\ Quiet

\* apply_migrations: one transaction, whatever number of them is pending.
ApplyMigrations(p) ==
  /\ thread[p].at = "migrating"
  /\ \/ /\ file' = [file EXCEPT !.schema = Known[p]]
        /\ replaced' = IF thread[p].existed
                        THEN replaced \cup {[schema |-> file.schema, rows |-> file.rows]}
                        ELSE replaced
        /\ Step(p, "opened")
        /\ UNCHANGED lock
     \/ Ends(p) /\ UNCHANGED <<file, replaced>>
  /\ UNCHANGED <<backups, queue, reply, starts, seen>>

-------------------------------------------------------------------------------
(* write and orm_write *)

Send(w) ==
  /\ reply[w] = "none"
  /\ IF thread[Home[w]].at \in {"ready", "running", "committed", "rolled back"}
     THEN /\ queue' = [queue EXCEPT ![Home[w]] = Append(@, w)]
          /\ reply' = [reply EXCEPT ![w] = "waiting"]
     ELSE /\ thread[Home[w]].at = "stopped"
          /\ reply' = [reply EXCEPT ![w] = "stopped"]
          /\ UNCHANGED queue
  /\ UNCHANGED <<file, backups, lock, thread, starts>>
  /\ Quiet

Take(p) ==
  /\ thread[p].at = "ready" /\ queue[p] # <<>>
  /\ thread' = [thread EXCEPT ![p].at = "running", ![p].job = Head(queue[p])]
  /\ queue' = [queue EXCEPT ![p] = Tail(@)]
  /\ UNCHANGED <<file, backups, lock, reply, starts>>
  /\ Quiet

\* The job's own transaction is committed, or rolled back.
Commit(p) ==
  /\ thread[p].at = "running"
  /\ \/ file' = [file EXCEPT !.rows = @ \cup {thread[p].job}] /\ Step(p, "committed")
     \/ UNCHANGED file /\ Step(p, "rolled back")
  /\ UNCHANGED <<backups, lock, queue, reply, starts>>
  /\ Quiet

ReplyEarly(p) == thread[p].at \in {"running", "committed", "rolled back"}
\* The answer is sent when the operation has returned.
MayReply(p) == thread[p].at \in {"committed", "rolled back"}

Reply(p) ==
  /\ MayReply(p)
  /\ reply' = [reply EXCEPT ![thread[p].job] =
                 IF thread[p].at = "rolled back" THEN "failed" ELSE "ok"]
  /\ thread' = [thread EXCEPT ![p].at = "ready", ![p].job = "none"]
  /\ UNCHANGED <<file, backups, lock, queue, starts>>
  /\ Quiet

\* The callers whose answers the thread of p still owes.
Owed(p) == {w \in Writers : Home[w] = p /\ reply[w] = "waiting"}

\* When a thread ends, its channel and the jobs in it are dropped, and with
\* them the senders of their answers.
Dropped(p) == {thread[p].job} \cup {queue[p][n] : n \in DOMAIN queue[p]}

\* A job panics before its transaction, in it, or after it.
Panic(p) ==
  /\ thread[p].at \in {"running", "committed", "rolled back"}
  /\ reply' = [w \in Writers |-> IF w \in Dropped(p) THEN "stopped" ELSE reply[w]]
  /\ queue' = [queue EXCEPT ![p] = <<>>]
  /\ thread' = [thread EXCEPT ![p] = At("stopped")]
  /\ lock' = "nobody"
  /\ UNCHANGED <<file, backups, starts>>
  /\ Quiet

-------------------------------------------------------------------------------
(* Readers, and the ends of processes *)

\* read and orm_read have a connection of their own, and a process whose
\* database thread has stopped still has its readers.
Snapshot(p) == file.rows

Read(p) ==
  /\ thread[p].at \in {"ready", "running", "committed", "rolled back", "stopped"}
  /\ seen' = seen \cup Snapshot(p)
  /\ UNCHANGED <<file, backups, lock, thread, queue, reply, starts, replaced>>

\* Drop joins the thread when nobody writes; a crash loses callers and jobs.
Exit(p) ==
  /\ thread[p].at # "none"
  /\ thread' = [thread EXCEPT ![p] = At("none")]
  /\ lock' = IF lock = p THEN "nobody" ELSE lock
  /\ queue' = [queue EXCEPT ![p] = <<>>]
  /\ reply' = [w \in Writers |-> IF w \in Owed(p) THEN "lost" ELSE reply[w]]
  /\ UNCHANGED <<file, backups, starts>>
  /\ Quiet

DatabaseNext ==
  \/ \E p \in Processes :
       \/ Start(p) \/ Open(p) \/ StartBackup(p) \/ FinishBackup(p) \/ FailBackup(p)
       \/ SkipBackup(p) \/ ApplyMigrations(p)
       \/ Take(p) \/ Commit(p) \/ Reply(p) \/ Panic(p) \/ Read(p) \/ Exit(p)
  \/ \E w \in Writers : Send(w)

DatabaseSpec == DatabaseInit /\ [][DatabaseNext]_dbVars

-------------------------------------------------------------------------------
(* Properties *)

Working == {"opened", "copying", "migrating", "ready", "running", "committed", "rolled back"}

\* One process at a time prepares or writes the file, even when the thread of
\* another one has ended and that process lives on.
OneBackend == \A p, q \in Processes : thread[p].at \in Working /\ thread[q].at \in Working => p = q

\* A caller that was told its job is done, and a reader that saw it, are right
\* for ever, through panics, crashes and upgrades; one that was told it failed
\* has left nothing behind; and nobody waits for a thread that owes nothing.
AnswersAreTrue ==
  /\ seen \subseteq file.rows
  /\ \A w \in Writers :
       /\ reply[w] = "ok" => w \in file.rows
       /\ reply[w] = "failed" => w \notin file.rows
       /\ reply[w] = "waiting" =>
            \/ thread[Home[w]].job = w
            \/ \E n \in DOMAIN queue[Home[w]] : queue[Home[w]][n] = w

\* What a migration replaced is in a checked backup, as it was, whatever
\* earlier attempts were cut off and left behind.
UpgradesAreBackedUp == \A old \in replaced :
  [whole |-> TRUE, schema |-> old.schema, rows |-> old.rows] \in backups

DatabaseKeepsItsWord == OneBackend /\ AnswersAreTrue /\ UpgradesAreBackedUp
================================================================================
