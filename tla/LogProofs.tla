--------------------------- MODULE LogProofs ---------------------------
(***************************************************************************)
(* The log proofs: that no log read escapes, and that what is shown of a   *)
(* log is its masked text.                                                 *)
(*                                                                         *)
(* No read escapes, for any ids, windows, callers and capacity.  The       *)
(* inductive invariant follows a stream from the start that launched it to *)
(* the entry that holds it: an entry goes only when its start is over and  *)
(* its stream, if it has one, is confirmed to have ended.                  *)
(*                                                                         *)
(* The decoder is right for any secrets, text and budgets.  The inductive  *)
(* invariant has three parts.  Every cursor is on the longest proper       *)
(* beginning of its secret that the text ends with.  Every pending byte is *)
(* marked with the longest secret that has come as a whole and starts      *)
(* there.  And the screen shows a text out such that every extension of    *)
(* the raw text, masked, is out and then the masking of what is pending    *)
(* and of the extension: nothing that comes can change what was shown,     *)
(* since more bytes wait than any cursor has matched when one is flushed.  *)
(*                                                                         *)
(* The decoder is defined with functions that recur.  That such a function *)
(* exists, that is, satisfies its own definition, is a lemma here (the     *)
(* theorems of the library for it take operators as parameters): Recursion *)
(* for one that descends, Rounds for one that counts rounds.               *)
(***************************************************************************)
EXTENDS LogSessions, LogDecoder, FiniteSetTheorems, SequenceTheorems, WellFoundedInduction, TLAPS

Calls == {"idle", "validating", "checking", "launching", "launched"}
Clis == {"none", "queued", "running", "confirmed", "unconfirmed"}
Places == {"idle", "waiting", "locking", "closing", "removing"}
Ends == {"no", "closing", "failing", "clean", "unclean"}

TasksOK ==
  /\ task \in [Tasks -> [at : Places, of : Sessions \cup {<<>>}]]
  /\ \A k \in Tasks : task[k].at # "idle" => task[k].of \in Sessions
  /\ quit \in Ends

TypesOK ==
  /\ call \in [Requests -> Calls]
  /\ use \in [Requests -> Nat] /\ entry \in [Requests -> Nat]
  /\ cli \in [Sessions -> Clis]
  /\ started \subseteq Sessions /\ alive \subseteq Sessions
  /\ capacity \in Nat
  /\ TasksOK

\* An id has been used at most as often as its bound says, and nothing is
\* known of a use to come.
UsesCount ==
  /\ \A r \in Requests : entry[r] <= use[r] /\ use[r] <= UsesOf[r]
  /\ \A s \in Sessions : s \in started \/ cli[s] # "none" => s[2] <= use[s[1]]

\* A start under way has its entry, which is not over and has no stream yet.
StartsHaveEntries == \A r \in Requests : call[r] # "idle" =>
  /\ use[r] > 0 /\ entry[r] = use[r]
  /\ Now(r) \notin started
  /\ call[r] # "launched" => cli[Now(r)] = "none"

\* An entry has a stream only once its start is over.
AttachedIsTracked == attached \subseteq Tracked \cap started

\* A stream that may still read is an entry's, or about to be.
StreamsAreHeld == \A s \in Sessions :
  cli[s] \in {"queued", "running", "unconfirmed"} =>
    s \in attached \/ (call[s[1]] = "launched" /\ s = Now(s[1]))

LiveIsSupervised == \A s \in alive : cli[s] \in {"running", "unconfirmed"}

\* Who releases a session has waited for its start, and removes its entry only
\* when the stream is confirmed to have ended.
ReleasesWait == \A k \in Tasks :
  /\ task[k].at \in {"locking", "closing", "removing"} => task[k].of \in started
  /\ task[k].at = "removing" /\ task[k].of \in attached => cli[task[k].of] = "confirmed"

RoomIsKept == IsFiniteSet(Tracked) /\ Cardinality(Tracked) <= capacity

\* The exit has on its list whatever still has an entry.
ExitIsThorough ==
  /\ quit = "closing" => Tracked \subseteq todo
  /\ quit = "clean" => Tracked = {}

\* What is known of the table and the streams, whoever closes them.
LTable ==
  /\ TypesOK /\ UsesCount /\ StartsHaveEntries /\ AttachedIsTracked
  /\ StreamsAreHeld /\ LiveIsSupervised /\ RoomIsKept

LInv == LTable /\ ReleasesWait /\ ExitIsThorough

-------------------------------------------------------------------------------
LEMMA SessionFacts ==
  /\ \A s \in Sessions : s[1] \in Requests /\ s[2] \in 1..UsesOf[s[1]] /\ s = <<s[1], s[2]>>
  /\ \A r \in Requests : \A n \in 1..UsesOf[r] : <<r, n>> \in Sessions
<1>1. ASSUME NEW s \in Sessions
      PROVE  s[1] \in Requests /\ s[2] \in 1..UsesOf[s[1]] /\ s = <<s[1], s[2]>>
  <2>1. PICK r \in Requests : s \in {r} \X (1..UsesOf[r])
    BY DEF Sessions
  <2>2. QED
    BY <2>1
<1>2. ASSUME NEW r \in Requests, NEW n \in 1..UsesOf[r] PROVE <<r, n>> \in Sessions
  BY DEF Sessions
<1>3. QED
  BY <1>1, <1>2

LEMMA NowIsSession ==
  ASSUME LInv, NEW r \in Requests, call[r] # "idle"
  PROVE  Now(r) \in Sessions /\ Now(r) \in Tracked /\ Now(r)[1] = r /\ Now(r)[2] = use[r]
<1>1. use[r] \in 1..UsesOf[r] /\ entry[r] = use[r]
  BY LogAssumption DEF LInv, LTable, TypesOK, UsesCount, StartsHaveEntries
<1>2. QED
  BY <1>1, SessionFacts DEF Now, Tracked

\* What every step needs to know of the table.
LEMMA FewerEntries ==
  ASSUME LInv, Tracked' \subseteq Tracked, capacity' = capacity
  PROVE  RoomIsKept'
<1>1. IsFiniteSet(Tracked') /\ Cardinality(Tracked') <= Cardinality(Tracked)
  BY FS_Subset DEF LInv, LTable, RoomIsKept
<1>2. Cardinality(Tracked') \in Nat /\ Cardinality(Tracked) \in Nat
  BY <1>1, FS_CardinalityType DEF LInv, LTable, RoomIsKept
<1>3. QED
  BY <1>1, <1>2 DEF LInv, LTable, RoomIsKept, TypesOK

-------------------------------------------------------------------------------
(* Entries that go *)

Removable(S) == \A s \in S \cap Tracked :
  s \in started /\ (s \in attached => cli[s] = "confirmed")

LEMMA Removed ==
  ASSUME LInv, NEW S, RemoveEntries(S, entry)
  PROVE  /\ entry' \in [Requests -> Nat]
         /\ \A r \in Requests : entry'[r] = IF <<r, entry[r]>> \in S THEN 0 ELSE entry[r]
         /\ Tracked' = Tracked \ S
<1>1. /\ entry' \in [Requests -> Nat]
      /\ \A r \in Requests : entry'[r] = IF <<r, entry[r]>> \in S THEN 0 ELSE entry[r]
  BY DEF RemoveEntries, LInv, LTable, TypesOK
<1>2. ASSUME NEW s \in Sessions
      PROVE  entry'[s[1]] = s[2] <=> entry[s[1]] = s[2] /\ s \notin S
  <2>1. s[1] \in Requests /\ s[2] \in Nat \ {0} /\ s = <<s[1], s[2]>>
    BY SessionFacts, LogAssumption
  <2>2. QED
    BY <1>1, <2>1
<1>3. QED
  BY <1>1, <1>2 DEF Tracked

LEMMA Removal ==
  ASSUME LInv, NEW S, Removable(S), RemoveEntries(S, entry), TasksOK',
         UNCHANGED <<call, use, started, cli, alive, capacity>>
  PROVE  LTable'
<1> USE DEF LInv, LTable
<1>1. /\ \A r \in Requests : entry'[r] = IF <<r, entry[r]>> \in S THEN 0 ELSE entry[r]
      /\ entry' \in [Requests -> Nat] /\ Tracked' = Tracked \ S /\ attached' = attached \ S
  BY Removed DEF RemoveEntries
<1>2. ASSUME NEW r \in Requests, call[r] # "idle" PROVE <<r, entry[r]>> \notin S
  <2>1. <<r, entry[r]>> = Now(r)
    BY <1>2 DEF StartsHaveEntries, Now
  <2>2. QED
    BY <2>1, <1>2, NowIsSession DEF Removable, StartsHaveEntries
<1>3. TypesOK'
  BY <1>1 DEF TypesOK
<1>4. UsesCount'
  <2>1. \A r \in Requests : entry'[r] <= use[r]
    <3>1. ASSUME NEW r \in Requests PROVE entry'[r] <= use[r]
      <4>1. use[r] \in Nat /\ entry[r] \in Nat /\ entry[r] <= use[r]
        BY DEF UsesCount, TypesOK
      <4>2. entry'[r] = 0 \/ entry'[r] = entry[r]
        BY <1>1
      <4>3. QED
        BY <4>1, <4>2
    <3>2. QED
      BY <3>1
  <2>2. QED
    BY <2>1 DEF UsesCount
<1>5. StartsHaveEntries'
  BY <1>1, <1>2 DEF StartsHaveEntries, Now
<1>6. AttachedIsTracked' /\ LiveIsSupervised'
  BY <1>1 DEF AttachedIsTracked, LiveIsSupervised
<1>7. StreamsAreHeld'
  BY <1>1 DEF StreamsAreHeld, Removable, AttachedIsTracked, Now
<1>8. RoomIsKept'
  BY <1>1, FewerEntries
<1>9. QED
  BY <1>3, <1>4, <1>5, <1>6, <1>7, <1>8

\* Expire, get and a refused subscribe take nothing else away.
LEMMA Expiry ==
  ASSUME LInv, NEW S, Removable(S), RemoveEntries(S, entry),
         UNCHANGED <<call, use, started, cli, alive, task, quit, todo, capacity>>
  PROVE  LInv'
<1>1. TasksOK'
  BY DEF LInv, LTable, TypesOK, TasksOK
<1>2. LTable'
  BY <1>1, Removal
<1>3. Tracked' = Tracked \ S /\ attached' = attached \ S
  BY Removed DEF RemoveEntries
<1>4. ReleasesWait' /\ ExitIsThorough'
  BY <1>3 DEF LInv, LTable, ReleasesWait, ExitIsThorough
<1>5. QED
  BY <1>2, <1>4 DEF LInv, LTable

LEMMA OverIsRemovable ==
  ASSUME LInv, NEW old
  PROVE  Removable(Over(old))
BY DEF Removable, Over, Kept, Late, LInv, LTable, AttachedIsTracked

-------------------------------------------------------------------------------
(* One lemma per action *)

LEMMA InitHolds ==
  ASSUME Init PROVE LInv
<1>1. Tracked = {}
  BY SessionFacts, LogAssumption DEF Init, Tracked
<1>2. TypesOK
  BY LogAssumption DEF Init, TypesOK, TasksOK, Calls, Clis, Places, Ends, Resting
<1>3. UsesCount
  BY LogAssumption, SessionFacts DEF Init, UsesCount
<1>4. StartsHaveEntries /\ AttachedIsTracked /\ StreamsAreHeld /\ LiveIsSupervised
  BY DEF Init, StartsHaveEntries, AttachedIsTracked, StreamsAreHeld, LiveIsSupervised
<1>5. ReleasesWait
  BY DEF Init, ReleasesWait, Resting
<1>6. RoomIsKept
  BY <1>1, <1>2, FS_EmptySet DEF RoomIsKept, TypesOK
<1>7. ExitIsThorough
  BY DEF Init, ExitIsThorough
<1>8. QED
  BY <1>2, <1>3, <1>4, <1>5, <1>6, <1>7 DEF LInv, LTable

LEMMA ExpireHolds ==
  ASSUME LInv, Expire, UNCHANGED capacity PROVE LInv'
<1>1. PICK old : RemoveEntries(Over(old), entry)
  BY DEF Expire
<1>2. QED
  BY <1>1, OverIsRemovable, Expiry DEF Expire, callVars, exitVars

LEMMA GetHolds ==
  ASSUME LInv, NEW r \in Requests, NEW same \in BOOLEAN, Get(r, same), UNCHANGED capacity
  PROVE  LInv'
<1>1. PICK old : RemoveEntries(Over(old), entry)
  BY DEF Get
<1>2. QED
  BY <1>1, OverIsRemovable, Expiry DEF Get, callVars, exitVars

\* What the invariant does not speak of may change at will.
LEMMA FlagsHold ==
  ASSUME LInv,
         UNCHANGED <<call, use, entry, started, attached, cli, alive, task, quit, todo, capacity>>
  PROVE  LInv'
BY DEF LInv, LTable, TypesOK, TasksOK, UsesCount, StartsHaveEntries, AttachedIsTracked, StreamsAreHeld,
       LiveIsSupervised, ReleasesWait, RoomIsKept, ExitIsThorough, Tracked, Now

LEMMA CloseOwnerHolds ==
  ASSUME LInv, NEW owner, CloseOwner(owner), UNCHANGED capacity PROVE LInv'
BY FlagsHold DEF CloseOwner, callVars, exitVars

LEMMA SubscribeHolds ==
  ASSUME LInv, NEW r \in Requests, Subscribe(r), UNCHANGED capacity PROVE LInv'
<1> USE DEF LInv, LTable
<1>1. PICK old \in SUBSET Tracked : 
        /\ call[r] = "idle" /\ use[r] < UsesOf[r]
        /\ IF Refused(r, old)
           THEN RemoveEntries(Over(old), entry) /\ UNCHANGED <<call, use>>
           ELSE /\ call' = [call EXCEPT ![r] = "validating"]
                /\ use' = [use EXCEPT ![r] = @ + 1]
                /\ RemoveEntries(Over(old), [entry EXCEPT ![r] = use'[r]])
        /\ UNCHANGED <<started, cli, alive, task, exitVars>>
  BY DEF Subscribe
<1>2. CASE Refused(r, old)
  BY <1>1, <1>2, OverIsRemovable, Expiry DEF exitVars
<1>3. CASE ~Refused(r, old)
  <2> DEFINE n == use[r] + 1
             new == <<r, n>>
  <2>1. /\ use[r] \in Nat /\ n \in 1..UsesOf[r] /\ n > 0 /\ new \in Sessions
        /\ new \notin started /\ new \notin attached /\ cli[new] = "none" /\ new \notin Tracked
    <3>1. use[r] \in Nat /\ n \in 1..UsesOf[r] /\ n > 0
      BY <1>1, LogAssumption DEF TypesOK
    <3>2. new \in Sessions
      BY <3>1, SessionFacts
    <3>3. ~(n <= use[r])
      BY <3>1
    <3>4. new \notin started /\ cli[new] = "none"
      BY <3>2, <3>3 DEF UsesCount
    <3>5. entry[r] # n
      BY <3>1 DEF UsesCount, TypesOK
    <3>6. QED
      BY <3>1, <3>2, <3>4, <3>5 DEF AttachedIsTracked, Tracked
  <2>2. new \notin Over(old)
    BY <2>1 DEF Over, Late
  <2>3. /\ use' = [use EXCEPT ![r] = n] /\ call' = [call EXCEPT ![r] = "validating"]
        /\ RemoveEntries(Over(old), [entry EXCEPT ![r] = n])
    BY <1>1, <1>3 DEF TypesOK
  <2>4. /\ entry' \in [Requests -> Nat] /\ entry'[r] = n
        /\ \A t \in Requests \ {r} :
             entry'[t] = IF <<t, entry[t]>> \in Over(old) THEN 0 ELSE entry[t]
    BY <2>1, <2>2, <2>3 DEF RemoveEntries, TypesOK
  <2>5. Tracked' = (Tracked \ Over(old)) \cup {new}
    <3>1. ASSUME NEW s \in Sessions, s[1] # r
          PROVE  s \in Tracked' <=> s \in Tracked \ Over(old)
      <4>1. s = <<s[1], s[2]>> /\ s[1] \in Requests \ {r} /\ s[2] \in Nat \ {0}
        BY <3>1, SessionFacts, LogAssumption
      <4>2. s \in Tracked' <=> entry'[s[1]] = s[2]
        BY DEF Tracked
      <4>3. entry'[s[1]] = IF <<s[1], entry[s[1]]>> \in Over(old) THEN 0 ELSE entry[s[1]]
        BY <4>1, <2>4
      <4>4. s \in Tracked <=> entry[s[1]] = s[2]
        BY DEF Tracked
      <4>5. QED
        BY <4>1, <4>2, <4>3, <4>4
    <3>2. ASSUME NEW s \in Sessions, s[1] = r PROVE s \in Tracked' <=> s = new
      <4>1. s = <<r, s[2]>>
        BY <3>2, SessionFacts
      <4>2. s \in Tracked' <=> n = s[2]
        BY <3>2, <2>4 DEF Tracked
      <4>3. QED
        BY <4>1, <4>2
    <3>3. ASSUME NEW s \in Sessions, s[1] = r PROVE s \notin Tracked \ Over(old)
      <4>1. <<r, entry[r]>> \notin Tracked \ Over(old)
        BY <1>3 DEF Refused, At
      <4>2. s = <<r, s[2]>>
        BY <3>3, SessionFacts
      <4>3. QED
        BY <3>3, <4>1, <4>2 DEF Tracked
    <3>4. Tracked' \subseteq Sessions /\ Tracked \subseteq Sessions
      BY DEF Tracked
    <3>5. QED
      BY <3>1, <3>2, <3>3, <3>4, <2>1
  <2>6. attached' = attached \ Over(old)
    BY <2>3 DEF RemoveEntries
  <2>7. UNCHANGED <<started, cli, alive, task, quit, todo>>
    BY <1>1 DEF exitVars
  <2>8. ASSUME NEW t \in Requests, call[t] # "idle" PROVE <<t, entry[t]>> \notin Over(old)
    <3>1. <<t, entry[t]>> = Now(t)
      BY <2>8 DEF StartsHaveEntries, Now
    <3>2. QED
      BY <3>1, <2>8, NowIsSession, OverIsRemovable DEF Removable, StartsHaveEntries
  <2>9. TypesOK'
    BY <2>1, <2>3, <2>4, <2>7 DEF TypesOK, TasksOK, Calls
  <2>10. UsesCount'
    <3>1. ASSUME NEW t \in Requests PROVE entry'[t] <= use'[t] /\ use'[t] <= UsesOf[t]
      <4>1. CASE t = r
        BY <4>1, <2>1, <2>3, <2>4 DEF TypesOK
      <4>2. CASE t # r
        <5>1. use'[t] = use[t] /\ use[t] \in Nat /\ entry[t] \in Nat
          BY <4>2, <2>3 DEF TypesOK
        <5>2. entry'[t] = 0 \/ entry'[t] = entry[t]
          BY <4>2, <2>4
        <5>3. QED
          BY <5>1, <5>2 DEF UsesCount
      <4>3. QED
        BY <4>1, <4>2
    <3>2. ASSUME NEW s \in Sessions, s \in started \/ cli[s] # "none" PROVE s[2] <= use'[s[1]]
      <4>1. s[1] \in Requests /\ s[2] \in Nat /\ use[s[1]] \in Nat /\ s[2] <= use[s[1]]
        BY <3>2, SessionFacts, LogAssumption DEF UsesCount, TypesOK
      <4>2. QED
        BY <4>1, <2>1, <2>3 DEF TypesOK
    <3>3. QED
      BY <3>1, <3>2, <2>7 DEF UsesCount
  <2>11. StartsHaveEntries'
    <3>1. ASSUME NEW t \in Requests \ {r}, call'[t] # "idle"
          PROVE  /\ use'[t] > 0 /\ entry'[t] = use'[t] /\ <<t, use'[t]>> \notin started
                 /\ call'[t] # "launched" => cli[<<t, use'[t]>>] = "none"
      BY <3>1, <2>3, <2>4, <2>8 DEF StartsHaveEntries, Now, TypesOK
    <3>2. /\ use'[r] > 0 /\ entry'[r] = use'[r] /\ <<r, use'[r]>> \notin started
          /\ cli[<<r, use'[r]>>] = "none"
      BY <2>1, <2>3, <2>4 DEF TypesOK
    <3>3. QED
      BY <3>1, <3>2, <2>7 DEF StartsHaveEntries, Now
  <2>12. AttachedIsTracked' /\ LiveIsSupervised' /\ ReleasesWait'
    BY <2>5, <2>6, <2>7 DEF AttachedIsTracked, LiveIsSupervised, ReleasesWait
  <2>13. StreamsAreHeld'
    <3>1. ASSUME NEW s \in Sessions, cli[s] \in {"queued", "running", "unconfirmed"}
          PROVE  s \in attached' \/ (call'[s[1]] = "launched" /\ s = <<s[1], use'[s[1]]>>)
      <4>1. CASE s \in attached
        <5>1. s \notin Over(old)
          BY <3>1, <4>1, OverIsRemovable DEF Removable, AttachedIsTracked
        <5>2. QED
          BY <4>1, <5>1, <2>6
      <4>2. CASE call[s[1]] = "launched" /\ s = Now(s[1])
        BY <4>2, <1>1, <2>3, SessionFacts DEF Now, TypesOK
      <4>3. QED
        BY <3>1, <4>1, <4>2 DEF StreamsAreHeld
    <3>2. QED
      BY <3>1, <2>7 DEF StreamsAreHeld, Now
  <2>14. RoomIsKept'
    <3> DEFINE left == Tracked \ Over(old)
    <3>1. IsFiniteSet(left)
      BY FS_Subset DEF RoomIsKept
    <3>2. Cardinality(left) \in Nat /\ ~(Cardinality(left) >= capacity)
      BY <3>1, FS_CardinalityType, <1>3 DEF Refused, Full
    <3>3. /\ IsFiniteSet(left \cup {new})
          /\ Cardinality(left \cup {new}) = Cardinality(left) + 1
      BY <3>1, <2>1, FS_AddElement
    <3>4. QED
      BY <3>2, <3>3, <2>5 DEF RoomIsKept, TypesOK
  <2>15. ExitIsThorough'
    BY <1>3, <2>7 DEF Refused, ExitIsThorough
  <2>16. QED
    BY <2>9, <2>10, <2>11, <2>12, <2>13, <2>14, <2>15
<1>4. QED
  BY <1>2, <1>3

-------------------------------------------------------------------------------
(* The steps of a start *)

LEMMA NextPlaceHolds ==
  ASSUME LInv, NEW r \in Requests, NEW place \in {"checking", "launching"},
         call[r] # "idle", cli[Now(r)] = "none",
         call' = [call EXCEPT ![r] = place],
         UNCHANGED <<use, entry, started, attached, cli, alive, task, quit, todo, capacity>>
  PROVE  LInv'
<1> USE DEF LInv, LTable
<1>1. Tracked' = Tracked
  BY DEF Tracked
<1>2. TypesOK' /\ UsesCount'
  BY DEF TypesOK, TasksOK, UsesCount, Calls
<1>3. StartsHaveEntries'
  BY DEF StartsHaveEntries, TypesOK, Now
<1>4. StreamsAreHeld'
  <2>1. ASSUME NEW s \in Sessions, cli[s] \in {"queued", "running", "unconfirmed"},
               s \notin attached
        PROVE  call'[s[1]] = "launched" /\ s = Now(s[1])
    <3>1. call[s[1]] = "launched" /\ s = Now(s[1])
      BY <2>1 DEF StreamsAreHeld
    <3>2. s[1] # r /\ s[1] \in Requests
      BY <3>1, <2>1, SessionFacts
    <3>3. QED
      BY <3>1, <3>2 DEF TypesOK
  <2>2. QED
    BY <2>1 DEF StreamsAreHeld, Now
<1>5. AttachedIsTracked' /\ LiveIsSupervised' /\ ReleasesWait' /\ RoomIsKept' /\ ExitIsThorough'
  BY <1>1 DEF AttachedIsTracked, LiveIsSupervised, ReleasesWait, RoomIsKept, ExitIsThorough
<1>6. QED
  BY <1>2, <1>3, <1>4, <1>5

\* A start that ends without a stream, with or without its entry.
LEMMA FailureHolds ==
  ASSUME LInv, NEW r \in Requests, call[r] \in {"validating", "checking", "launching"},
         Finish(r), NEW S, S \subseteq {Now(r)}, RemoveEntries(S, entry),
         UNCHANGED <<use, cli, alive, task, quit, todo, capacity>>
  PROVE  LInv'
<1> USE DEF LInv, LTable
<1>1. /\ Now(r) \in Sessions /\ entry[r] = use[r] /\ cli[Now(r)] = "none"
      /\ Now(r) \notin started /\ Now(r) \notin attached
  BY NowIsSession DEF StartsHaveEntries, AttachedIsTracked
<1>2. /\ entry' \in [Requests -> Nat]
      /\ \A t \in Requests : entry'[t] = IF <<t, entry[t]>> \in S THEN 0 ELSE entry[t]
      /\ Tracked' = Tracked \ S /\ attached' = attached
  BY <1>1, Removed DEF RemoveEntries
<1>3. /\ call' \in [Requests -> Calls] /\ call'[r] = "idle"
      /\ \A t \in Requests \ {r} : call'[t] = call[t] /\ entry'[t] = entry[t]
  BY <1>2 DEF Finish, TypesOK, Calls, Now
<1>4. started' = started \cup {Now(r)}
  BY DEF Finish
<1>5. TypesOK'
  BY <1>1, <1>2, <1>3, <1>4 DEF TypesOK, TasksOK
<1>6. UsesCount'
  <2>1. ASSUME NEW t \in Requests PROVE entry'[t] <= use[t] /\ use[t] <= UsesOf[t]
    <3>1. use[t] \in Nat /\ entry[t] \in Nat /\ (entry'[t] = 0 \/ entry'[t] = entry[t])
      BY <1>2 DEF TypesOK
    <3>2. QED
      BY <3>1 DEF UsesCount
  <2>2. Now(r)[2] <= use[Now(r)[1]]
    BY NowIsSession DEF TypesOK
  <2>3. QED
    BY <2>1, <2>2, <1>4 DEF UsesCount
<1>7. StartsHaveEntries'
  <2>1. ASSUME NEW t \in Requests, call'[t] # "idle"
        PROVE  /\ use[t] > 0 /\ entry'[t] = use[t] /\ <<t, use[t]>> \notin started'
               /\ call'[t] # "launched" => cli[<<t, use[t]>>] = "none"
    BY <2>1, <1>3, <1>4 DEF StartsHaveEntries, Now
  <2>2. QED
    BY <2>1 DEF StartsHaveEntries, Now
<1>8. StreamsAreHeld'
  <2>1. ASSUME NEW s \in Sessions, cli[s] \in {"queued", "running", "unconfirmed"},
               s \notin attached
        PROVE  call'[s[1]] = "launched" /\ s = Now(s[1])
    <3>1. call[s[1]] = "launched" /\ s = Now(s[1]) /\ s[1] \in Requests
      BY <2>1, SessionFacts DEF StreamsAreHeld
    <3>2. QED
      BY <3>1, <1>3
  <2>2. QED
    BY <2>1, <1>2 DEF StreamsAreHeld, Now
<1>9. AttachedIsTracked' /\ LiveIsSupervised' /\ ReleasesWait'
  <2>1. attached \cap S = {}
    BY <1>1
  <2>2. QED
    BY <2>1, <1>1, <1>2, <1>4 DEF AttachedIsTracked, LiveIsSupervised, ReleasesWait
<1>10. RoomIsKept' /\ ExitIsThorough'
  BY <1>2, FewerEntries DEF ExitIsThorough
<1>11. QED
  BY <1>5, <1>6, <1>7, <1>8, <1>9, <1>10

LEMMA FailHolds ==
  ASSUME LInv, NEW r \in Requests, call[r] \in {"validating", "checking", "launching"}, Fail(r),
         UNCHANGED <<use, cli, alive, task, quit, todo, capacity>>
  PROVE  LInv'
BY FailureHolds DEF Fail

LEMMA ValidateHolds ==
  ASSUME LInv, NEW r \in Requests, Validate(r), UNCHANGED capacity PROVE LInv'
<1>1. call[r] = "validating" /\ UNCHANGED <<use, cli, alive, task, quit, todo>>
  BY DEF Validate, cliVars, exitVars
<1>2. cli[Now(r)] = "none"
  BY <1>1 DEF LInv, LTable, StartsHaveEntries
<1>3. CASE call' = [call EXCEPT ![r] = "checking"] /\ UNCHANGED entryVars
  BY <1>1, <1>2, <1>3, NextPlaceHolds DEF entryVars
<1>4. CASE Fail(r)
  BY <1>1, <1>4, FailHolds
<1>5. QED
  BY <1>3, <1>4 DEF Validate

LEMMA CheckClosingHolds ==
  ASSUME LInv, NEW r \in Requests, CheckClosing(r), UNCHANGED capacity PROVE LInv'
<1>1. call[r] = "checking" /\ UNCHANGED <<use, cli, alive, task, quit, todo>>
  BY DEF CheckClosing, cliVars, exitVars
<1>2. cli[Now(r)] = "none"
  BY <1>1 DEF LInv, LTable, StartsHaveEntries
<1>3. CASE call' = [call EXCEPT ![r] = "launching"] /\ UNCHANGED entryVars
  BY <1>1, <1>2, <1>3, NextPlaceHolds DEF entryVars
<1>4. CASE Fail(r)
  BY <1>1, <1>4, FailHolds
<1>5. QED
  BY <1>3, <1>4 DEF CheckClosing

LEMMA AbortHolds ==
  ASSUME LInv, NEW r \in Requests, Abort(r), UNCHANGED capacity PROVE LInv'
<1>1. RemoveEntries({}, entry)
  BY DEF Abort, RemoveEntries, LInv, LTable, TypesOK
<1>2. QED
  BY <1>1, FailureHolds DEF Abort, cliVars, exitVars

LEMMA FollowLogsHolds ==
  ASSUME LInv, NEW r \in Requests, FollowLogs(r), UNCHANGED capacity PROVE LInv'
<1> USE DEF LInv, LTable
<1>1. call[r] = "launching" /\ UNCHANGED <<use, alive, task, quit, todo>>
  BY DEF FollowLogs, exitVars
<1>2. CASE Fail(r) /\ UNCHANGED cli
  BY <1>1, <1>2, FailHolds
<1>3. CASE /\ cli' = [cli EXCEPT ![Now(r)] = "queued"]
           /\ call' = [call EXCEPT ![r] = "launched"]
           /\ UNCHANGED entryVars
  <2>1. /\ Now(r) \in Sessions /\ Now(r)[1] = r /\ Now(r)[2] = use[r] /\ use[r] \in Nat
        /\ use[r] > 0 /\ entry[r] = use[r] /\ Now(r) \notin started
    BY <1>1, NowIsSession DEF StartsHaveEntries, TypesOK
  <2>2. Tracked' = Tracked /\ UNCHANGED <<entry, started, attached>>
    BY <1>3 DEF Tracked, entryVars
  <2>3. /\ cli'[Now(r)] = "queued" /\ call'[r] = "launched"
        /\ \A s \in Sessions \ {Now(r)} : cli'[s] = cli[s]
        /\ \A t \in Requests \ {r} : call'[t] = call[t]
    BY <1>3, <2>1 DEF TypesOK
  <2>4. TypesOK'
    BY <1>1, <1>3, <2>1, <2>2 DEF TypesOK, TasksOK, Calls, Clis
  <2>5. UsesCount'
    <3>1. ASSUME NEW s \in Sessions, s \in started \/ cli'[s] # "none" PROVE s[2] <= use[s[1]]
      <4>1. CASE s = Now(r)
        BY <4>1, <2>1
      <4>2. CASE s # Now(r)
        BY <3>1, <4>2, <2>3 DEF UsesCount
      <4>3. QED
        BY <4>1, <4>2
    <3>2. QED
      BY <3>1, <1>1, <2>2 DEF UsesCount
  <2>6. StartsHaveEntries'
    <3>1. ASSUME NEW t \in Requests \ {r}, call[t] # "idle"
          PROVE  Now(t) \in Sessions /\ Now(t) # Now(r)
      BY <3>1, <2>1, NowIsSession
    <3>2. ASSUME NEW t \in Requests \ {r}, call'[t] # "idle"
          PROVE  /\ use[t] > 0 /\ entry[t] = use[t] /\ <<t, use[t]>> \notin started
                 /\ call'[t] # "launched" => cli'[<<t, use[t]>>] = "none"
      BY <3>1, <3>2, <2>3 DEF StartsHaveEntries, Now
    <3>3. QED
      BY <3>2, <2>1, <2>2, <2>3, <1>1 DEF StartsHaveEntries, Now
  <2>7. StreamsAreHeld'
    <3>1. ASSUME NEW s \in Sessions, cli'[s] \in {"queued", "running", "unconfirmed"},
                 s \notin attached
          PROVE  call'[s[1]] = "launched" /\ s = Now(s[1])
      <4>1. CASE s = Now(r)
        BY <4>1, <2>1, <2>3
      <4>2. CASE s # Now(r)
        BY <3>1, <4>2, <2>3, <1>1, SessionFacts DEF StreamsAreHeld
      <4>3. QED
        BY <4>1, <4>2
    <3>2. QED
      BY <3>1, <1>1, <2>2 DEF StreamsAreHeld, Now
  <2>8. LiveIsSupervised'
    BY <1>1, <2>1, <2>3 DEF LiveIsSupervised, StartsHaveEntries, TypesOK
  <2>9. ReleasesWait'
    BY <1>1, <2>1, <2>2, <2>3 DEF ReleasesWait, AttachedIsTracked, TypesOK, TasksOK
  <2>10. AttachedIsTracked' /\ RoomIsKept' /\ ExitIsThorough'
    BY <1>1, <2>2 DEF AttachedIsTracked, RoomIsKept, ExitIsThorough
  <2>11. QED
    BY <2>4, <2>5, <2>6, <2>7, <2>8, <2>9, <2>10
<1>4. QED
  BY <1>2, <1>3 DEF FollowLogs

LEMMA AttachHolds ==
  ASSUME LInv, NEW r \in Requests, Attach(r), UNCHANGED capacity PROVE LInv'
<1> USE DEF LInv, LTable
<1>1. /\ call[r] = "launched" /\ UNCHANGED <<use, entry, cli, alive, task, quit, todo>>
      /\ started' = started \cup {Now(r)} /\ call' = [call EXCEPT ![r] = "idle"]
  BY DEF Attach, Finish, exitVars
<1>2. /\ Now(r) \in Tracked /\ Now(r) \in Sessions /\ Now(r) \notin started
      /\ Now(r)[1] = r /\ Now(r)[2] = use[r] /\ use[r] \in Nat
  BY <1>1, NowIsSession DEF StartsHaveEntries, TypesOK
<1>3. attached' = attached \cup {Now(r)} /\ Tracked' = Tracked
  BY <1>1, <1>2 DEF Attach, Tracked
<1>4. /\ call'[r] = "idle" /\ \A t \in Requests \ {r} : call'[t] = call[t]
  BY <1>1 DEF TypesOK
<1>5. TypesOK'
  BY <1>1, <1>2 DEF TypesOK, TasksOK, Calls
<1>6. UsesCount'
  BY <1>1, <1>2 DEF UsesCount
<1>7. StartsHaveEntries'
  <2>1. ASSUME NEW t \in Requests, call'[t] # "idle"
        PROVE  /\ use[t] > 0 /\ entry[t] = use[t] /\ <<t, use[t]>> \notin started'
               /\ call'[t] # "launched" => cli[<<t, use[t]>>] = "none"
    BY <2>1, <1>1, <1>4 DEF StartsHaveEntries, Now
  <2>2. QED
    BY <2>1, <1>1 DEF StartsHaveEntries, Now
<1>8. StreamsAreHeld'
  <2>1. ASSUME NEW s \in Sessions, cli[s] \in {"queued", "running", "unconfirmed"},
               s \notin attached'
        PROVE  call'[s[1]] = "launched" /\ s = Now(s[1])
    BY <2>1, <1>3, <1>4, SessionFacts DEF StreamsAreHeld
  <2>2. QED
    BY <2>1, <1>1, <1>3 DEF StreamsAreHeld, Now
<1>9. AttachedIsTracked' /\ LiveIsSupervised' /\ RoomIsKept' /\ ExitIsThorough'
  BY <1>1, <1>2, <1>3 DEF AttachedIsTracked, LiveIsSupervised, RoomIsKept, ExitIsThorough
<1>10. ReleasesWait'
  <2>1. ASSUME NEW k \in Tasks, task[k].at = "removing" PROVE task[k].of # Now(r)
    BY <2>1, <1>2 DEF ReleasesWait
  <2>2. QED
    BY <2>1, <1>1, <1>3 DEF ReleasesWait
<1>11. QED
  BY <1>5, <1>6, <1>7, <1>8, <1>9, <1>10

-------------------------------------------------------------------------------
(* The steps of a release *)

LEMMA Placed ==
  ASSUME TasksOK, NEW k \in Tasks, NEW place, task' = [task EXCEPT ![k].at = place]
  PROVE  task' = [task EXCEPT ![k] = [at |-> place, of |-> task[k].of]]
<1>1. task[k] \in [at : Places, of : Sessions \cup {<<>>}]
  BY DEF TasksOK
<1>2. [task[k] EXCEPT !.at = place] = [at |-> place, of |-> task[k].of]
  BY <1>1
<1>3. QED
  BY <1>2

\* A task that takes its next place leaves the table and the streams alone.
LEMMA PlaceHolds ==
  ASSUME LInv, NEW k \in Tasks, NEW place \in Places \ {"idle"}, NEW s \in Sessions,
         task' = [task EXCEPT ![k] = [at |-> place, of |-> s]],
         place # "waiting" => s \in started,
         place = "removing" /\ s \in attached => cli[s] = "confirmed",
         UNCHANGED <<call, use, entry, started, attached, cli, alive, capacity>>,
         quit' \in Ends, ExitIsThorough'
  PROVE  LInv'
<1>1. TasksOK'
  BY DEF LInv, LTable, TypesOK, TasksOK, Places
<1>2. Tracked' = Tracked
  BY DEF Tracked
<1>3. LTable'
  BY <1>1, <1>2 DEF LInv, LTable, TypesOK, UsesCount, StartsHaveEntries, AttachedIsTracked,
       StreamsAreHeld, LiveIsSupervised, RoomIsKept, Now
<1>4. ReleasesWait'
  <2>1. task'[k] = [at |-> place, of |-> s] /\ \A t \in Tasks \ {k} : task'[t] = task[t]
    BY DEF LInv, LTable, TypesOK, TasksOK
  <2>2. QED
    BY <2>1 DEF LInv, ReleasesWait
<1>5. QED
  BY <1>3, <1>4 DEF LInv

\* A task that gives up does so too.
LEMMA RestHolds ==
  ASSUME LInv, NEW k \in Tasks, task' = [task EXCEPT ![k] = Resting],
         UNCHANGED <<call, use, entry, started, attached, cli, alive, capacity>>,
         quit' \in Ends, ExitIsThorough'
  PROVE  LInv'
<1>1. TasksOK'
  BY DEF LInv, LTable, TypesOK, TasksOK, Places, Resting
<1>2. Tracked' = Tracked
  BY DEF Tracked
<1>3. LTable'
  BY <1>1, <1>2 DEF LInv, LTable, TypesOK, UsesCount, StartsHaveEntries, AttachedIsTracked,
       StreamsAreHeld, LiveIsSupervised, RoomIsKept, Now
<1>4. ReleasesWait'
  <2>1. task'[k].at = "idle" /\ \A t \in Tasks \ {k} : task'[t] = task[t]
    BY DEF LInv, LTable, TypesOK, TasksOK, Resting
  <2>2. QED
    BY <2>1 DEF LInv, ReleasesWait
<1>5. QED
  BY <1>3, <1>4 DEF LInv

LEMMA UnsubscribeHolds ==
  ASSUME LInv, NEW k \in Tasks, NEW r \in Requests, Unsubscribe(k, r), UNCHANGED capacity
  PROVE  LInv'
<1>1. /\ At(r) \in Sessions /\ task' = [task EXCEPT ![k] = [at |-> "waiting", of |-> At(r)]]
      /\ UNCHANGED <<call, use, entry, started, attached, cli, alive, quit, todo>>
  BY DEF Unsubscribe, Begin, Tracked, callVars, cliVars, exitVars
<1>2. quit' \in Ends /\ ExitIsThorough'
  BY <1>1 DEF LInv, LTable, TypesOK, TasksOK, ExitIsThorough, Tracked
<1>3. QED
  BY <1>1, <1>2, PlaceHolds DEF Places

LEMMA FindStreamHolds ==
  ASSUME LInv, NEW k \in Tasks, FindStream(k), UNCHANGED capacity PROVE LInv'
<1> DEFINE s == task[k].of
           place == IF s \in Tracked \cap attached THEN "locking" ELSE "removing"
<1>1. UNCHANGED <<call, use, entry, started, attached, cli, alive, quit, todo>>
  BY DEF FindStream, callVars, entryVars, cliVars, exitVars
<1>2. s \in Sessions /\ s \in started /\ task' = [task EXCEPT ![k] = [at |-> place, of |-> s]]
  <2>1. TasksOK /\ s \in started /\ task[k].at = "waiting" /\ task' = [task EXCEPT ![k].at = place]
    BY DEF FindStream, LInv, LTable, TypesOK
  <2>2. QED
    BY <2>1, Placed DEF TasksOK
<1>3. place = "removing" => s \notin attached
  BY DEF LInv, LTable, AttachedIsTracked
<1>4. quit' \in Ends /\ ExitIsThorough'
  BY <1>1 DEF LInv, LTable, TypesOK, TasksOK, ExitIsThorough, Tracked
<1>5. place \in Places \ {"idle"}
  BY DEF Places
<1> HIDE DEF place
<1>6. QED
  BY <1>1, <1>2, <1>3, <1>4, <1>5, PlaceHolds

LEMMA GiveUpHolds ==
  ASSUME LInv, NEW k \in Tasks, GiveUp(k), UNCHANGED capacity PROVE LInv'
<1>1. UNCHANGED <<call, use, entry, started, attached, cli, alive>>
  BY DEF GiveUp, callVars, entryVars, cliVars
<1>2. task' = [task EXCEPT ![k] = Resting] /\ ((quit' = quit /\ todo' = todo) \/ quit' = "failing")
  BY DEF GiveUp, Release, exitVars
<1>3. quit' \in Ends /\ ExitIsThorough'
  BY <1>1, <1>2 DEF LInv, LTable, TypesOK, TasksOK, ExitIsThorough, Tracked, Ends
<1>4. QED
  BY <1>1, <1>2, <1>3, RestHolds

LEMMA LockStreamHolds ==
  ASSUME LInv, NEW k \in Tasks, LockStream(k), UNCHANGED capacity PROVE LInv'
<1> DEFINE s == task[k].of
<1>1. UNCHANGED <<call, use, entry, started, attached, cli, alive, quit, todo>>
  BY DEF LockStream, callVars, entryVars, exitVars
<1>2. s \in Sessions /\ s \in started /\ task' = [task EXCEPT ![k] = [at |-> "closing", of |-> s]]
  <2>1. TasksOK /\ task[k].at = "locking" /\ task' = [task EXCEPT ![k].at = "closing"]
    BY DEF LockStream, LInv, LTable, TypesOK
  <2>2. QED
    BY <2>1, Placed DEF TasksOK, LInv, ReleasesWait
<1>3. quit' \in Ends /\ ExitIsThorough'
  BY <1>1 DEF LInv, LTable, TypesOK, TasksOK, ExitIsThorough, Tracked
<1>4. QED
  BY <1>1, <1>2, <1>3, PlaceHolds DEF Places

LEMMA ClosedHolds ==
  ASSUME LInv, NEW k \in Tasks, Closed(k), UNCHANGED capacity PROVE LInv'
<1> DEFINE s == task[k].of
<1>1. UNCHANGED <<call, use, entry, started, attached, cli, alive>>
  BY DEF Closed, callVars, entryVars, cliVars
<1>2. CASE /\ cli[s] = "confirmed" /\ task' = [task EXCEPT ![k].at = "removing"]
           /\ UNCHANGED exitVars
  <2>1. s \in Sessions /\ s \in started /\ task' = [task EXCEPT ![k] = [at |-> "removing", of |-> s]]
    BY <1>2 DEF Closed, LInv, LTable, TypesOK, TasksOK, ReleasesWait
  <2>2. quit' \in Ends /\ ExitIsThorough'
    BY <1>1, <1>2 DEF LInv, LTable, TypesOK, TasksOK, ExitIsThorough, Tracked, exitVars
  <2>3. QED
    BY <1>1, <1>2, <2>1, <2>2, PlaceHolds DEF Places
<1>3. CASE Release(k, FALSE)
  <2>1. task' = [task EXCEPT ![k] = Resting] /\ ((quit' = quit /\ todo' = todo) \/ quit' = "failing")
    BY <1>3 DEF Release, exitVars
  <2>2. quit' \in Ends /\ ExitIsThorough'
    BY <1>1, <2>1 DEF LInv, LTable, TypesOK, TasksOK, ExitIsThorough, Tracked, Ends
  <2>3. QED
    BY <1>1, <2>1, <2>2, RestHolds
<1>4. QED
  BY <1>2, <1>3 DEF Closed

LEMMA RemoveHolds ==
  ASSUME LInv, NEW k \in Tasks, Remove(k), UNCHANGED capacity PROVE LInv'
<1> DEFINE s == task[k].of
<1>1. /\ RemoveEntries({s}, entry) /\ task' = [task EXCEPT ![k] = Resting]
      /\ quit' = quit /\ todo' \in {todo, todo \ {s}}
      /\ UNCHANGED <<call, use, started, cli, alive>>
  BY DEF Remove, Release, callVars, cliVars, exitVars
<1>2. Removable({s})
  BY DEF Remove, Removable, LInv, ReleasesWait
<1>3. TasksOK'
  BY <1>1 DEF LInv, LTable, TypesOK, TasksOK, Resting, Places
<1>4. Tracked' = Tracked \ {s} /\ attached' = attached \ {s}
  BY <1>1, Removed DEF RemoveEntries
<1>5. ReleasesWait'
  <2>1. task'[k].at = "idle" /\ \A t \in Tasks \ {k} : task'[t] = task[t]
    BY <1>1 DEF LInv, LTable, TypesOK, TasksOK, Resting
  <2>2. QED
    BY <1>1, <1>4, <2>1 DEF LInv, ReleasesWait
<1>6. ExitIsThorough'
  BY <1>1, <1>4 DEF LInv, ExitIsThorough
<1>7. LTable'
  BY <1>1, <1>2, <1>3, Removal
<1>8. QED
  BY <1>5, <1>6, <1>7 DEF LInv

-------------------------------------------------------------------------------
(* The end of the application, and the supervisors *)

\* The end changes nothing but its own list.
LEMMA ListHolds ==
  ASSUME LInv, UNCHANGED <<call, use, entry, started, attached, cli, alive, task, capacity>>,
         quit' \in Ends, ExitIsThorough'
  PROVE  LInv'
BY DEF LInv, LTable, TypesOK, TasksOK, UsesCount, StartsHaveEntries, AttachedIsTracked,
       StreamsAreHeld, LiveIsSupervised, ReleasesWait, RoomIsKept, Tracked, Now

LEMMA ShutdownHolds ==
  ASSUME LInv, Shutdown, UNCHANGED capacity PROVE LInv'
<1>1. /\ UNCHANGED <<call, use, entry, started, attached, cli, alive, task>>
      /\ quit' = "closing" /\ todo' = Tracked /\ Tracked' = Tracked
  BY DEF Shutdown, callVars, Tracked
<1>2. QED
  BY <1>1, ListHolds DEF ExitIsThorough, Ends

LEMMA ShutdownDoneHolds ==
  ASSUME LInv, ShutdownDone, UNCHANGED capacity PROVE LInv'
<1>1. /\ UNCHANGED <<call, use, entry, started, attached, cli, alive, task>>
      /\ todo = {} /\ Tracked' = Tracked
      /\ (quit = "closing" /\ quit' = "clean") \/ quit' = "unclean"
  BY DEF ShutdownDone, callVars, entryVars, cliVars, Tracked
<1>2. QED
  BY <1>1, ListHolds DEF ExitIsThorough, Ends, LInv

LEMMA ReleaseNextHolds ==
  ASSUME LInv, NEW s \in Sessions, ReleaseNext(s), UNCHANGED capacity PROVE LInv'
<1>1. /\ UNCHANGED <<call, use, entry, started, attached, cli, alive, quit>>
      /\ Tracked' = Tracked /\ quit \in Ends /\ quit # "clean" /\ s[1] \in Requests
  BY SessionFacts DEF ReleaseNext, callVars, cliVars, Tracked, LInv, LTable, TypesOK, TasksOK
<1>2. CASE entry[s[1]] # 0
  <2>1. At(s[1]) \in Sessions
    <3>1. entry[s[1]] \in 1..UsesOf[s[1]]
      BY <1>1, <1>2, LogAssumption DEF LInv, LTable, TypesOK, UsesCount
    <3>2. QED
      BY <1>1, <3>1, SessionFacts DEF At
  <2>2. /\ task' = [task EXCEPT !["exit"] = [at |-> "waiting", of |-> At(s[1])]]
        /\ todo' = (todo \ {s}) \cup {At(s[1])}
    BY <1>2 DEF ReleaseNext
  <2>3. s \in Tracked => s = At(s[1])
    BY SessionFacts DEF Tracked, At
  <2>4. ExitIsThorough' /\ quit' \in Ends
    BY <1>1, <2>2, <2>3 DEF LInv, ExitIsThorough
  <2>5. "exit" \in Tasks
    BY DEF Tasks
  <2>6. QED
    BY <1>1, <2>1, <2>2, <2>4, <2>5, PlaceHolds DEF Places
<1>3. CASE entry[s[1]] = 0
  <2>1. todo' = todo \ {s} /\ UNCHANGED task
    BY <1>3 DEF ReleaseNext
  <2>2. s \notin Tracked
    BY <1>3, SessionFacts, LogAssumption DEF Tracked
  <2>3. ExitIsThorough' /\ quit' \in Ends
    BY <1>1, <2>1, <2>2 DEF LInv, ExitIsThorough
  <2>4. QED
    BY <1>1, <2>1, <2>3, ListHolds
<1>4. QED
  BY <1>2, <1>3

\* A supervisor that goes on, with a stream that was held.
LEMMA SupervisorHolds ==
  ASSUME LInv, NEW s \in Sessions, cli[s] \in {"queued", "running"},
         NEW now \in {"running", "confirmed", "unconfirmed"},
         cli' = [cli EXCEPT ![s] = now],
         alive' \subseteq alive \cup {s}, s \in alive' => now # "confirmed",
         UNCHANGED <<call, use, entry, started, attached, task, quit, todo, capacity>>
  PROVE  LInv'
<1> USE DEF LInv, LTable
<1>1. Tracked' = Tracked
  BY DEF Tracked
<1>2. cli'[s] = now /\ \A t \in Sessions \ {s} : cli'[t] = cli[t]
  BY DEF TypesOK
<1>3. TypesOK' /\ UsesCount'
  BY <1>2 DEF TypesOK, TasksOK, UsesCount, Clis
<1>4. StartsHaveEntries'
  <2>1. ASSUME NEW r \in Requests, call[r] # "idle", call[r] # "launched"
        PROVE  cli'[Now(r)] = "none"
    BY <2>1, <1>2, NowIsSession DEF StartsHaveEntries
  <2>2. QED
    BY <2>1 DEF StartsHaveEntries, Now
<1>5. StreamsAreHeld'
  BY <1>2 DEF StreamsAreHeld, Now
<1>6. LiveIsSupervised'
  BY <1>2 DEF LiveIsSupervised, TypesOK
<1>7. ReleasesWait'
  BY <1>2 DEF ReleasesWait, TypesOK, TasksOK
<1>8. AttachedIsTracked' /\ RoomIsKept' /\ ExitIsThorough'
  BY <1>1 DEF AttachedIsTracked, RoomIsKept, ExitIsThorough
<1>9. QED
  BY <1>3, <1>4, <1>5, <1>6, <1>7, <1>8

LEMMA SpawnHolds ==
  ASSUME LInv, NEW s \in Sessions, Spawn(s), UNCHANGED capacity PROVE LInv'
<1>1. cli[s] = "queued" /\ s \notin alive
      /\ UNCHANGED <<call, use, entry, started, attached, task, quit, todo>>
  BY DEF Spawn, callVars, entryVars, exitVars, LInv, LTable, LiveIsSupervised
<1>2. PICK now \in {"running", "confirmed", "unconfirmed"} :
        /\ cli' = [cli EXCEPT ![s] = now]
        /\ alive' \subseteq alive \cup {s} /\ (s \in alive' => now # "confirmed")
  BY <1>1 DEF Spawn
<1>3. QED
  BY <1>1, <1>2, SupervisorHolds

LEMMA EndReadHolds ==
  ASSUME LInv, NEW s \in Sessions, NEW self \in BOOLEAN, EndRead(s, self), UNCHANGED capacity
  PROVE  LInv'
<1>1. cli[s] = "running" /\ UNCHANGED <<call, use, entry, started, attached, task, quit, todo>>
  BY DEF EndRead, callVars, entryVars, exitVars
<1>2. PICK now \in {"running", "confirmed", "unconfirmed"} :
        /\ cli' = [cli EXCEPT ![s] = now]
        /\ alive' \subseteq alive \cup {s} /\ (s \in alive' => now # "confirmed")
  BY DEF EndRead
<1>3. QED
  BY <1>1, <1>2, SupervisorHolds

-------------------------------------------------------------------------------
(* The theorems *)

LEMMA StepHolds ==
  ASSUME LInv, Next /\ UNCHANGED capacity PROVE LInv'
<1>1. CASE Expire \/ Shutdown \/ ShutdownDone
  BY <1>1, ExpireHolds, ShutdownHolds, ShutdownDoneHolds
<1>2. ASSUME NEW r \in Requests, SubscribeSteps(r) \/ Subscribe(r) \/ Abort(r) PROVE LInv'
  BY <1>2, SubscribeHolds, ValidateHolds, CheckClosingHolds, FollowLogsHolds, AttachHolds,
     AbortHolds DEF SubscribeSteps
<1>3. ASSUME NEW r \in Requests, NEW same \in BOOLEAN, Get(r, same) PROVE LInv'
  BY <1>3, GetHolds
<1>4. ASSUME NEW s \in Sessions, Supervise(s) \/ EndRead(s, TRUE) \/ ReleaseNext(s) PROVE LInv'
  BY <1>4, SpawnHolds, EndReadHolds, ReleaseNextHolds DEF Supervise
<1>5. ASSUME NEW k \in Tasks, GiveUp(k) \/ Serve(k) PROVE LInv'
  BY <1>5, GiveUpHolds, FindStreamHolds, LockStreamHolds, ClosedHolds, RemoveHolds DEF Serve
<1>6. ASSUME NEW k \in Tasks, NEW r \in Requests, Unsubscribe(k, r) PROVE LInv'
  BY <1>6, UnsubscribeHolds
<1>7. ASSUME NEW owner \in {OwnerOf[r] : r \in Requests}, CloseOwner(owner) PROVE LInv'
  BY <1>7, CloseOwnerHolds
<1>8. QED
  BY <1>1, <1>2, <1>3, <1>4, <1>5, <1>6, <1>7 DEF Next

\* The inductive invariant, for any ids, windows, unsubscribe calls, uses and
\* capacity: entries, streams and the tasks that release them agree.
THEOREM Invariance == Spec => []LInv
<1>1. ASSUME LInv, [Next /\ UNCHANGED capacity]_<<vars, capacity>> PROVE LInv'
  <2>1. CASE UNCHANGED <<vars, capacity>>
    BY <1>1, <2>1, FlagsHold DEF vars, callVars, entryVars, cliVars, exitVars
  <2>2. QED
    BY <1>1, <2>1, StepHolds
<1>2. QED
  BY <1>1, InitHolds, PTL DEF Spec

\* Every docker logs process that exists belongs to an entry of the table, and
\* there are never more of them than the capacity.
THEOREM ReadsAreTracked == Spec => []LiveReadsAreTracked
<1>1. ASSUME LInv PROVE LiveReadsAreTracked
  <2>1. alive \subseteq Tracked
    <3>1. ASSUME NEW s \in alive PROVE s \in Tracked
      <4>1. s \in Sessions /\ (s \in attached \/ (call[s[1]] = "launched" /\ s = Now(s[1])))
        BY <1>1 DEF LInv, LTable, TypesOK, LiveIsSupervised, StreamsAreHeld
      <4>2. s[1] \in Requests
        BY <4>1, SessionFacts
      <4>3. QED
        BY <1>1, <4>1, <4>2, NowIsSession DEF LInv, LTable, AttachedIsTracked
    <3>2. QED
      BY <3>1
  <2>2. IsFiniteSet(alive) /\ Cardinality(alive) <= Cardinality(Tracked)
    BY <1>1, <2>1, FS_Subset DEF LInv, LTable, RoomIsKept
  <2>3. Cardinality(alive) \in Nat /\ Cardinality(Tracked) \in Nat /\ capacity \in Nat
    BY <1>1, <2>2, FS_CardinalityType DEF LInv, LTable, RoomIsKept, TypesOK
  <2>4. QED
    BY <1>1, <2>1, <2>2, <2>3 DEF LInv, LTable, RoomIsKept, LiveReadsAreTracked
<1>2. QED
  BY <1>1, Invariance, PTL

\* When shutdown reports a clean end, no process of a log read is left, none can
\* still start, and no start is under way.
THEOREM CleanExit == Spec => []CleanExitIsQuiet
<1>1. ASSUME LInv PROVE CleanExitIsQuiet
  <2>1. SUFFICES ASSUME quit = "clean"
                 PROVE  /\ alive = {}
                        /\ \A s \in Sessions : cli[s] \notin {"queued", "running"}
                        /\ \A r \in Requests : call[r] = "idle"
    BY DEF CleanExitIsQuiet
  <2>2. Tracked = {} /\ attached = {}
    BY <1>1, <2>1 DEF LInv, LTable, ExitIsThorough, AttachedIsTracked
  <2>3. \A r \in Requests : call[r] = "idle"
    BY <1>1, <2>2, NowIsSession
  <2>4. \A s \in Sessions : cli[s] \notin {"queued", "running", "unconfirmed"}
    BY <1>1, <2>2, <2>3, SessionFacts DEF LInv, LTable, StreamsAreHeld
  <2>5. QED
    BY <1>1, <2>3, <2>4 DEF LInv, LTable, TypesOK, LiveIsSupervised
<1>2. QED
  BY <1>1, Invariance, PTL

-------------------------------------------------------------------------------
(* The decoder: functions defined by recursion *)

\* Some numbers have a least one.
LEMMA LeastExists ==
  ASSUME NEW S \in SUBSET Nat, S # {}
  PROVE  \E m \in S : \A k \in S : m <= k
<1> DEFINE R == OpToRel(<, Nat)
<1>1. IsWellFoundedOn(R, S)
  <2>1. IsWellFoundedOn(R, Nat)
    BY NatLessThanWellFounded, Zenon
  <2> HIDE DEF R
  <2>2. QED
    BY <2>1, IsWellFoundedOnSubset
<1>2. PICK m \in S : \A k \in S : ~(<<k, m>> \in R)
  <2> HIDE DEF R
  <2>1. QED
    BY <1>1, WFMin
<1>3. \A k \in S : ~(k < m)
  BY <1>2 DEF OpToRel
<1> HIDE DEF R
<1>4. \A k \in S : m <= k
  BY <1>3
<1>5. QED
  BY <1>4

\* Induction, for a set of numbers.
LEMMA Induction ==
  ASSUME NEW S \in SUBSET Nat, 0 \in S, \A n \in S : n + 1 \in S
  PROVE  \A n \in Nat : n \in S
<1> SUFFICES ASSUME Nat \ S # {} PROVE FALSE
  OBVIOUS
<1>1. PICK m \in Nat \ S : \A k \in Nat \ S : m <= k
  BY LeastExists
<1>2. m # 0 /\ m - 1 \in Nat /\ m - 1 \in S
  BY <1>1
<1>3. QED
  BY <1>1, <1>2

\* The functions on S to V that are at each k in T[k].
Maps(S, V, T) == {f \in [S -> V] : \A k \in S : f[k] \in T[k]}

\* A function defined by recursion exists when its value at k depends on its
\* values of a lower rank only.
Typed(S, V, T, G) == \A k \in S : \A f \in Maps(S, V, T) : G[<<k, f>>] \in T[k]
Descends(S, V, T, r, G) ==
  \A k \in S : \A f, g \in Maps(S, V, T) :
    (\A j \in S : r[j] < r[k] => f[j] = g[j]) => G[<<k, f>>] = G[<<k, g>>]
Ranked(S, r, N) == r \in [S -> Nat] /\ \A k \in S : r[k] < N
Fixed(S, V, T, G) == {f \in Maps(S, V, T) : \A k \in S : f[k] = G[<<k, f>>]}

\* A function with these equations exists.
LEMMA Recursion ==
  ASSUME NEW S, NEW V, NEW T \in [S -> SUBSET V], NEW r, NEW G,
         NEW any \in Maps(S, V, T),
         Typed(S, V, T, G), Descends(S, V, T, r, G), NEW N \in Nat, Ranked(S, r, N)
  PROVE  \E f : f \in Fixed(S, V, T, G)
<1> DEFINE M == Maps(S, V, T)
           P == {n \in Nat : \E f \in M : \A k \in S : r[k] < n => f[k] = G[<<k, f>>]}
<1>1. 0 \in P
  <2>1. \A k \in S : ~(r[k] < 0)
    BY DEF Ranked
  <2>2. QED
    BY <2>1
<1>2. ASSUME NEW n \in P PROVE n + 1 \in P
  <2>1. PICK f \in M : \A k \in S : r[k] < n => f[k] = G[<<k, f>>]
    OBVIOUS
  <2> DEFINE g == [k \in S |-> G[<<k, f>>]]
  <2>2. g \in M
    <3>1. \A k \in S : G[<<k, f>>] \in T[k] /\ G[<<k, f>>] \in V
      BY DEF Typed
    <3>2. QED
      BY <3>1 DEF Maps
  <2>3. \A k \in S : r[k] < n => g[k] = f[k]
    BY <2>1
  <2>4. \A k \in S : g[k] = G[<<k, f>>]
    OBVIOUS
  <2> HIDE DEF g
  <2>5. ASSUME NEW k \in S, r[k] < n + 1 PROVE g[k] = G[<<k, g>>]
    <3>1. \A j \in S : r[j] < r[k] => f[j] = g[j]
      <4> SUFFICES ASSUME NEW j \in S, r[j] < r[k] PROVE f[j] = g[j]
        OBVIOUS
      <4>1. r[j] \in Nat /\ r[k] \in Nat /\ n \in Nat
        BY DEF Ranked
      <4>2. r[j] < n
        BY <4>1, <2>5
      <4>3. QED
        BY <4>2, <2>3
    <3>2. G[<<k, f>>] = G[<<k, g>>]
      BY <3>1, <2>2 DEF Descends
    <3>3. QED
      BY <3>2, <2>4
  <2>6. n + 1 \in Nat
    OBVIOUS
  <2> HIDE DEF M
  <2>7. QED
    BY <2>2, <2>5, <2>6
<1>3. P \in SUBSET Nat
  OBVIOUS
<1> HIDE DEF P
<1>4. N \in P
  BY <1>1, <1>2, <1>3, Induction
<1>5. PICK f \in M : \A k \in S : r[k] < N => f[k] = G[<<k, f>>]
  BY <1>4 DEF P
<1>6. \A k \in S : f[k] = G[<<k, f>>]
  BY <1>5 DEF Ranked
<1>7. QED
  BY <1>5, <1>6 DEF Fixed

\* Functions of the number of rounds: value n is made from value n - 1.
ClosedUnder(N, V, G) == \A n \in 1..N : \A v \in V : G[<<n, v>>] \in V
RoundsOf(N, V, first, G) ==
  {f \in [0..N -> V] : f[0] = first /\ \A n \in 1..N : f[n] = G[<<n, f[n - 1]>>]}

\* A function of the number of rounds exists.
LEMMA Rounds ==
  ASSUME NEW N \in Nat, NEW V, NEW first \in V, NEW G, ClosedUnder(N, V, G)
  PROVE  \E f : f \in RoundsOf(N, V, first, G)
<1> DEFINE S == 0..N
           T == [n \in S |-> V]
           r == [n \in S |-> n]
           M == Maps(S, V, T)
           H == [p \in S \X M |-> IF p[1] = 0 THEN first ELSE G[<<p[1], p[2][p[1] - 1]>>]]
<1>1. M = [S -> V]
  BY DEF Maps
<1>2. [n \in S |-> first] \in M
  BY <1>1
<1>2a. T \in [S -> SUBSET V]
  OBVIOUS
<1>3. \A k \in S : k # 0 => k - 1 \in S /\ k \in 1..N
  OBVIOUS
<1> HIDE DEF M
<1>4. ASSUME NEW k \in S, NEW f \in M PROVE H[<<k, f>>] = IF k = 0 THEN first ELSE G[<<k, f[k - 1]>>]
  OBVIOUS
<1>5. ASSUME NEW k \in S, NEW f \in M PROVE H[<<k, f>>] \in T[k]
  <2>1. k # 0 => f[k - 1] \in V
    BY <1>1, <1>3
  <2>2. QED
    BY <2>1, <1>4, <1>3 DEF ClosedUnder
<1>6. ASSUME NEW k \in S, NEW f \in M, NEW g \in M,
             \A j \in S : r[j] < r[k] => f[j] = g[j]
      PROVE  H[<<k, f>>] = H[<<k, g>>]
  <2>1. k # 0 => f[k - 1] = g[k - 1]
    BY <1>3, <1>6
  <2>2. QED
    BY <2>1, <1>4
<1>7. /\ \A k \in S : r[k] < N + 1
      /\ r \in [S -> Nat]
      /\ N + 1 \in Nat
  OBVIOUS
<1>8. PICK f \in M : \A k \in S : f[k] = H[<<k, f>>]
  <2> HIDE DEF S, T, r, H
  <2>1. Typed(S, V, T, H) /\ Descends(S, V, T, r, H) /\ Ranked(S, r, N + 1)
    BY <1>5, <1>6, <1>7 DEF Typed, Descends, Ranked, M
  <2>2. \E f : f \in Fixed(S, V, T, H)
    BY <1>2, <1>2a, <1>7, <2>1, Recursion DEF M
  <2>3. QED
    BY <2>2 DEF Fixed, M
<1>9. \A k \in S : f[k] = IF k = 0 THEN first ELSE G[<<k, f[k - 1]>>]
  BY <1>4, <1>8
<1>10. 0 \in S /\ \A n \in 1..N : n \in S /\ n # 0
  OBVIOUS
<1>11. QED
  BY <1>9, <1>10, <1>1 DEF RoundsOf

\* There is one such function only.
Agree(u, w, N) == \A n \in 1..N : u[n - 1] = w[n - 1] => u[n] = w[n]

\* There is only one: two that agree on each round end with the same value.
LEMMA OneRounds ==
  ASSUME NEW N \in Nat, NEW u, NEW w, u[0] = w[0], Agree(u, w, N)
  PROVE  u[N] = w[N]
<1> DEFINE S == {n \in Nat : n <= N => u[n] = w[n]}
<1>1. 0 \in S
  OBVIOUS
<1>2. ASSUME NEW n \in S PROVE n + 1 \in S
  <2>1. n + 1 <= N => n + 1 \in 1..N /\ (n + 1) - 1 = n /\ n <= N
    OBVIOUS
  <2>2. QED
    BY <2>1 DEF Agree
<1>3. S \in SUBSET Nat
  OBVIOUS
<1> HIDE DEF S
<1>4. \A n \in Nat : n \in S
  BY <1>1, <1>2, <1>3, Induction
<1>5. QED
  BY <1>4 DEF S

\* The value of a function that is defined by rounds.
LEMMA WeightRule ==
  ASSUME NEW S, NEW lines \in Seq(Seq(S))
  PROVE  \E u \in [0..Len(lines) -> Nat] :
           /\ Weight(lines) = u[Len(lines)]
           /\ u[0] = 0
           /\ \A n \in 1..Len(lines) : u[n] = u[n - 1] + Len(lines[n]) + 1
<1> DEFINE N == Len(lines)
           G == [p \in (1..N) \X Nat |-> p[2] + Len(lines[p[1]]) + 1]
           w == CHOOSE u : u = [n \in 0..N |-> IF n = 0 THEN 0 ELSE u[n - 1] + Len(lines[n]) + 1]
<1>0. N \in Nat /\ \A n \in 1..N : Len(lines[n]) \in Nat
  OBVIOUS
<1>1. \A n \in 1..N : \A v \in Nat : G[<<n, v>>] = v + Len(lines[n]) + 1
  OBVIOUS
<1>2. \A n \in 1..N : \A v \in Nat : v + Len(lines[n]) + 1 \in Nat
  BY <1>0
<1> HIDE DEF N, G
<1>3. PICK u : u \in RoundsOf(N, Nat, 0, G)
  <2>1. ClosedUnder(N, Nat, G)
    BY <1>1, <1>2 DEF ClosedUnder
  <2>2. QED
    BY <1>0, <2>1, Rounds
<1>3a. u \in [0..N -> Nat] /\ u[0] = 0 /\ \A n \in 1..N : u[n] = G[<<n, u[n - 1]>>]
  BY <1>3 DEF RoundsOf
<1>4. \A n \in 1..N : u[n] = u[n - 1] + Len(lines[n]) + 1
  <2>1. \A n \in 1..N : u[n - 1] \in Nat
    BY <1>3a, <1>0
  <2>2. QED
    BY <2>1, <1>1, <1>3a
<1>5. u = [n \in 0..N |-> IF n = 0 THEN 0 ELSE u[n - 1] + Len(lines[n]) + 1]
  <2>1. \A n \in 0..N : u[n] = IF n = 0 THEN 0 ELSE u[n - 1] + Len(lines[n]) + 1
    BY <1>3a, <1>4, <1>0
  <2>2. QED
    BY <2>1, <1>3a
<1>6. w = [n \in 0..N |-> IF n = 0 THEN 0 ELSE w[n - 1] + Len(lines[n]) + 1]
  BY <1>5
<1>7. Weight(lines) = w[N]
  BY DEF Weight, N
<1> HIDE DEF w
<1>8. w[0] = 0 /\ \A n \in 1..N : w[n] = w[n - 1] + Len(lines[n]) + 1
  <2>1. 0 \in 0..N /\ \A n \in 1..N : n \in 0..N /\ n # 0
    BY <1>0
  <2>2. QED
    BY <1>6, <2>1
<1>9. u[N] = w[N]
  <2>1. u[0] = w[0]
    BY <1>3a, <1>8
  <2>2. ASSUME NEW n \in 1..N, u[n - 1] = w[n - 1] PROVE u[n] = w[n]
    BY <2>2, <1>4, <1>8
  <2>3. Agree(u, w, N)
    BY <2>2 DEF Agree
  <2>4. QED
    BY <2>1, <2>3, <1>0, OneRounds
<1>10. Weight(lines) = u[N]
  BY <1>7, <1>9
<1>11. QED
  BY <1>3a, <1>4, <1>10 DEF N

-------------------------------------------------------------------------------
(* Numbers, and the ring of lines *)

\* The largest of some numbers, 0 if there is none.
LEMMA BiggestRule ==
  ASSUME NEW b \in Nat, NEW S \in SUBSET (0..b)
  PROVE  /\ Biggest(S) \in 0..b
         /\ S # {} => Biggest(S) \in S
         /\ \A n \in S : n <= Biggest(S)
<1>1. CASE S = {}
  BY <1>1 DEF Biggest
<1>2. CASE S # {}
  <2> DEFINE D == {d \in Nat : \E n \in S : d = b - n}
  <2>1. PICK n \in S : TRUE
    BY <1>2
  <2>2. b - n \in D
    BY <2>1
  <2>3. PICK d \in D : \A k \in D : d <= k
    <3>1. D \in SUBSET Nat /\ D # {}
      BY <2>2
    <3> HIDE DEF D
    <3>2. QED
      BY <3>1, LeastExists
  <2>4. PICK m \in S : d = b - m
    BY <2>3
  <2>5. ASSUME NEW k \in S PROVE k <= m
    <3>1. b - k \in D /\ k \in Nat /\ m \in Nat
      OBVIOUS
    <3>2. d <= b - k
      BY <3>1, <2>3
    <3>3. QED
      BY <3>1, <3>2, <2>4
  <2>6. \E x \in S : \A k \in S : k <= x
    BY <2>5
  <2>7. Biggest(S) = CHOOSE x \in S : \A k \in S : k <= x
    BY <1>2 DEF Biggest
  <2>8. Biggest(S) \in S /\ \A k \in S : k <= Biggest(S)
    BY <2>6, <2>7
  <2>9. QED
    BY <2>8, <1>2
<1>3. QED
  BY <1>1, <1>2

\* A bound that is reached is the largest number.
LEMMA BiggestIs ==
  ASSUME NEW m \in Nat, NEW S \in SUBSET Nat, m = 0 \/ m \in S, \A n \in S : n <= m
  PROVE  Biggest(S) = m
<1>1. S \in SUBSET (0..m)
  OBVIOUS
<1>2. /\ Biggest(S) \in 0..m
      /\ \A n \in S : n <= Biggest(S)
  BY <1>1, BiggestRule
<1>3. QED
  BY <1>2

-------------------------------------------------------------------------------
(* The weight of lines *)

\* A line more adds its bytes and its line end.
LEMMA WeightAppend ==
  ASSUME NEW S, NEW lines \in Seq(Seq(S)), NEW line \in Seq(S)
  PROVE  /\ Weight(lines) \in Nat
         /\ Weight(Append(lines, line)) = Weight(lines) + Len(line) + 1
<1> DEFINE more == Append(lines, line)
           N == Len(lines)
<1>1. /\ more \in Seq(Seq(S)) /\ N \in Nat /\ Len(more) = N + 1
      /\ more[N + 1] = line /\ \A n \in 1..N : more[n] = lines[n]
  OBVIOUS
<1>2. PICK u \in [0..Len(lines) -> Nat] :
        /\ Weight(lines) = u[Len(lines)] /\ u[0] = 0
        /\ \A n \in 1..Len(lines) : u[n] = u[n - 1] + Len(lines[n]) + 1
  BY WeightRule
<1> HIDE DEF more
<1>3. PICK v \in [0..Len(more) -> Nat] :
        /\ Weight(more) = v[Len(more)] /\ v[0] = 0
        /\ \A n \in 1..Len(more) : v[n] = v[n - 1] + Len(more[n]) + 1
  BY <1>1, WeightRule
<1>4. ASSUME NEW n \in 1..N, u[n - 1] = v[n - 1] PROVE u[n] = v[n]
  <2>1. n \in 1..Len(more)
    BY <1>1
  <2>2. v[n] = v[n - 1] + Len(more[n]) + 1 /\ more[n] = lines[n]
    BY <2>1, <1>1, <1>3
  <2>3. QED
    BY <2>2, <1>2, <1>4
<1>5. u[N] = v[N]
  <2> HIDE DEF N
  <2>1. N \in Nat /\ u[0] = v[0]
    BY <1>1, <1>2, <1>3
  <2>2. Agree(u, v, N)
    BY <1>4 DEF Agree
  <2>3. QED
    BY <2>1, <2>2, OneRounds
<1>6. v[N + 1] = v[N] + Len(line) + 1
  <2>1. N + 1 \in 1..Len(more) /\ (N + 1) - 1 = N
    BY <1>1
  <2>2. QED
    BY <2>1, <1>1, <1>3
<1>7. u[N] \in Nat
  <2>1. N \in 0..Len(lines)
    OBVIOUS
  <2>2. QED
    BY <2>1
<1>8. Weight(lines) = u[N] /\ Weight(more) = v[N + 1]
  <2>1. Weight(more) = v[Len(more)]
    BY <1>3
  <2>2. QED
    BY <2>1, <1>1, <1>2
<1>9. QED
  BY <1>5, <1>6, <1>7, <1>8 DEF more

\* No lines weigh nothing.
LEMMA WeightEmpty == Weight(<<>>) = 0
<1>1. <<>> \in Seq(Seq({})) /\ Len(<<>>) = 0
  OBVIOUS
<1>2. PICK u \in [0..Len(<<>>) -> Nat] : Weight(<<>>) = u[Len(<<>>)] /\ u[0] = 0
  BY <1>1, WeightRule
<1>3. Weight(<<>>) = u[Len(<<>>)] /\ u[Len(<<>>)] = u[0]
  BY <1>1, <1>2
<1>4. QED
  BY <1>2, <1>3

-------------------------------------------------------------------------------
(* The newest lines *)

Newest(lines, n) == SubSeq(lines, Len(lines) - n + 1, Len(lines))

\* The newest n lines are n lines, the last ones.
LEMMA NewestRule ==
  ASSUME NEW S, NEW lines \in Seq(S), NEW n \in 0..Len(lines)
  PROVE  /\ Newest(lines, n) \in Seq(S)
         /\ Len(Newest(lines, n)) = n
         /\ \A i \in 1..n : Newest(lines, n)[i] = lines[Len(lines) - n + i]
<1> DEFINE N == Len(lines)
<1>0. N \in Nat
  OBVIOUS
<1>1. N - n + 1 \in Int /\ N \in Int /\ \A i \in (N - n + 1)..N : lines[i] \in S
  OBVIOUS
<1>2. /\ SubSeq(lines, N - n + 1, N) \in Seq(S)
      /\ Len(SubSeq(lines, N - n + 1, N)) = IF N - n + 1 <= N THEN N - (N - n + 1) + 1 ELSE 0
      /\ \A i \in 1..(N - (N - n + 1) + 1) : SubSeq(lines, N - n + 1, N)[i] = lines[N - n + 1 + i - 1]
  <2> HIDE DEF N
  <2>1. QED
    BY <1>1, SubSeqProperties
<1>3. N - (N - n + 1) + 1 = n /\ \A i \in 1..n : N - n + 1 + i - 1 = N - n + i
  BY <1>0
<1>4. QED
  BY <1>0, <1>2, <1>3 DEF Newest

\* A line more is the newest one.
LEMMA NewestAppend ==
  ASSUME NEW S, NEW lines \in Seq(S), NEW line \in S, NEW n \in 0..Len(lines)
  PROVE  Newest(Append(lines, line), n + 1) = Append(Newest(lines, n), line)
<1> DEFINE more == Append(lines, line)
           N == Len(lines)
           a == Newest(more, n + 1)
           b == Append(Newest(lines, n), line)
<1>1. /\ more \in Seq(S) /\ N \in Nat /\ Len(more) = N + 1
      /\ more[N + 1] = line /\ \A i \in 1..N : more[i] = lines[i]
  OBVIOUS
<1> HIDE DEF more
<1>2. a \in Seq(S) /\ Len(a) = n + 1 /\ \A i \in 1..(n + 1) : a[i] = more[Len(more) - (n + 1) + i]
  <2>1. n + 1 \in 0..Len(more)
    BY <1>1
  <2>2. QED
    BY <1>1, <2>1, NewestRule
<1>3. /\ Newest(lines, n) \in Seq(S) /\ Len(Newest(lines, n)) = n
      /\ \A i \in 1..n : Newest(lines, n)[i] = lines[N - n + i]
  BY NewestRule
<1>4. b \in Seq(S) /\ Len(b) = n + 1 /\ b[n + 1] = line
      /\ \A i \in 1..n : b[i] = Newest(lines, n)[i]
  BY <1>3
<1> HIDE DEF a, b, N
<1>5. ASSUME NEW i \in 1..(n + 1) PROVE a[i] = b[i]
  <2>0. n \in Nat /\ i \in Nat
    BY <1>1 DEF N
  <2>1. Len(more) - (n + 1) + i = N - n + i
    BY <1>1, <2>0
  <2>2. CASE i = n + 1
    BY <2>0, <2>1, <2>2, <1>1, <1>2, <1>4
  <2>3. CASE i # n + 1
    <3>1. i \in 1..n /\ N - n + i \in 1..N
      BY <2>0, <2>3, <1>1 DEF N
    <3>2. QED
      BY <3>1, <2>1, <1>1, <1>2, <1>3, <1>4
  <2>4. QED
    BY <2>2, <2>3
<1>6. a = b
  BY <1>2, <1>4, <1>5, SeqEqual
<1>7. QED
  BY <1>6 DEF a, b, more

\* Without its oldest lines a ring has its newest ones.
LEMMA WithoutRule ==
  ASSUME NEW S, NEW lines \in Seq(S), NEW m \in 0..Len(lines)
  PROVE  Without(lines, m) = Newest(lines, Len(lines) - m)
<1>1. Len(lines) - (Len(lines) - m) + 1 = m + 1
  OBVIOUS
<1>2. QED
  BY <1>1 DEF Without, Newest

\* The newest of the newest lines.
LEMMA NewestNewest ==
  ASSUME NEW S, NEW lines \in Seq(S), NEW n \in 0..Len(lines), NEW m \in 0..n
  PROVE  Newest(Newest(lines, n), m) = Newest(lines, m)
<1> DEFINE a == Newest(lines, n)
           N == Len(lines)
<1>0. N \in Nat /\ n \in Nat /\ m \in Nat /\ m \in 0..N
  OBVIOUS
<1>1. a \in Seq(S) /\ Len(a) = n /\ \A i \in 1..n : a[i] = lines[N - n + i]
  BY NewestRule
<1> HIDE DEF a
<1>2. /\ Newest(a, m) \in Seq(S) /\ Len(Newest(a, m)) = m
      /\ \A i \in 1..m : Newest(a, m)[i] = a[n - m + i]
  <2>1. m \in 0..Len(a)
    BY <1>1
  <2>2. QED
    BY <2>1, <1>1, NewestRule
<1>3. /\ Newest(lines, m) \in Seq(S) /\ Len(Newest(lines, m)) = m
      /\ \A i \in 1..m : Newest(lines, m)[i] = lines[N - m + i]
  BY <1>0, NewestRule
<1>4. ASSUME NEW i \in 1..m PROVE Newest(a, m)[i] = Newest(lines, m)[i]
  <2>1. n - m + i \in 1..n /\ N - n + (n - m + i) = N - m + i
    BY <1>0
  <2>2. QED
    BY <2>1, <1>1, <1>2, <1>3
<1>5. Newest(a, m) = Newest(lines, m)
  BY <1>2, <1>3, <1>4, SeqEqual
<1>6. QED
  BY <1>5 DEF a

-------------------------------------------------------------------------------
(* The ring *)

\* How many lines Evict drops.
Gone(lines) ==
  CHOOSE n \in 0..Len(lines) :
    Fits(Without(lines, n)) /\ \A m \in 0..(n - 1) : ~Fits(Without(lines, m))

\* The lines dropped are the fewest whose loss lets the rest fit.
LEMMA GoneRule ==
  ASSUME NEW S, NEW lines \in Seq(Seq(S))
  PROVE  /\ Gone(lines) \in 0..Len(lines)
         /\ Fits(Without(lines, Gone(lines)))
         /\ \A m \in 0..(Gone(lines) - 1) : ~Fits(Without(lines, m))
<1> DEFINE N == Len(lines)
           D == {n \in 0..N : Fits(Without(lines, n))}
<1>1. N \in Nat
  OBVIOUS
<1>2. N \in D
  <2>1. Without(lines, N) = <<>>
    <3>1. N + 1 \in Int /\ N \in Int /\ N < N + 1
      BY <1>1
    <3>2. QED
      BY <3>1, SubSeqEmpty DEF Without
  <2>2. Len(<<>>) = 0
    OBVIOUS
  <2>3. Fits(<<>>)
    BY <2>2, WeightEmpty, DecoderAssumption DEF Fits, DecoderConstants
  <2>4. QED
    BY <2>1, <2>3, <1>1
<1>3. PICK n \in D : \A k \in D : n <= k
  <2>1. D \in SUBSET Nat /\ D # {}
    BY <1>2
  <2> HIDE DEF D
  <2>2. QED
    BY <2>1, LeastExists
<1>4. n \in 0..N /\ Fits(Without(lines, n))
  BY <1>3
<1>5. ASSUME NEW m \in 0..(n - 1) PROVE ~Fits(Without(lines, m))
  <2>1. m \in 0..N /\ ~(n <= m)
    BY <1>1, <1>4
  <2>2. QED
    BY <2>1, <1>3
<1>6. QED
  BY <1>4, <1>5 DEF Gone

\* k is the number of lines that are kept.
MostKept(lines, k) ==
  /\ k \in 0..Len(lines)
  /\ Fits(Newest(lines, k))
  /\ \A n \in 0..Len(lines) : Fits(Newest(lines, n)) => n <= k

\* With a line more the least eviction keeps the most that fits.
LEMMA KeptAfter ==
  ASSUME NEW S, NEW lines \in Seq(Seq(S)), NEW line \in Seq(S), NEW k, MostKept(lines, k)
  PROVE  LET ring == Append(Newest(lines, k), line)
             left == k + 1 - Gone(ring)
         IN /\ Gone(ring) \in 0..(k + 1)
            /\ MostKept(Append(lines, line), left)
            /\ Without(ring, Gone(ring)) = Newest(Append(lines, line), left)
<1> DEFINE more == Append(lines, line)
           N == Len(lines)
           ring == Append(Newest(lines, k), line)
           gone == Gone(ring)
<1>1. more \in Seq(Seq(S)) /\ Len(more) = N + 1 /\ N \in Nat /\ k \in 0..N /\ k \in Nat
  BY DEF MostKept
<1>2. ring = Newest(more, k + 1) /\ k + 1 \in 0..Len(more)
  BY <1>1, NewestAppend
<1>3. ring \in Seq(Seq(S)) /\ Len(ring) = k + 1
  <2>1. Newest(more, k + 1) \in Seq(Seq(S)) /\ Len(Newest(more, k + 1)) = k + 1
    BY <1>1, <1>2, NewestRule
  <2>2. QED
    BY <2>1, <1>2
<1> HIDE DEF ring
<1>4. /\ gone \in 0..(k + 1)
      /\ Fits(Without(ring, gone))
      /\ \A m \in 0..(gone - 1) : ~Fits(Without(ring, m))
  BY <1>3, GoneRule
<1>5. ASSUME NEW m \in 0..(k + 1) PROVE Without(ring, m) = Newest(more, k + 1 - m)
  <2>1. k + 1 - m \in 0..(k + 1)
    BY <1>1
  <2>2. Without(ring, m) = Newest(ring, k + 1 - m)
    <3>1. m \in 0..Len(ring)
      BY <1>3
    <3>2. Without(ring, m) = Newest(ring, Len(ring) - m)
      BY <3>1, <1>3, WithoutRule
    <3>3. Len(ring) - m = k + 1 - m
      BY <1>1, <1>3
    <3>4. QED
      BY <3>2, <3>3
  <2> HIDE DEF more
  <2>3. Newest(Newest(more, k + 1), k + 1 - m) = Newest(more, k + 1 - m)
    BY <2>1, <1>1, <1>2, NewestNewest
  <2>4. QED
    BY <2>2, <2>3, <1>2
<1> HIDE DEF gone
<1>6. ASSUME NEW n \in 0..Len(more), Fits(Newest(more, n)) PROVE n <= k + 1 - gone
  <2>0. n \in Nat /\ n <= N + 1 /\ gone \in Nat /\ gone <= k + 1
    BY <1>1, <1>4
  <2>1. CASE n <= k + 1
    <3> SUFFICES ASSUME ~(n <= k + 1 - gone) PROVE FALSE
      OBVIOUS
    <3>1. k + 1 - n \in 0..(gone - 1) /\ k + 1 - n \in 0..(k + 1) /\ k + 1 - (k + 1 - n) = n
      BY <2>0, <2>1, <1>1
    <3>2. ~Fits(Without(ring, k + 1 - n))
      BY <3>1, <1>4
    <3>3. Without(ring, k + 1 - n) = Newest(more, n)
      BY <3>1, <1>5
    <3>4. QED
      BY <3>2, <3>3, <1>6
  <2>2. CASE n > k + 1
    <3> DEFINE less == Newest(lines, n - 1)
    <3>1. n - 1 \in 0..N /\ (n - 1) + 1 = n /\ ~(n - 1 <= k) /\ n - 1 \in Nat
      BY <2>0, <2>2, <1>1
    <3>2. Newest(more, n) = Append(less, line)
      <4> HIDE DEF less
      <4>1. Newest(more, (n - 1) + 1) = Append(Newest(lines, n - 1), line)
        BY <3>1, NewestAppend
      <4>2. QED
        BY <4>1, <3>1 DEF less
    <3>3. less \in Seq(Seq(S)) /\ Len(less) = n - 1
      BY <3>1, NewestRule
    <3> HIDE DEF less
    <3>4. /\ Weight(less) \in Nat /\ Weight(Append(less, line)) = Weight(less) + Len(line) + 1
          /\ Len(Append(less, line)) = n /\ Len(line) \in Nat
      BY <3>1, <3>3, WeightAppend
    <3>5. Len(Append(less, line)) <= LogLines /\ Weight(Append(less, line)) <= LogBytes
      BY <1>6, <3>2 DEF Fits
    <3>6. Fits(less)
      BY <3>1, <3>3, <3>4, <3>5, DecoderAssumption DEF Fits, DecoderConstants
    <3>7. n - 1 <= k
      BY <3>1, <3>6 DEF MostKept, less
    <3>8. QED
      BY <3>1, <3>7
  <2>3. QED
    BY <2>0, <2>1, <2>2, <1>1
<1>7. Without(ring, gone) = Newest(more, k + 1 - gone)
  BY <1>4, <1>5
<1>8. k + 1 - gone \in 0..Len(more)
  BY <1>1, <1>4
<1>9. MostKept(more, k + 1 - gone)
  BY <1>4, <1>6, <1>7, <1>8 DEF MostKept
<1>10. QED
  BY <1>4, <1>7, <1>9 DEF gone, ring, more

-------------------------------------------------------------------------------
(* The lines of the ring *)

\* What a line is made of.
Chars == Bytes \cup {Star}

Screens == [line : Seq(Chars), cut : BOOLEAN, lines : Seq(Seq(Chars)), dropped : Nat, truncated : Nat]

Short(line) == SubSeq(line, 1, IF Len(line) > LineBytes THEN LineBytes ELSE Len(line))

\* A line grows on the screen as long as it has room there.
LEMMA ShortRule ==
  ASSUME NEW C, NEW line \in Seq(C), NEW c \in C
  PROVE  /\ Short(line) \in Seq(C)
         /\ Len(line) < LineBytes => Short(Append(line, c)) = Append(Short(line), c)
         /\ Len(line) < LineBytes => Len(Short(line)) < LineBytes
         /\ Len(line) >= LineBytes => Short(Append(line, c)) = Short(line)
         /\ Len(line) >= LineBytes => Len(Short(line)) = LineBytes
<1> DEFINE N == Len(line)
           more == Append(line, c)
<1>0. LineBytes \in Nat /\ N \in Nat
  BY DecoderAssumption DEF DecoderConstants
<1>1. more \in Seq(C) /\ Len(more) = N + 1 /\ more[N + 1] = c /\ \A i \in 1..N : more[i] = line[i]
  OBVIOUS
<1>2. CASE N < LineBytes
  <2>1. Short(line) = line
    <3>1. SubSeq(line, 1, Len(line)) = line
      BY SubSeqFull
    <3>2. ~(Len(line) > LineBytes)
      BY <1>0, <1>2
    <3>3. Short(line) = SubSeq(line, 1, Len(line))
      BY <3>2 DEF Short
    <3>4. QED
      BY <3>1, <3>3
  <2> HIDE DEF more
  <2>2. Short(more) = more
    <3>1. SubSeq(more, 1, Len(more)) = more
      BY <1>1, SubSeqFull
    <3>2. ~(Len(more) > LineBytes)
      BY <1>0, <1>1, <1>2
    <3>3. Short(more) = SubSeq(more, 1, Len(more))
      BY <3>2 DEF Short
    <3>4. QED
      BY <3>1, <3>3
  <2>3. QED
    BY <2>1, <2>2, <1>0, <1>2 DEF more
<1>3. CASE N >= LineBytes
  <2> DEFINE L == LineBytes
  <2>1. Short(line) = SubSeq(line, 1, L)
    <3>1. (IF Len(line) > LineBytes THEN LineBytes ELSE Len(line)) = L
      BY <1>0, <1>3
    <3>2. QED
      BY <3>1 DEF Short
  <2> HIDE DEF more
  <2>2. Short(more) = SubSeq(more, 1, L)
    <3>1. (IF Len(more) > LineBytes THEN LineBytes ELSE Len(more)) = L
      BY <1>0, <1>1, <1>3
    <3>2. QED
      BY <3>1 DEF Short
  <2>3. /\ SubSeq(line, 1, L) \in Seq(C) /\ Len(SubSeq(line, 1, L)) = L
        /\ \A i \in 1..L : SubSeq(line, 1, L)[i] = line[i]
    BY <1>0, <1>3
  <2>4. /\ SubSeq(more, 1, L) \in Seq(C) /\ Len(SubSeq(more, 1, L)) = L
        /\ \A i \in 1..L : SubSeq(more, 1, L)[i] = more[i]
    BY <1>0, <1>1, <1>3
  <2>5. \A i \in 1..L : more[i] = line[i]
    <3>1. \A i \in 1..L : i \in 1..N
      BY <1>0, <1>3
    <3>2. QED
      BY <3>1, <1>1
  <2> HIDE DEF L
  <2>6. SubSeq(more, 1, L) = SubSeq(line, 1, L)
    <3>1. \A i \in 1..L : SubSeq(more, 1, L)[i] = SubSeq(line, 1, L)[i]
      BY <2>3, <2>4, <2>5
    <3>2. QED
      BY <3>1, <2>3, <2>4, SeqEqual
  <2>7. ~(N < LineBytes)
    BY <1>0, <1>3
  <2>8. QED
    BY <2>1, <2>2, <2>3, <2>6, <2>7 DEF more, L
<1>4. QED
  BY <1>0, <1>2, <1>3

\* Nothing is lost of an empty line.
LEMMA ShortOfNothing == Short(<<>>) = <<>> /\ (Len(<<>>) > LineBytes) = FALSE
<1>1. Len(<<>>) = 0 /\ LineBytes \in Nat
  BY DecoderAssumption DEF DecoderConstants
<1>2. SubSeq(<<>>, 1, 0) = <<>>
  BY SubSeqEmpty
<1>3. QED
  BY <1>1, <1>2 DEF Short

\* Shortening a line more.
LEMMA ShortenedRule ==
  ASSUME NEW C, NEW lines \in Seq(Seq(C)), NEW line \in Seq(C)
  PROVE  /\ Shortened(lines) \in Seq(Seq(C)) /\ Len(Shortened(lines)) = Len(lines)
         /\ Short(line) \in Seq(C)
         /\ Shortened(Append(lines, line)) = Append(Shortened(lines), Short(line))
<1> DEFINE more == Append(lines, line)
           N == Len(lines)
<1>1. \A x \in Seq(C) : Short(x) \in Seq(C)
  <2> TAKE x \in Seq(C)
  <2>0. LineBytes \in Nat /\ Len(x) \in Nat
    BY DecoderAssumption DEF DecoderConstants
  <2>1. CASE Len(x) > LineBytes
    <3>1. SubSeq(x, 1, LineBytes) \in Seq(C)
      BY <2>0, <2>1
    <3>2. QED
      BY <3>1, <2>1 DEF Short
  <2>2. CASE ~(Len(x) > LineBytes)
    <3>1. SubSeq(x, 1, Len(x)) = x
      BY SubSeqFull
    <3>2. QED
      BY <3>1, <2>2 DEF Short
  <2>3. QED
    BY <2>1, <2>2
<1>2. \A s \in Seq(Seq(C)) : /\ Shortened(s) = [n \in 1..Len(s) |-> Short(s[n])]
                             /\ Shortened(s) \in Seq(Seq(C)) /\ Len(Shortened(s)) = Len(s)
  <2> TAKE s \in Seq(Seq(C))
  <2>1. Shortened(s) = [n \in 1..Len(s) |-> Short(s[n])]
    BY DEF Shortened, Short
  <2>2. \A n \in 1..Len(s) : Short(s[n]) \in Seq(C)
    BY <1>1
  <2>3. [n \in 1..Len(s) |-> Short(s[n])] \in Seq(Seq(C)) /\ Len([n \in 1..Len(s) |-> Short(s[n])]) = Len(s)
    BY <2>2
  <2>4. QED
    BY <2>1, <2>3
<1>3. /\ more \in Seq(Seq(C)) /\ N \in Nat /\ Len(more) = N + 1
      /\ more[N + 1] = line /\ \A i \in 1..N : more[i] = lines[i]
  OBVIOUS
<1> HIDE DEF more
<1>4. \A i \in 1..(N + 1) : Shortened(more)[i] = Short(more[i])
  BY <1>2, <1>3
<1>5. \A i \in 1..N : Shortened(lines)[i] = Short(lines[i])
  BY <1>2
<1>6. Append(Shortened(lines), Short(line)) \in Seq(Seq(C)) /\ Len(Append(Shortened(lines), Short(line))) = N + 1
  BY <1>1, <1>2, <1>3
<1>7. ASSUME NEW i \in 1..(N + 1) PROVE Shortened(more)[i] = Append(Shortened(lines), Short(line))[i]
  <2>1. CASE i = N + 1
    BY <2>1, <1>1, <1>2, <1>3, <1>4
  <2>2. CASE i # N + 1
    <3>1. i \in 1..N
      BY <2>2, <1>3
    <3>2. Append(Shortened(lines), Short(line))[i] = Shortened(lines)[i]
      BY <3>1, <1>1, <1>2
    <3>3. QED
      BY <3>1, <3>2, <1>3, <1>4, <1>5
  <2>3. QED
    BY <2>1, <2>2
<1>8. Shortened(more) = Append(Shortened(lines), Short(line))
  <2>1. Shortened(more) \in Seq(Seq(C)) /\ Len(Shortened(more)) = N + 1
    BY <1>2, <1>3
  <2>2. QED
    BY <2>1, <1>6, <1>7, SeqEqual
<1>9. QED
  BY <1>1, <1>2, <1>8 DEF more

\* The lines that lose something.
TooLong(lines) == {n \in DOMAIN lines : Len(lines[n]) > LineBytes}

\* Counting a line more.
LEMMA TooLongRule ==
  ASSUME NEW C, NEW lines \in Seq(Seq(C)), NEW line \in Seq(C)
  PROVE  /\ Cardinality(TooLong(lines)) \in Nat
         /\ Cardinality(TooLong(Append(lines, line)))
              = Cardinality(TooLong(lines)) + (IF Len(line) > LineBytes THEN 1 ELSE 0)
<1> DEFINE more == Append(lines, line)
           N == Len(lines)
<1>1. /\ N \in Nat /\ DOMAIN lines = 1..N /\ DOMAIN more = 1..(N + 1)
      /\ more[N + 1] = line /\ \A i \in 1..N : more[i] = lines[i]
  OBVIOUS
<1> HIDE DEF more
<1>2. IsFiniteSet(TooLong(lines))
  <2>1. IsFiniteSet(1..N)
    BY <1>1, FS_Interval
  <2>2. TooLong(lines) \subseteq 1..N
    BY <1>1 DEF TooLong
  <2>3. QED
    BY <2>1, <2>2, FS_Subset
<1>3. N + 1 \notin TooLong(lines)
  BY <1>1 DEF TooLong
<1>4. TooLong(more) = TooLong(lines) \cup (IF Len(line) > LineBytes THEN {N + 1} ELSE {})
  <2>1. \A n \in 1..(N + 1) : n \in 1..N \/ n = N + 1
    BY <1>1
  <2>2. \A n \in 1..N : n \in 1..(N + 1)
    BY <1>1
  <2>3. N + 1 \in 1..(N + 1)
    BY <1>1
  <2> HIDE DEF N
  <2>4. QED
    BY <2>1, <2>2, <2>3, <1>1 DEF TooLong
<1>5. Cardinality(TooLong(lines)) \in Nat
  BY <1>2, FS_CardinalityType
<1>6. CASE Len(line) > LineBytes
  <2>1. TooLong(more) = TooLong(lines) \cup {N + 1}
    BY <1>4, <1>6
  <2>2. Cardinality(TooLong(lines) \cup {N + 1}) = Cardinality(TooLong(lines)) + 1
    BY <1>2, <1>3, FS_AddElement
  <2>3. QED
    BY <2>1, <2>2, <1>5, <1>6 DEF more
<1>7. CASE ~(Len(line) > LineBytes)
  <2>1. TooLong(more) = TooLong(lines)
    BY <1>4, <1>7
  <2>2. QED
    BY <2>1, <1>5, <1>7 DEF more
<1>8. QED
  BY <1>6, <1>7

\* The ring holds the newest of the lines, shortened, and counts the losses.
Ring(sc, lines) ==
  \E k : /\ MostKept(Shortened(lines), k)
         /\ sc.lines = Newest(Shortened(lines), k)
         /\ sc.dropped = Len(lines) - k
         /\ sc.truncated = Cardinality(TooLong(lines))

Holds(sc, line) == sc.line = Short(line) /\ sc.cut = (Len(line) > LineBytes)

\* finish_line keeps the newest lines that fit, as many as do, and counts what is lost.
LEMMA FinishLineIsRight ==
  ASSUME NEW sc \in Screens, NEW lines \in Seq(Seq(Chars)), NEW line \in Seq(Chars),
         Ring(sc, lines), Holds(sc, line)
  PROVE  /\ FinishLine(sc) \in Screens
         /\ Holds(FinishLine(sc), <<>>)
         /\ Ring(FinishLine(sc), Append(lines, line))
<1>1. PICK k : /\ MostKept(Shortened(lines), k)
               /\ sc.lines = Newest(Shortened(lines), k)
               /\ sc.dropped = Len(lines) - k
               /\ sc.truncated = Cardinality(TooLong(lines))
  BY DEF Ring
<1> DEFINE short == Shortened(lines)
           ring == Append(sc.lines, sc.line)
           gone == Gone(ring)
           left == k + 1 - gone
           more == Append(lines, line)
<1>2. /\ short \in Seq(Seq(Chars)) /\ Len(short) = Len(lines) /\ sc.line \in Seq(Chars)
      /\ Shortened(more) = Append(short, sc.line)
  BY ShortenedRule DEF Holds
<1>3. k \in 0..Len(lines) /\ Len(lines) \in Nat /\ k \in Nat
  BY <1>1, <1>2 DEF MostKept
<1> HIDE DEF short, more
<1>4. /\ gone \in 0..(k + 1)
      /\ MostKept(Shortened(more), left)
      /\ Without(ring, gone) = Newest(Shortened(more), left)
  <2>1. MostKept(short, k) /\ sc.lines = Newest(short, k)
    BY <1>1 DEF short
  <2>2. LET r == Append(Newest(short, k), sc.line)
            l == k + 1 - Gone(r)
        IN /\ Gone(r) \in 0..(k + 1)
           /\ MostKept(Append(short, sc.line), l)
           /\ Without(r, Gone(r)) = Newest(Append(short, sc.line), l)
    BY <1>2, <2>1, KeptAfter
  <2>3. QED
    BY <2>1, <2>2, <1>2
<1>5. more \in Seq(Seq(Chars)) /\ Len(more) = Len(lines) + 1
  BY DEF more
<1>6. Shortened(more) \in Seq(Seq(Chars)) /\ Len(Shortened(more)) = Len(more)
  <2>1. Append(short, sc.line) \in Seq(Seq(Chars)) /\ Len(Append(short, sc.line)) = Len(short) + 1
    BY <1>2
  <2>2. QED
    BY <2>1, <1>2, <1>5
<1>7. Newest(Shortened(more), left) \in Seq(Seq(Chars))
  <2>1. left \in 0..Len(Shortened(more))
    BY <1>4 DEF MostKept
  <2> HIDE DEF left
  <2>2. QED
    BY <1>6, <2>1, NewestRule
<1>8. Cardinality(TooLong(more)) = sc.truncated + (IF sc.cut THEN 1 ELSE 0)
  BY <1>1, TooLongRule DEF Holds, more
<1>9. /\ FinishLine(sc).lines = Without(ring, gone)
      /\ FinishLine(sc).dropped = sc.dropped + gone
      /\ FinishLine(sc).truncated = sc.truncated + (IF sc.cut THEN 1 ELSE 0)
      /\ FinishLine(sc).line = <<>>
      /\ FinishLine(sc).cut = FALSE
      /\ FinishLine(sc) \in Screens
  <2> DEFINE count == sc.truncated + (IF sc.cut THEN 1 ELSE 0)
             mid == [line |-> <<>>, cut |-> FALSE, lines |-> ring,
                     dropped |-> sc.dropped, truncated |-> count]
             lost == sc.dropped + gone
             rest == Without(ring, gone)
  <2>1. FinishLine(sc) = Evict(mid)
    BY DEF FinishLine
  <2>2. mid.lines = ring /\ mid.dropped = sc.dropped
    OBVIOUS
  <2>3. sc.dropped \in Nat /\ sc.truncated \in Nat /\ sc.lines \in Seq(Seq(Chars))
    BY DEF Screens
  <2>4. lost \in Nat /\ count \in Nat /\ ring \in Seq(Seq(Chars)) /\ rest \in Seq(Seq(Chars))
    BY <2>3, <1>2, <1>3, <1>4, <1>7, SMTT(30)
  <2>5. mid \in Screens
    BY <2>3, <2>4 DEF Screens
  <2> HIDE DEF ring, count, mid
  <2>6. Evict(mid) = [mid EXCEPT !.lines = rest, !.dropped = lost]
    <3>1. Evict(mid) = [mid EXCEPT !.lines = Without(@, Gone(mid.lines)), !.dropped = @ + Gone(mid.lines)]
      BY DEF Evict, Gone
    <3>2. Gone(mid.lines) = gone
      BY <2>2
    <3> HIDE DEF gone
    <3>3. QED
      BY <3>1, <3>2, <2>2
  <2>7. mid.line = <<>> /\ mid.cut = FALSE /\ mid.truncated = count
    BY DEF mid
  <2> HIDE DEF gone, rest, lost
  <2>8. [mid EXCEPT !.lines = rest, !.dropped = lost] \in Screens
    BY <2>4, <2>5 DEF Screens
  <2>9. /\ [mid EXCEPT !.lines = rest, !.dropped = lost].line = <<>>
        /\ [mid EXCEPT !.lines = rest, !.dropped = lost].cut = FALSE
        /\ [mid EXCEPT !.lines = rest, !.dropped = lost].lines = rest
        /\ [mid EXCEPT !.lines = rest, !.dropped = lost].dropped = lost
        /\ [mid EXCEPT !.lines = rest, !.dropped = lost].truncated = count
    BY <2>5, <2>7 DEF Screens
  <2>10. QED
    BY <2>1, <2>6, <2>8, <2>9 DEF count, rest, lost
<1> HIDE DEF ring, gone
<1>11. Holds(FinishLine(sc), <<>>)
  BY <1>9, ShortOfNothing DEF Holds
<1>12. Ring(FinishLine(sc), more)
  <2>1. sc.dropped + gone = Len(more) - left
    BY <1>1, <1>3, <1>4, <1>5
  <2>2. QED
    BY <2>1, <1>4, <1>8, <1>9 DEF Ring
<1>13. QED
  BY <1>9, <1>11, <1>12 DEF more

-------------------------------------------------------------------------------
(* The lines of a text *)

Splits(C) == [lines : Seq(Seq(C)), rest : Seq(C)]

\* One more byte of a text, for its lines.
Joined(split, c) ==
  IF c = Newline
  THEN [lines |-> Append(split.lines, split.rest), rest |-> <<>>]
  ELSE [split EXCEPT !.rest = Append(@, c)]

\* A split text stays one.
LEMMA JoinedType ==
  ASSUME NEW C, NEW split \in Splits(C), NEW c \in C
  PROVE  Joined(split, c) \in Splits(C)
<1>1. split.lines \in Seq(Seq(C)) /\ split.rest \in Seq(C)
  BY DEF Splits
<1>2. Append(split.lines, split.rest) \in Seq(Seq(C)) /\ Append(split.rest, c) \in Seq(C) /\ <<>> \in Seq(C)
  BY <1>1
<1>3. [split EXCEPT !.rest = Append(@, c)] \in Splits(C)
  BY <1>2 DEF Splits
<1>4. QED
  BY <1>2, <1>3 DEF Joined, Splits

\* A text is split byte by byte.
LEMMA SplitRule ==
  ASSUME NEW C, NEW text \in Seq(C)
  PROVE  \E u \in [0..Len(text) -> Splits(C)] :
           /\ SplitText(text) = u[Len(text)]
           /\ u[0] = [lines |-> <<>>, rest |-> <<>>]
           /\ \A n \in 1..Len(text) : u[n] = Joined(u[n - 1], text[n])
<1> DEFINE N == Len(text)
           first == [lines |-> <<>>, rest |-> <<>>]
           G == [p \in (1..N) \X Splits(C) |-> Joined(p[2], text[p[1]])]
           w == CHOOSE u : u =
                  [n \in 0..N |->
                    IF n = 0 THEN [lines |-> <<>>, rest |-> <<>>]
                    ELSE IF text[n] = Newline
                    THEN [lines |-> Append(u[n - 1].lines, u[n - 1].rest), rest |-> <<>>]
                    ELSE [u[n - 1] EXCEPT !.rest = Append(@, text[n])]]
<1>0. N \in Nat /\ (\A n \in 1..N : text[n] \in C) /\ first \in Splits(C)
  BY DEF Splits
<1>1. \A n \in 1..N : \A v \in Splits(C) : G[<<n, v>>] = Joined(v, text[n])
  OBVIOUS
<1>2. \A n \in 1..N : \A v \in Splits(C) : Joined(v, text[n]) \in Splits(C)
  BY <1>0, JoinedType
<1> HIDE DEF G
<1>3. PICK u : u \in RoundsOf(N, Splits(C), first, G)
  <2> HIDE DEF N, first
  <2>1. ClosedUnder(N, Splits(C), G)
    BY <1>1, <1>2 DEF ClosedUnder
  <2>2. QED
    BY <1>0, <2>1, Rounds
<1>3a. u \in [0..N -> Splits(C)] /\ u[0] = first /\ \A n \in 1..N : u[n] = G[<<n, u[n - 1]>>]
  BY <1>3 DEF RoundsOf
<1>4. \A n \in 1..N : u[n] = Joined(u[n - 1], text[n])
  <2>1. \A n \in 1..N : n - 1 \in 0..N
    BY <1>0
  <2> HIDE DEF N, first
  <2>2. \A n \in 1..N : u[n - 1] \in Splits(C)
    BY <1>3a, <2>1
  <2>3. QED
    BY <2>2, <1>1, <1>3a
<1>5. u = [n \in 0..N |-> IF n = 0 THEN first ELSE Joined(u[n - 1], text[n])]
  <2>1. \A n \in 0..N : n # 0 => n \in 1..N
    BY <1>0
  <2> HIDE DEF N, first
  <2>2. \A n \in 0..N : u[n] = IF n = 0 THEN first ELSE Joined(u[n - 1], text[n])
    BY <1>3a, <1>4, <2>1, SMTT(30)
  <2>3. QED
    BY <2>2, <1>3a
<1>6. w = [n \in 0..N |-> IF n = 0 THEN first ELSE Joined(w[n - 1], text[n])]
  <2>1. \E x : x = [n \in 0..N |-> IF n = 0 THEN first ELSE Joined(x[n - 1], text[n])]
    BY <1>5
  <2>2. QED
    BY <2>1 DEF Joined
<1>7. SplitText(text) = w[N]
  BY DEF SplitText
<1> HIDE DEF w
<1>8. w[0] = first /\ \A n \in 1..N : w[n] = Joined(w[n - 1], text[n])
  <2>1. 0 \in 0..N /\ \A n \in 1..N : n \in 0..N /\ n # 0
    BY <1>0
  <2> HIDE DEF N, first
  <2>2. QED
    BY <1>6, <2>1
<1>9. u[N] = w[N]
  <2> HIDE DEF N, first
  <2>1. u[0] = w[0]
    BY <1>3a, <1>8
  <2>2. Agree(u, w, N)
    BY <1>4, <1>8 DEF Agree
  <2>3. QED
    BY <2>1, <2>2, <1>0, OneRounds
<1>10. QED
  BY <1>3a, <1>4, <1>7, <1>9

\* Splitting one byte more.
LEMMA SplitAppend ==
  ASSUME NEW C, NEW text \in Seq(C), NEW c \in C
  PROVE  /\ SplitText(text) \in Splits(C)
         /\ SplitText(Append(text, c)) = Joined(SplitText(text), c)
<1> DEFINE N == Len(text)
           more == Append(text, c)
<1>1. /\ more \in Seq(C) /\ N \in Nat /\ Len(more) = N + 1
      /\ more[N + 1] = c /\ \A i \in 1..N : more[i] = text[i]
  OBVIOUS
<1>2. PICK u \in [0..Len(text) -> Splits(C)] :
        /\ SplitText(text) = u[Len(text)]
        /\ u[0] = [lines |-> <<>>, rest |-> <<>>]
        /\ \A n \in 1..Len(text) : u[n] = Joined(u[n - 1], text[n])
  BY SplitRule
<1> HIDE DEF more
<1>3. PICK v \in [0..Len(more) -> Splits(C)] :
        /\ SplitText(more) = v[Len(more)]
        /\ v[0] = [lines |-> <<>>, rest |-> <<>>]
        /\ \A n \in 1..Len(more) : v[n] = Joined(v[n - 1], more[n])
  BY <1>1, SplitRule
<1>4. \A n \in 1..N : n \in 1..Len(more)
  BY <1>1
<1>5. u[N] = v[N]
  <2> HIDE DEF N
  <2>1. u[0] = v[0]
    BY <1>2, <1>3
  <2>2. Agree(u, v, N)
    <3>1. \A n \in 1..N : u[n] = Joined(u[n - 1], text[n])
      BY <1>2 DEF N
    <3>2. \A n \in 1..N : v[n] = Joined(v[n - 1], text[n])
      BY <1>1, <1>3, <1>4
    <3>3. QED
      BY <3>1, <3>2 DEF Agree
  <2>3. QED
    BY <2>1, <2>2, <1>1, OneRounds
<1>6. v[N + 1] = Joined(v[N], c)
  <2>1. N + 1 \in 1..Len(more) /\ (N + 1) - 1 = N
    BY <1>1
  <2>2. v[N + 1] = Joined(v[(N + 1) - 1], more[N + 1])
    BY <2>1, <1>3
  <2>3. QED
    BY <2>1, <2>2, <1>1
<1>7. u[N] \in Splits(C)
  <2>1. N \in 0..Len(text)
    BY <1>1
  <2>2. QED
    BY <2>1
<1>8. SplitText(text) = u[N] /\ SplitText(more) = v[N + 1]
  BY <1>1, <1>2, <1>3
<1>9. QED
  BY <1>5, <1>6, <1>7, <1>8 DEF more

\* Splitting no text.
LEMMA SplitEmpty == SplitText(<<>>) = [lines |-> <<>>, rest |-> <<>>]
<1>1. <<>> \in Seq({}) /\ Len(<<>>) = 0
  OBVIOUS
<1>2. PICK u \in [0..Len(<<>>) -> Splits({})] :
        SplitText(<<>>) = u[Len(<<>>)] /\ u[0] = [lines |-> <<>>, rest |-> <<>>]
  BY <1>1, SplitRule
<1>3. u[Len(<<>>)] = u[0]
  BY <1>1
<1>4. QED
  BY <1>2, <1>3

-------------------------------------------------------------------------------
(* What the screen shows *)

\* The screen is what the masked text out, written so far, comes to.
Shown(sc, out) == Holds(sc, SplitText(out).rest) /\ Ring(sc, SplitText(out).lines)

\* An empty screen shows an empty text.
LEMMA EmptyIsShown == EmptyScreen \in Screens /\ Shown(EmptyScreen, <<>>)
<1>1. EmptyScreen \in Screens
  BY DEF EmptyScreen, Screens
<1>2. Holds(EmptyScreen, <<>>)
  BY ShortOfNothing DEF Holds, EmptyScreen
<1>3. Shortened(<<>>) = <<>>
  BY DEF Shortened
<1>4. Newest(<<>>, 0) = <<>>
  BY SubSeqEmpty DEF Newest
<1>5. Len(<<>>) = 0
  OBVIOUS
<1>6. MostKept(<<>>, 0)
  <2>1. Fits(<<>>)
    BY <1>5, WeightEmpty, DecoderAssumption DEF Fits, DecoderConstants
  <2>2. QED
    BY <2>1, <1>4, <1>5 DEF MostKept
<1>7. Cardinality(TooLong(<<>>)) = 0
  <2>1. TooLong(<<>>) = {}
    BY DEF TooLong
  <2>2. QED
    BY <2>1, FS_EmptySet
<1>8. Ring(EmptyScreen, <<>>)
  <2>1. MostKept(Shortened(<<>>), 0) /\ EmptyScreen.lines = Newest(Shortened(<<>>), 0)
    BY <1>3, <1>4, <1>6 DEF EmptyScreen
  <2>2. EmptyScreen.dropped = Len(<<>>) - 0 /\ EmptyScreen.truncated = Cardinality(TooLong(<<>>))
    BY <1>5, <1>7 DEF EmptyScreen
  <2>3. QED
    BY <2>1, <2>2 DEF Ring
<1>9. QED
  BY <1>1, <1>2, <1>8, SplitEmpty DEF Shown

\* output shows one byte more.
LEMMA OutputIsRight ==
  ASSUME NEW sc \in Screens, NEW out \in Seq(Chars), Shown(sc, out), NEW c \in Chars
  PROVE  Output(sc, c) \in Screens /\ Shown(Output(sc, c), Append(out, c))
<1> DEFINE split == SplitText(out)
           after == SplitText(Append(out, c))
<1>1. split \in Splits(Chars) /\ after = Joined(split, c)
  BY SplitAppend
<1> HIDE DEF split, after
<1>2. split.lines \in Seq(Seq(Chars)) /\ split.rest \in Seq(Chars)
  BY <1>1 DEF Splits
<1>3. Holds(sc, split.rest) /\ Ring(sc, split.lines)
  BY DEF Shown, split
<1>4. CASE c = Newline
  <2>1. after.lines = Append(split.lines, split.rest) /\ after.rest = <<>>
    BY <1>1, <1>4 DEF Joined
  <2>2. Output(sc, c) = FinishLine(sc)
    BY <1>4 DEF Output
  <2>3. /\ FinishLine(sc) \in Screens
        /\ Holds(FinishLine(sc), <<>>)
        /\ Ring(FinishLine(sc), Append(split.lines, split.rest))
    BY <1>2, <1>3, FinishLineIsRight
  <2>4. QED
    BY <2>1, <2>2, <2>3 DEF Shown, after
<1>5. CASE c # Newline
  <2> DEFINE rest == split.rest
  <2>1. after.lines = split.lines /\ after.rest = Append(rest, c)
    BY <1>1, <1>5 DEF Joined, Splits
  <2>2. LineBytes \in Nat /\ Len(rest) \in Nat /\ Len(Append(rest, c)) = Len(rest) + 1
    BY <1>2, DecoderAssumption DEF DecoderConstants
  <2>3. sc.line = Short(rest) /\ sc.cut = (Len(rest) > LineBytes)
    BY <1>3 DEF Holds
  <2> HIDE DEF rest
  <2>4. /\ Len(rest) < LineBytes => Short(Append(rest, c)) = Append(Short(rest), c)
        /\ Len(rest) < LineBytes => Len(Short(rest)) < LineBytes
        /\ Len(rest) >= LineBytes => Short(Append(rest, c)) = Short(rest)
        /\ Len(rest) >= LineBytes => Len(Short(rest)) = LineBytes
    BY <1>2, ShortRule DEF rest
  <2>5. sc.line \in Seq(Chars)
    BY DEF Screens
  <2>6. CASE Len(rest) < LineBytes
    <3>1. Output(sc, c) = [sc EXCEPT !.line = Append(@, c)]
      BY <2>3, <2>4, <2>6, <1>5 DEF Output
    <3>2. [sc EXCEPT !.line = Append(@, c)] \in Screens
      <4>1. Append(sc.line, c) \in Seq(Chars)
        BY <2>5
      <4>2. QED
        BY <4>1 DEF Screens
    <3>3. /\ Output(sc, c).line = Append(sc.line, c)
          /\ Output(sc, c).cut = sc.cut
          /\ Output(sc, c).lines = sc.lines
          /\ Output(sc, c).dropped = sc.dropped
          /\ Output(sc, c).truncated = sc.truncated
      BY <3>1 DEF Screens
    <3>4. (Len(rest) > LineBytes) = FALSE /\ (Len(Append(rest, c)) > LineBytes) = FALSE
      BY <2>2, <2>6
    <3>5. Holds(Output(sc, c), Append(rest, c))
      BY <3>3, <3>4, <2>3, <2>4, <2>6 DEF Holds
    <3>6. Ring(Output(sc, c), split.lines)
      BY <1>3, <3>3 DEF Ring
    <3>7. QED
      BY <3>1, <3>2, <3>5, <3>6, <2>1 DEF Shown, after
  <2>7. CASE ~(Len(rest) < LineBytes)
    <3>0. Len(rest) >= LineBytes
      BY <2>2, <2>7
    <3>1. ~(Len(sc.line) < LineBytes)
      BY <3>0, <2>2, <2>3, <2>4
    <3>2. Output(sc, c) = [sc EXCEPT !.cut = TRUE]
      BY <3>1, <1>5 DEF Output
    <3>3. [sc EXCEPT !.cut = TRUE] \in Screens
      BY DEF Screens
    <3>4. /\ Output(sc, c).line = sc.line
          /\ Output(sc, c).cut = TRUE
          /\ Output(sc, c).lines = sc.lines
          /\ Output(sc, c).dropped = sc.dropped
          /\ Output(sc, c).truncated = sc.truncated
      BY <3>2 DEF Screens
    <3>5. (Len(Append(rest, c)) > LineBytes) = TRUE
      BY <3>0, <2>2
    <3>6. Holds(Output(sc, c), Append(rest, c))
      BY <3>0, <3>4, <3>5, <2>3, <2>4 DEF Holds
    <3>7. Ring(Output(sc, c), split.lines)
      BY <1>3, <3>4 DEF Ring
    <3>8. QED
      BY <3>2, <3>3, <3>6, <3>7, <2>1 DEF Shown, after
  <2>8. QED
    BY <2>6, <2>7
<1>6. QED
  BY <1>4, <1>5

\* The screens that show something.
Visible == {sc \in Screens : \E out \in Seq(Chars) : Shown(sc, out)}

\* What is written is shown after what is shown already.
LEMMA WriteIsRight ==
  ASSUME NEW sc \in Screens, NEW out \in Seq(Chars), Shown(sc, out), NEW text \in Seq(Chars)
  PROVE  Write(sc, text) \in Screens /\ Shown(Write(sc, text), out \o text)
<1> DEFINE N == Len(text)
           G == [p \in (1..N) \X Visible |-> Output(p[2], text[p[1]])]
           w == CHOOSE u : u = [n \in 0..N |-> IF n = 0 THEN sc ELSE Output(u[n - 1], text[n])]
<1>0. N \in Nat /\ (\A n \in 1..N : text[n] \in Chars) /\ sc \in Visible
  BY DEF Visible
<1>1. \A n \in 1..N : \A v \in Visible : G[<<n, v>>] = Output(v, text[n])
  OBVIOUS
<1>2. \A n \in 1..N : \A v \in Visible : Output(v, text[n]) \in Visible
  <2> SUFFICES ASSUME NEW n \in 1..N, NEW v \in Visible PROVE Output(v, text[n]) \in Visible
    OBVIOUS
  <2>1. PICK o \in Seq(Chars) : Shown(v, o)
    BY DEF Visible
  <2>2. v \in Screens /\ text[n] \in Chars
    BY <1>0 DEF Visible
  <2>3. Output(v, text[n]) \in Screens /\ Shown(Output(v, text[n]), Append(o, text[n]))
    BY <2>1, <2>2, OutputIsRight
  <2>4. Append(o, text[n]) \in Seq(Chars)
    BY <2>2
  <2>5. QED
    BY <2>3, <2>4 DEF Visible
<1> HIDE DEF G
<1>3. PICK u : u \in RoundsOf(N, Visible, sc, G)
  <2> HIDE DEF N
  <2>1. ClosedUnder(N, Visible, G)
    BY <1>1, <1>2 DEF ClosedUnder
  <2>2. QED
    BY <1>0, <2>1, Rounds
<1>3a. u \in [0..N -> Visible] /\ u[0] = sc /\ \A n \in 1..N : u[n] = G[<<n, u[n - 1]>>]
  BY <1>3 DEF RoundsOf
<1>4. \A n \in 1..N : u[n] = Output(u[n - 1], text[n])
  <2>1. \A n \in 1..N : n - 1 \in 0..N
    BY <1>0
  <2> HIDE DEF N
  <2>2. \A n \in 1..N : u[n - 1] \in Visible
    BY <1>3a, <2>1
  <2>3. QED
    BY <2>2, <1>1, <1>3a
<1>5. u = [n \in 0..N |-> IF n = 0 THEN sc ELSE Output(u[n - 1], text[n])]
  <2>1. \A n \in 0..N : n # 0 => n \in 1..N
    BY <1>0
  <2> HIDE DEF N
  <2>2. \A n \in 0..N : u[n] = IF n = 0 THEN sc ELSE Output(u[n - 1], text[n])
    BY <1>3a, <1>4, <2>1
  <2>3. QED
    BY <2>2, <1>3a
<1>6. w = [n \in 0..N |-> IF n = 0 THEN sc ELSE Output(w[n - 1], text[n])]
  BY <1>5
<1>7. Write(sc, text) = w[N]
  BY DEF Write
<1> HIDE DEF w
<1>8. w[0] = sc /\ \A n \in 1..N : w[n] = Output(w[n - 1], text[n])
  <2>1. 0 \in 0..N /\ \A n \in 1..N : n \in 0..N /\ n # 0
    BY <1>0
  <2> HIDE DEF N
  <2>2. QED
    BY <1>6, <2>1
<1> DEFINE P == {n \in Nat : n <= N => w[n] \in Screens /\ Shown(w[n], out \o SubSeq(text, 1, n))}
<1>9. 0 \in P
  <2>1. out \o SubSeq(text, 1, 0) = out
    BY SubSeqEmpty, ConcatEmptySeq
  <2>2. QED
    BY <2>1, <1>8
<1>10. ASSUME NEW n \in P PROVE n + 1 \in P
  <2> SUFFICES ASSUME n + 1 <= N PROVE w[n + 1] \in Screens /\ Shown(w[n + 1], out \o SubSeq(text, 1, n + 1))
    OBVIOUS
  <2>1. n \in Nat /\ n + 1 \in 1..N /\ (n + 1) - 1 = n /\ n <= N
    BY <1>0
  <2>2. w[n] \in Screens /\ Shown(w[n], out \o SubSeq(text, 1, n))
    BY <2>1
  <2>3. w[n + 1] = Output(w[n], text[n + 1])
    BY <2>1, <1>8
  <2> DEFINE head == out \o SubSeq(text, 1, n)
  <2>4. head \in Seq(Chars) /\ out \o SubSeq(text, 1, n + 1) = Append(head, text[n + 1])
    <3>1. /\ SubSeq(text, 1, n) \in Seq(Chars) /\ text[n + 1] \in Chars
          /\ SubSeq(text, 1, n + 1) = Append(SubSeq(text, 1, n), text[n + 1])
      BY <2>1
    <3>2. \A s \in Seq(Chars) : \A c \in Chars : out \o Append(s, c) = Append(out \o s, c) /\ out \o s \in Seq(Chars)
      OBVIOUS
    <3>3. QED
      BY <3>1, <3>2
  <2>5. text[n + 1] \in Chars
    BY <2>1, <1>0
  <2> HIDE DEF head, P
  <2>6. Output(w[n], text[n + 1]) \in Screens /\ Shown(Output(w[n], text[n + 1]), Append(head, text[n + 1]))
    BY <2>2, <2>4, <2>5, OutputIsRight DEF head
  <2>7. QED
    BY <2>3, <2>4, <2>6
<1>11. P \in SUBSET Nat
  OBVIOUS
<1> HIDE DEF P
<1>12. N \in P
  BY <1>9, <1>10, <1>11, <1>0, Induction
<1>13. SubSeq(text, 1, N) = text
  BY SubSeqFull
<1>14. w[N] \in Screens /\ Shown(w[N], out \o SubSeq(text, 1, N))
  BY <1>12, <1>0 DEF P
<1>15. QED
  BY <1>7, <1>13, <1>14

-------------------------------------------------------------------------------
(* The cursor of one secret *)

\* r is the longest beginning of a secret, of at most b bytes, that a text ends with.
LongestEnd(text, secret, b, r) ==
  /\ r \in 0..b
  /\ EndsWith(text, secret, r)
  /\ \A k \in 0..b : EndsWith(text, secret, k) => k <= r

\* The table of a secret is right up to n.
RightTable(secret, table, n) ==
  \A k \in 1..n : LongestEnd(SubSeq(secret, 1, k), secret, k - 1, table[k])

\* A table leads downwards.
LowerTable(table, n) == \A k \in 1..n : table[k] \in 0..(k - 1)

\* Every text ends with nothing.
LEMMA EndsWithNothing ==
  ASSUME NEW B, NEW text \in Seq(B), NEW secret
  PROVE  EndsWith(text, secret, 0)
BY DEF EndsWith

Grows(text, secret, byte, k) ==
  EndsWith(Append(text, byte), secret, k + 1)
    <=> EndsWith(text, secret, k) /\ secret[k + 1] = byte

\* What a text ends with after one more byte.
LEMMA EndsWithOneMore ==
  ASSUME NEW B, NEW text \in Seq(B), NEW secret \in Seq(B), NEW byte \in B, NEW k \in Nat
  PROVE  Grows(text, secret, byte, k)
<1> DEFINE more == Append(text, byte)
<1>1. /\ Len(text) \in Nat /\ Len(more) = Len(text) + 1
      /\ more[Len(text) + 1] = byte
      /\ \A j \in 1..Len(text) : more[j] = text[j]
  OBVIOUS
<1> HIDE DEF more
<1>2. ASSUME EndsWith(more, secret, k + 1)
      PROVE  EndsWith(text, secret, k) /\ secret[k + 1] = byte
  <2>1. k <= Len(text) /\ \A j \in 1..(k + 1) : more[Len(more) - (k + 1) + j] = secret[j]
    BY <1>1, <1>2 DEF EndsWith
  <2>2. more[Len(more) - (k + 1) + (k + 1)] = secret[k + 1]
    BY <2>1
  <2>3. secret[k + 1] = byte
    BY <2>2, <1>1
  <2>4. ASSUME NEW j \in 1..k PROVE text[Len(text) - k + j] = secret[j]
    <3>1. Len(more) - (k + 1) + j = Len(text) - k + j /\ Len(text) - k + j \in 1..Len(text)
      BY <1>1, <2>1
    <3>2. more[Len(text) - k + j] = secret[j]
      BY <3>1, <2>1
    <3>3. QED
      BY <3>1, <3>2, <1>1
  <2>5. QED
    BY <2>1, <2>3, <2>4 DEF EndsWith
<1>3. ASSUME EndsWith(text, secret, k), secret[k + 1] = byte
      PROVE  EndsWith(more, secret, k + 1)
  <2>1. k <= Len(text) /\ \A j \in 1..k : text[Len(text) - k + j] = secret[j]
    BY <1>3 DEF EndsWith
  <2>2. ASSUME NEW j \in 1..(k + 1) PROVE more[Len(more) - (k + 1) + j] = secret[j]
    <3>1. Len(more) - (k + 1) + j = Len(text) - k + j /\ Len(text) - k + j \in 1..(Len(text) + 1)
      BY <1>1, <2>1
    <3>2. CASE j = k + 1
      BY <3>1, <3>2, <1>1, <1>3
    <3>3. CASE j # k + 1
      <4>1. j \in 1..k /\ Len(text) - k + j \in 1..Len(text)
        BY <3>3, <1>1, <2>1
      <4>2. QED
        BY <4>1, <3>1, <2>1, <1>1
    <3>4. QED
      BY <3>2, <3>3
  <2>3. QED
    BY <2>1, <2>2, <1>1 DEF EndsWith
<1>4. QED
  BY <1>2, <1>3 DEF more, Grows

\* What is shorter than an end of the text is an end of that end.
LEMMA EndsWithShorter ==
  ASSUME NEW B, NEW text \in Seq(B), NEW secret \in Seq(B),
         NEW k \in 0..Len(secret), EndsWith(text, secret, k), NEW j \in 0..k
  PROVE  EndsWith(text, secret, j) <=> EndsWith(SubSeq(secret, 1, k), secret, j)
<1> DEFINE head == SubSeq(secret, 1, k)
<1>1. Len(head) = k /\ \A i \in 1..k : head[i] = secret[i]
  OBVIOUS
<1>2. k <= Len(text) /\ \A i \in 1..k : text[Len(text) - k + i] = secret[i]
  BY DEF EndsWith
<1> HIDE DEF head
<1>3. j <= Len(text) /\ j <= Len(head)
  BY <1>1, <1>2
<1>4. ASSUME NEW i \in 1..j PROVE text[Len(text) - j + i] = head[Len(head) - j + i]
  <2>1. k - j + i \in 1..k /\ Len(text) - k + (k - j + i) = Len(text) - j + i
    BY <1>2
  <2>2. text[Len(text) - k + (k - j + i)] = secret[k - j + i]
    BY <2>1, <1>2
  <2>3. head[k - j + i] = secret[k - j + i]
    BY <2>1, <1>1
  <2>4. QED
    BY <2>1, <2>2, <2>3, <1>1
<1>5. QED
  BY <1>3, <1>4 DEF EndsWith, head

-------------------------------------------------------------------------------
(* The loop over the table *)

\* What the loop comes to from each place.
Loops(secret, table, n, byte) ==
  {u \in [0..n -> Nat] : \A k \in 0..n :
     /\ u[k] \in 0..(k + 1)
     /\ u[k] = IF secret[k + 1] = byte THEN k + 1
               ELSE IF k = 0 THEN 0 ELSE u[table[k]]}

\* The loop over the table, place by place.
LEMMA ShrinkRule ==
  ASSUME NEW B, NEW secret \in Seq(B), NEW n \in 0..(Len(secret) - 1),
         NEW table, LowerTable(table, n), NEW byte
  PROVE  \E u : u \in Loops(secret, table, n, byte) /\ Shrink(secret, table, n, byte) = u[n]
<1> DEFINE S == 0..n
           V == 0..(n + 1)
           T == [k \in S |-> 0..(k + 1)]
           r == [k \in S |-> k]
           M == Maps(S, V, T)
           G == [p \in S \X M |-> IF secret[p[1] + 1] = byte THEN p[1] + 1
                                  ELSE IF p[1] = 0 THEN 0 ELSE p[2][table[p[1]]]]
           w == CHOOSE u : u = [k \in S |-> IF secret[k + 1] = byte THEN k + 1
                                            ELSE IF k = 0 THEN 0 ELSE u[table[k]]]
<1>0. n \in Nat /\ \A k \in S : k \in Nat /\ k < n + 1
  OBVIOUS
<1>1. /\ T \in [S -> SUBSET V] /\ r \in [S -> Nat]
      /\ \A k \in S : r[k] = k /\ T[k] = 0..(k + 1)
  OBVIOUS
<1>2. \A f \in M : f \in [S -> V] /\ \A k \in S : f[k] \in 0..(k + 1)
  BY DEF Maps
<1>3. [k \in S |-> 0] \in M
  BY DEF Maps
<1> HIDE DEF M
<1>4. \A k \in S : k # 0 => table[k] \in S /\ table[k] < k
  BY DEF LowerTable
<1>5. ASSUME NEW k \in S, NEW f \in M
      PROVE  G[<<k, f>>] = IF secret[k + 1] = byte THEN k + 1
                           ELSE IF k = 0 THEN 0 ELSE f[table[k]]
  OBVIOUS
<1> HIDE DEF G, T, r, S, V
<1>6. ASSUME NEW k \in S, NEW f \in M PROVE G[<<k, f>>] \in T[k]
  <2>1. k # 0 => f[table[k]] \in 0..(table[k] + 1) /\ table[k] \in Nat
    BY <1>2, <1>4, <1>0
  <2>2. k # 0 => f[table[k]] \in 0..(k + 1)
    BY <2>1, <1>4, <1>0
  <2>3. QED
    BY <2>2, <1>5, <1>1, <1>0
<1>7. ASSUME NEW k \in S, NEW f \in M, NEW g \in M,
             \A j \in S : r[j] < r[k] => f[j] = g[j]
      PROVE  G[<<k, f>>] = G[<<k, g>>]
  <2>1. k # 0 => f[table[k]] = g[table[k]]
    BY <1>4, <1>1, <1>7
  <2>2. QED
    BY <2>1, <1>5
<1>8. PICK f \in M : \A k \in S : f[k] = G[<<k, f>>]
  <2>1. n + 1 \in Nat /\ \A k \in S : r[k] < n + 1
    BY <1>0, <1>1
  <2>2. Typed(S, V, T, G) /\ Descends(S, V, T, r, G) /\ Ranked(S, r, n + 1)
    BY <1>1, <1>6, <1>7, <2>1 DEF Typed, Descends, Ranked, M
  <2>3. \E f : f \in Fixed(S, V, T, G)
    BY <1>1, <1>3, <2>1, <2>2, Recursion DEF M
  <2>4. QED
    BY <2>3 DEF Fixed, M
<1>9. f = [k \in S |-> IF secret[k + 1] = byte THEN k + 1
                       ELSE IF k = 0 THEN 0 ELSE f[table[k]]]
  <2>1. \A k \in S : f[k] = IF secret[k + 1] = byte THEN k + 1
                            ELSE IF k = 0 THEN 0 ELSE f[table[k]]
    BY <1>5, <1>8
  <2>2. QED
    BY <2>1, <1>2
<1>10. w = [k \in S |-> IF secret[k + 1] = byte THEN k + 1
                       ELSE IF k = 0 THEN 0 ELSE w[table[k]]]
  BY <1>9
<1>11. Shrink(secret, table, n, byte) = w[n]
  BY DEF Shrink, S
<1> HIDE DEF w
<1>12. \A k \in S : w[k] = IF secret[k + 1] = byte THEN k + 1
                       ELSE IF k = 0 THEN 0 ELSE w[table[k]]
  BY <1>10
<1>13. \A m \in Nat : \A k \in S : k <= m => w[k] \in 0..(k + 1)
  <2> DEFINE P == {m \in Nat : \A k \in S : k <= m => w[k] \in 0..(k + 1)}
  <2>1. 0 \in P
    BY <1>12, <1>0
  <2>2. ASSUME NEW m \in P PROVE m + 1 \in P
    <3> SUFFICES ASSUME NEW k \in S, k = m + 1 PROVE w[k] \in 0..(k + 1)
      BY <1>0
    <3>0. m \in Nat /\ k \in Nat /\ k # 0
      OBVIOUS
    <3>1. table[k] \in S /\ table[k] <= m /\ table[k] \in Nat /\ k \in Nat /\ k # 0
      <4>1. table[k] \in S /\ table[k] < k
        BY <3>0, <1>4
      <4>2. table[k] \in Nat
        BY <4>1, <1>0
      <4>3. QED
        BY <3>0, <4>1, <4>2
    <3>2. w[table[k]] \in 0..(table[k] + 1)
      BY <3>1
    <3>3. w[table[k]] \in 0..(k + 1)
      BY <3>1, <3>2
    <3>4. w[k] = IF secret[k + 1] = byte THEN k + 1 ELSE w[table[k]]
      BY <3>1, <1>12
    <3>5. CASE secret[k + 1] = byte
      BY <3>4, <3>5, <3>1
    <3>6. CASE secret[k + 1] # byte
      BY <3>3, <3>4, <3>6
    <3>7. QED
      BY <3>5, <3>6
  <2>3. P \in SUBSET Nat
    OBVIOUS
  <2> HIDE DEF P
  <2>4. \A m \in Nat : m \in P
    BY <2>1, <2>2, <2>3, Induction
  <2>5. QED
    BY <2>4 DEF P
<1>14. \A k \in S : w[k] \in 0..(k + 1)
  BY <1>13, <1>0
<1>15. w \in [S -> Nat]
  <2>1. \A k \in S : w[k] \in Nat
    BY <1>14
  <2>2. QED
    BY <2>1, <1>10
<1>16. QED
  BY <1>11, <1>12, <1>14, <1>15 DEF S, Loops

\* Of the beginnings of a secret, up to b bytes, that the text ends with, only
\* those of up to k bytes may grow with the next byte.
Reached(text, secret, b, byte, k) ==
  /\ EndsWith(text, secret, k)
  /\ \A j \in 0..b : EndsWith(Append(text, byte), secret, j + 1) => j <= k

\* One step of the loop loses no match.
LEMMA ShrinkStep ==
  ASSUME NEW B, NEW secret \in Seq(B), NEW b \in 0..(Len(secret) - 1),
         NEW text \in Seq(B), NEW byte \in B, NEW k \in 0..b,
         Reached(text, secret, b, byte, k)
  PROVE  /\ secret[k + 1] = byte => LongestEnd(Append(text, byte), secret, b + 1, k + 1)
         /\ secret[k + 1] # byte /\ k = 0 => LongestEnd(Append(text, byte), secret, b + 1, 0)
<1> DEFINE more == Append(text, byte)
<1>0. more \in Seq(B)
  OBVIOUS
<1>1. \A j \in 0..b : EndsWith(more, secret, j + 1) <=> EndsWith(text, secret, j) /\ secret[j + 1] = byte
  <2> SUFFICES ASSUME NEW j \in 0..b
               PROVE  EndsWith(more, secret, j + 1) <=> EndsWith(text, secret, j) /\ secret[j + 1] = byte
    OBVIOUS
  <2>1. j \in Nat
    OBVIOUS
  <2>2. Grows(text, secret, byte, j)
    BY <2>1, EndsWithOneMore
  <2>3. QED
    BY <2>2 DEF Grows
<1>2. EndsWith(text, secret, k) /\ \A j \in 0..b : EndsWith(more, secret, j + 1) => j <= k
  BY DEF Reached
<1> HIDE DEF more
<1>3. ASSUME NEW j \in 0..(b + 1), EndsWith(more, secret, j) PROVE j <= k + 1
  <2>1. CASE j = 0
    BY <2>1
  <2>2. CASE j # 0
    <3>1. j - 1 \in 0..b /\ (j - 1) + 1 = j
      BY <2>2
    <3>2. j - 1 <= k
      BY <3>1, <1>2, <1>3
    <3>3. QED
      BY <3>2
  <2>3. QED
    BY <2>1, <2>2
<1>4. ASSUME secret[k + 1] = byte PROVE LongestEnd(more, secret, b + 1, k + 1)
  <2>1. EndsWith(more, secret, k + 1)
    BY <1>1, <1>2, <1>4
  <2>2. k + 1 \in 0..(b + 1)
    OBVIOUS
  <2>3. QED
    BY <1>3, <2>1, <2>2 DEF LongestEnd
<1>5. ASSUME secret[k + 1] # byte, k = 0 PROVE LongestEnd(more, secret, b + 1, 0)
  <2>1. ASSUME NEW j \in 0..(b + 1), EndsWith(more, secret, j) PROVE j <= 0
    <3> SUFFICES ASSUME j # 0 PROVE FALSE
      OBVIOUS
    <3>1. j = 1
      BY <1>3, <1>5, <2>1
    <3>2. EndsWith(more, secret, 0 + 1)
      BY <2>1, <3>1
    <3>3. secret[0 + 1] = byte
      BY <3>2, <1>1
    <3>4. QED
      BY <3>3, <1>5
  <2>2. EndsWith(more, secret, 0)
    BY <1>0, EndsWithNothing
  <2>3. 0 \in 0..(b + 1)
    OBVIOUS
  <2>4. QED
    BY <2>1, <2>2, <2>3 DEF LongestEnd
<1>6. QED
  BY <1>4, <1>5 DEF more

\* The next shorter beginning the text ends with is the one in the table.
LEMMA ShrinkLower ==
  ASSUME NEW B, NEW secret \in Seq(B), NEW b \in 0..(Len(secret) - 1),
         NEW text \in Seq(B), NEW byte \in B, NEW k \in 1..b, NEW t,
         LongestEnd(SubSeq(secret, 1, k), secret, k - 1, t),
         Reached(text, secret, b, byte, k), secret[k + 1] # byte
  PROVE  t \in 0..(k - 1) /\ Reached(text, secret, b, byte, t)
<1>0. EndsWith(text, secret, k)
  BY DEF Reached
<1>1. k \in 0..Len(secret) /\ k \in Nat
  OBVIOUS
<1>2. \A j \in 0..k : EndsWith(text, secret, j) <=> EndsWith(SubSeq(secret, 1, k), secret, j)
  BY <1>0, <1>1, EndsWithShorter
<1>3. /\ t \in 0..(k - 1) /\ EndsWith(SubSeq(secret, 1, k), secret, t)
      /\ \A j \in 0..(k - 1) : EndsWith(SubSeq(secret, 1, k), secret, j) => j <= t
  BY DEF LongestEnd
<1>4. t \in 0..k
  BY <1>3
<1>5. EndsWith(text, secret, t)
  BY <1>2, <1>3, <1>4
<1>6. ASSUME NEW j \in 0..b, EndsWith(Append(text, byte), secret, j + 1) PROVE j <= t
  <2>1. j \in Nat /\ j <= k
    BY <1>6 DEF Reached
  <2>2. EndsWith(text, secret, j) /\ secret[j + 1] = byte
    <3>1. Grows(text, secret, byte, j)
      BY <2>1, EndsWithOneMore
    <3>2. QED
      BY <3>1, <1>6 DEF Grows
  <2>3. j # k
    BY <2>2
  <2>4. j \in 0..(k - 1) /\ j \in 0..k
    BY <2>1, <2>3, <1>1
  <2>5. EndsWith(SubSeq(secret, 1, k), secret, j)
    BY <2>2, <2>4, <1>2
  <2>6. QED
    BY <2>4, <2>5, <1>3
<1>7. QED
  BY <1>3, <1>5, <1>6 DEF Reached

\* With a right table the loop finds the longest beginning the longer text ends with.
LEMMA ShrinkIsRight ==
  ASSUME NEW B, NEW secret \in Seq(B), NEW b \in 0..(Len(secret) - 1),
         NEW text \in Seq(B), NEW byte \in B, NEW n, LongestEnd(text, secret, b, n),
         NEW table, RightTable(secret, table, n)
  PROVE  LongestEnd(Append(text, byte), secret, b + 1, Shrink(secret, table, n, byte))
<1> DEFINE more == Append(text, byte)
           Here(k) == Reached(text, secret, b, byte, k)
<1>1. /\ n \in 0..b /\ EndsWith(text, secret, n)
      /\ \A k \in 0..b : EndsWith(text, secret, k) => k <= n
  BY DEF LongestEnd
<1>2. n \in 0..(Len(secret) - 1) /\ n \in Nat
  BY <1>1
<1>3. LowerTable(table, n)
  <2>1. ASSUME NEW k \in 1..n PROVE table[k] \in 0..(k - 1)
    <3>1. LongestEnd(SubSeq(secret, 1, k), secret, k - 1, table[k])
      BY DEF RightTable
    <3>2. QED
      BY <3>1 DEF LongestEnd
  <2>2. QED
    BY <2>1 DEF LowerTable
<1>4a. PICK u : u \in Loops(secret, table, n, byte) /\ Shrink(secret, table, n, byte) = u[n]
  BY <1>2, <1>3, ShrinkRule
<1>4. \A k \in 0..n : u[k] = IF secret[k + 1] = byte THEN k + 1
                             ELSE IF k = 0 THEN 0 ELSE u[table[k]]
  BY <1>4a DEF Loops
<1>5. Here(n)
  <2>1. ASSUME NEW j \in 0..b, EndsWith(more, secret, j + 1) PROVE j <= n
    <3>1. j \in Nat
      OBVIOUS
    <3>2. Grows(text, secret, byte, j)
      BY <3>1, EndsWithOneMore
    <3>2a. EndsWith(text, secret, j)
      BY <3>2, <2>1 DEF Grows
    <3>3. QED
      BY <3>2a, <1>1
  <2>2. QED
    BY <2>1, <1>1 DEF Reached
<1> DEFINE P == {m \in Nat : \A k \in 0..n : k <= m /\ Here(k) => LongestEnd(more, secret, b + 1, u[k])}
<1>6. 0 \in P
  <2> SUFFICES ASSUME Here(0), 0 \in 0..n PROVE LongestEnd(more, secret, b + 1, u[0])
    OBVIOUS
  <2>1. 0 \in 0..b /\ u[0] = IF secret[0 + 1] = byte THEN 0 + 1 ELSE 0
    BY <1>1, <1>4
  <2>2. /\ secret[0 + 1] = byte => LongestEnd(more, secret, b + 1, 0 + 1)
        /\ secret[0 + 1] # byte => LongestEnd(more, secret, b + 1, 0)
    BY <2>1, ShrinkStep
  <2>3. QED
    BY <2>1, <2>2
<1>7. ASSUME NEW m \in P PROVE m + 1 \in P
  <2> SUFFICES ASSUME NEW k \in 0..n, k = m + 1, Here(k)
               PROVE  LongestEnd(more, secret, b + 1, u[k])
    OBVIOUS
  <2>0. m \in Nat /\ k \in 1..n /\ k \in 0..b /\ k \in 1..b /\ k # 0
    BY <1>1
  <2>1. u[k] = IF secret[k + 1] = byte THEN k + 1 ELSE u[table[k]]
    BY <1>4, <2>0
  <2>2. CASE secret[k + 1] = byte
    <3>1. LongestEnd(more, secret, b + 1, k + 1)
      BY <2>0, <2>2, ShrinkStep
    <3>2. QED
      BY <3>1, <2>1, <2>2
  <2>3. CASE secret[k + 1] # byte
    <3>1. LongestEnd(SubSeq(secret, 1, k), secret, k - 1, table[k])
      BY <2>0 DEF RightTable
    <3>2. table[k] \in 0..(k - 1) /\ Here(table[k])
      BY <3>1, <2>0, <2>3, ShrinkLower
    <3>3. table[k] \in 0..n /\ table[k] <= m
      <4>1. \A t \in 0..(k - 1) : t \in 0..n /\ t <= m
        BY <2>0, <1>2
      <4> HIDE DEF Here
      <4>2. QED
        BY <4>1, <3>2
    <3>4. LongestEnd(more, secret, b + 1, u[table[k]])
      BY <3>2, <3>3
    <3>5. QED
      BY <3>4, <2>1, <2>3
  <2>4. QED
    BY <2>2, <2>3
<1>8. P \in SUBSET Nat
  OBVIOUS
<1> HIDE DEF P
<1>9. n \in P
  BY <1>6, <1>7, <1>8, <1>2, Induction
<1> HIDE DEF more
<1>10. LongestEnd(more, secret, b + 1, u[n])
  BY <1>9, <1>5, <1>2 DEF P
<1>11. QED
  BY <1>10, <1>4a DEF more

\* The loop reads the table up to its start only.
SameTable(table, other, n) == \A k \in 1..n : table[k] = other[k]

\* The loop reads the table only below the place it starts from.
LEMMA ShrinkReads ==
  ASSUME NEW B, NEW secret \in Seq(B), NEW n \in 0..(Len(secret) - 1), NEW byte,
         NEW table, NEW other, LowerTable(table, n), SameTable(table, other, n)
  PROVE  /\ Shrink(secret, table, n, byte) \in 0..(n + 1)
         /\ Shrink(secret, table, n, byte) = Shrink(secret, other, n, byte)
<1>1. LowerTable(other, n)
  BY DEF LowerTable, SameTable
<1>2. PICK u : u \in Loops(secret, table, n, byte) /\ Shrink(secret, table, n, byte) = u[n]
  BY ShrinkRule
<1>3. PICK v : v \in Loops(secret, other, n, byte) /\ Shrink(secret, other, n, byte) = v[n]
  BY <1>1, ShrinkRule
<1>4. \A k \in 0..n : u[k] = IF secret[k + 1] = byte THEN k + 1
                             ELSE IF k = 0 THEN 0 ELSE u[table[k]]
  BY <1>2 DEF Loops
<1>5. \A k \in 0..n : v[k] = IF secret[k + 1] = byte THEN k + 1
                             ELSE IF k = 0 THEN 0 ELSE v[table[k]]
  <2>1. \A k \in 0..n : v[k] = IF secret[k + 1] = byte THEN k + 1
                               ELSE IF k = 0 THEN 0 ELSE v[other[k]]
    BY <1>3 DEF Loops
  <2>2. \A k \in 0..n : k # 0 => table[k] = other[k]
    BY DEF SameTable
  <2>3. QED
    BY <2>1, <2>2
<1>6. \A k \in 1..n : table[k] \in 0..(k - 1)
  BY DEF LowerTable
<1> DEFINE P == {m \in Nat : \A k \in 0..n : k <= m => u[k] = v[k]}
<1>7. 0 \in P
  <2> SUFFICES 0 \in 0..n => u[0] = v[0]
    OBVIOUS
  <2>1. QED
    BY <1>4, <1>5
<1>8. ASSUME NEW m \in P PROVE m + 1 \in P
  <2> SUFFICES ASSUME NEW k \in 0..n, k = m + 1 PROVE u[k] = v[k]
    OBVIOUS
  <2>1. k # 0 /\ k \in 1..n
    OBVIOUS
  <2>2. \A t \in 0..(k - 1) : t \in 0..n /\ t <= m
    OBVIOUS
  <2>3. u[table[k]] = v[table[k]]
    BY <2>1, <2>2, <1>6
  <2>4. QED
    BY <2>1, <2>3, <1>4, <1>5
<1>9. P \in SUBSET Nat
  OBVIOUS
<1> HIDE DEF P
<1>10. n \in P
  BY <1>7, <1>8, <1>9, Induction
<1>11. u[n] = v[n] /\ u[n] \in 0..(n + 1)
  <2>1. n \in 0..n /\ n <= n
    OBVIOUS
  <2>2. u[n] = v[n]
    BY <2>1, <1>10 DEF P
  <2>3. u[n] \in 0..(n + 1)
    BY <2>1, <1>2 DEF Loops
  <2>4. QED
    BY <2>2, <2>3
<1>12. QED
  BY <1>11, <1>2, <1>3

-------------------------------------------------------------------------------
(* The table *)

\* The table is made from its own beginning.
LEMMA FallbackRule ==
  ASSUME NEW B, NEW secret \in Seq(B), secret # <<>>
  PROVE  /\ LowerTable(Fallback(secret), Len(secret))
         /\ Fallback(secret)[1] = 0
         /\ \A n \in 2..Len(secret) :
              Fallback(secret)[n] =
                Shrink(secret, Fallback(secret), Fallback(secret)[n - 1], secret[n])
<1> DEFINE L == Len(secret)
           S == 1..L
           V == 0..L
           T == [n \in S |-> 0..(n - 1)]
           r == [n \in S |-> n]
           M == Maps(S, V, T)
           G == [p \in S \X M |-> IF p[1] = 1 THEN 0
                                  ELSE Shrink(secret, p[2], p[2][p[1] - 1], secret[p[1]])]
           w == CHOOSE t : t = [n \in S |-> IF n = 1 THEN 0
                                            ELSE Shrink(secret, t, t[n - 1], secret[n])]
<1>0. L \in Nat /\ L # 0
  OBVIOUS
<1>1. /\ T \in [S -> SUBSET V] /\ r \in [S -> Nat]
      /\ \A n \in S : r[n] = n /\ T[n] = 0..(n - 1)
  OBVIOUS
<1>2. \A f \in M : f \in [S -> V] /\ LowerTable(f, L)
  BY DEF Maps, LowerTable
<1>3. [n \in S |-> 0] \in M
  BY DEF Maps
<1>4. \A n \in S : n \in Nat /\ n < L + 1
  OBVIOUS
<1> HIDE DEF M
<1>5. ASSUME NEW n \in S, NEW f \in M
      PROVE  G[<<n, f>>] = IF n = 1 THEN 0 ELSE Shrink(secret, f, f[n - 1], secret[n])
  OBVIOUS
<1> HIDE DEF G
<1>6. ASSUME NEW n \in S, n # 1, NEW f \in M
      PROVE  /\ f[n - 1] \in 0..(n - 2) /\ f[n - 1] \in 0..(Len(secret) - 1)
             /\ LowerTable(f, f[n - 1])
  <2>1. LowerTable(f, L) /\ n - 1 \in 1..L
    BY <1>2, <1>6
  <2>2. f[n - 1] \in 0..((n - 1) - 1)
    BY <2>1 DEF LowerTable
  <2>3. \A k \in 1..f[n - 1] : k \in 1..L
    BY <2>2
  <2>4. LowerTable(f, f[n - 1])
    BY <2>1, <2>3 DEF LowerTable
  <2>5. QED
    BY <2>2, <2>4
<1>7. ASSUME NEW n \in S, NEW f \in M PROVE G[<<n, f>>] \in T[n]
  <2>1. CASE n = 1
    BY <2>1, <1>5, <1>1
  <2>2. CASE n # 1
    <3>0. SameTable(f, f, f[n - 1])
      BY DEF SameTable
    <3>1. Shrink(secret, f, f[n - 1], secret[n]) \in 0..(f[n - 1] + 1)
      BY <3>0, <2>2, <1>6, ShrinkReads
    <3>2. \A m \in 0..(n - 2) : \A x \in 0..(m + 1) : x \in 0..(n - 1)
      BY <1>4
    <3>3. QED
      BY <3>1, <3>2, <2>2, <1>6, <1>5, <1>1
  <2>3. QED
    BY <2>1, <2>2
<1>8. ASSUME NEW n \in S, NEW f \in M, NEW g \in M,
             \A j \in S : r[j] < r[n] => f[j] = g[j]
      PROVE  G[<<n, f>>] = G[<<n, g>>]
  <2>1. CASE n = 1
    BY <2>1, <1>5
  <2>2. CASE n # 1
    <3>1. \A j \in 1..(n - 1) : f[j] = g[j]
      BY <1>8, <1>1
    <3>2. f[n - 1] = g[n - 1]
      BY <3>1, <2>2
    <3>3. SameTable(f, g, f[n - 1])
      <4>1. \A k \in 1..f[n - 1] : k \in 1..(n - 1)
        BY <2>2, <1>6
      <4>2. QED
        BY <4>1, <3>1 DEF SameTable
    <3>4. Shrink(secret, f, f[n - 1], secret[n]) = Shrink(secret, g, f[n - 1], secret[n])
      BY <3>3, <2>2, <1>6, ShrinkReads
    <3>5. QED
      BY <3>2, <3>4, <1>5
  <2>3. QED
    BY <2>1, <2>2
<1> HIDE DEF T, r, S, V
<1>9. PICK f \in M : \A n \in S : f[n] = G[<<n, f>>]
  <2>1. L + 1 \in Nat /\ \A n \in S : r[n] < L + 1
    BY <1>0, <1>1, <1>4
  <2>2. Typed(S, V, T, G) /\ Descends(S, V, T, r, G) /\ Ranked(S, r, L + 1)
    BY <1>1, <1>7, <1>8, <2>1 DEF Typed, Descends, Ranked, M
  <2> HIDE DEF L
  <2>3. \E f : f \in Fixed(S, V, T, G)
    BY <1>1, <1>3, <2>1, <2>2, Recursion DEF M
  <2>4. QED
    BY <2>3 DEF Fixed, M
<1>10. f = [n \in S |-> IF n = 1 THEN 0 ELSE Shrink(secret, f, f[n - 1], secret[n])]
  <2>1. \A n \in S : f[n] = IF n = 1 THEN 0 ELSE Shrink(secret, f, f[n - 1], secret[n])
    BY <1>5, <1>9
  <2>2. QED
    BY <2>1, <1>2
<1>11. w = [n \in S |-> IF n = 1 THEN 0 ELSE Shrink(secret, w, w[n - 1], secret[n])]
  BY <1>10
<1>12. Fallback(secret) = w
  BY DEF Fallback, S
<1> HIDE DEF w
<1>13. \A n \in S : w[n] = IF n = 1 THEN 0 ELSE Shrink(secret, w, w[n - 1], secret[n])
  BY <1>11
<1>14. LowerTable(w, L)
  <2> DEFINE P == {m \in Nat : m <= L => LowerTable(w, m)}
  <2>1. 0 \in P
    BY DEF LowerTable
  <2>2. ASSUME NEW m \in P PROVE m + 1 \in P
    <3> SUFFICES ASSUME m + 1 <= L PROVE LowerTable(w, m + 1)
      OBVIOUS
    <3>1. LowerTable(w, m) /\ m \in Nat /\ m + 1 \in S
      BY <1>0 DEF S
    <3>2. w[m + 1] \in 0..m
      <4>1. CASE m = 0
        BY <4>1, <3>1, <1>13
      <4>2. CASE m # 0
        <5>1. m \in 1..m /\ (m + 1) - 1 = m /\ m + 1 # 1
          BY <3>1, <4>2
        <5>2. w[m] \in 0..(m - 1)
          BY <3>1, <5>1 DEF LowerTable
        <5>3. w[m] \in 0..(Len(secret) - 1) /\ LowerTable(w, w[m])
          <6>1. \A k \in 1..w[m] : k \in 1..m
            BY <5>2, <3>1
          <6>2. QED
            BY <6>1, <5>2, <3>1 DEF LowerTable
        <5>4. Shrink(secret, w, w[m], secret[m + 1]) \in 0..(w[m] + 1)
          <6>1. SameTable(w, w, w[m])
            BY DEF SameTable
          <6>2. QED
            BY <6>1, <5>3, ShrinkReads
        <5>5. w[m + 1] = Shrink(secret, w, w[m], secret[m + 1])
          BY <3>1, <5>1, <1>13
        <5>6. \A x \in 0..(m - 1) : \A y \in 0..(x + 1) : y \in 0..m
          BY <3>1
        <5>7. QED
          BY <5>2, <5>4, <5>5, <5>6
      <4>3. QED
        BY <4>1, <4>2
    <3>3. \A k \in 1..(m + 1) : k \in 1..m \/ k = m + 1
      BY <3>1
    <3>4. \A k \in 1..m : w[k] \in 0..(k - 1)
      BY <3>1 DEF LowerTable
    <3>5. ASSUME NEW k \in 1..(m + 1) PROVE w[k] \in 0..(k - 1)
      <4>1. CASE k = m + 1
        <5>1. k - 1 = m
          BY <4>1, <3>1
        <5>2. QED
          BY <5>1, <4>1, <3>2
      <4>2. CASE k # m + 1
        BY <4>2, <3>3, <3>4
      <4>3. QED
        BY <4>1, <4>2
    <3>6. QED
      BY <3>5 DEF LowerTable
  <2>3. P \in SUBSET Nat
    OBVIOUS
  <2> HIDE DEF P
  <2>4. L \in P
    BY <2>1, <2>2, <2>3, <1>0, Induction
  <2>5. QED
    BY <2>4, <1>0 DEF P
<1>15. w[1] = 0 /\ \A n \in 2..L : w[n] = Shrink(secret, w, w[n - 1], secret[n])
  <2>1. 1 \in S /\ \A n \in 2..L : n \in S /\ n # 1
    BY <1>0 DEF S
  <2>2. QED
    BY <2>1, <1>13
<1>16. QED
  BY <1>12, <1>14, <1>15

\* The table of a secret holds, for each beginning of it, the longest shorter
\* beginning that this one ends with.
LEMMA FallbackIsRight ==
  ASSUME NEW B, NEW secret \in Seq(B), secret # <<>>
  PROVE  RightTable(secret, Fallback(secret), Len(secret))
<1> DEFINE table == Fallback(secret)
           L == Len(secret)
           P == {m \in Nat : m <= L => RightTable(secret, table, m)}
<1>1. /\ LowerTable(table, L) /\ table[1] = 0
      /\ \A n \in 2..L : table[n] = Shrink(secret, table, table[n - 1], secret[n])
  BY FallbackRule
<1>2. L \in Nat /\ L # 0
  OBVIOUS
<1> HIDE DEF table
<1>3. 0 \in P
  BY DEF RightTable
<1>4. ASSUME NEW m \in P PROVE m + 1 \in P
  <2> SUFFICES ASSUME m + 1 <= L PROVE RightTable(secret, table, m + 1)
    OBVIOUS
  <2>1. RightTable(secret, table, m) /\ m \in Nat /\ m + 1 \in 1..L
    OBVIOUS
  <2>2. LongestEnd(SubSeq(secret, 1, m + 1), secret, m, table[m + 1])
    <3>1. CASE m = 0
      <4>1. SubSeq(secret, 1, m + 1) \in Seq(B)
        BY <2>1
      <4>2. EndsWith(SubSeq(secret, 1, m + 1), secret, 0)
        BY <4>1, EndsWithNothing
      <4>3. table[m + 1] = 0 /\ m = 0
        BY <3>1, <1>1
      <4>4. QED
        BY <4>2, <4>3 DEF LongestEnd
    <3>2. CASE m # 0
      <4> DEFINE head == SubSeq(secret, 1, m)
      <4>1. /\ head \in Seq(B) /\ secret[m + 1] \in B
            /\ Append(head, secret[m + 1]) = SubSeq(secret, 1, m + 1)
        BY <2>1, <3>2
      <4>2. m \in 1..m /\ m - 1 \in 0..(Len(secret) - 1) /\ (m - 1) + 1 = m
        BY <2>1, <3>2
      <4> HIDE DEF head
      <4>3. LongestEnd(head, secret, m - 1, table[m])
        BY <2>1, <4>2 DEF RightTable, head
      <4>4. RightTable(secret, table, table[m])
        <5>1. table[m] \in 0..(m - 1)
          BY <4>3 DEF LongestEnd
        <5>2. \A k \in 1..table[m] : k \in 1..m
          BY <5>1, <2>1
        <5>3. QED
          BY <5>2, <2>1 DEF RightTable
      <4>5. LongestEnd(Append(head, secret[m + 1]), secret, (m - 1) + 1,
                       Shrink(secret, table, table[m], secret[m + 1]))
        BY <4>1, <4>2, <4>3, <4>4, ShrinkIsRight
      <4>6. table[m + 1] = Shrink(secret, table, table[m], secret[m + 1])
        <5>1. m + 1 \in 2..L /\ (m + 1) - 1 = m
          BY <2>1, <3>2
        <5>2. QED
          BY <5>1, <1>1
      <4>7. QED
        BY <4>1, <4>2, <4>5, <4>6
    <3>3. QED
      BY <3>1, <3>2
  <2>3. ASSUME NEW k \in 1..(m + 1)
        PROVE  LongestEnd(SubSeq(secret, 1, k), secret, k - 1, table[k])
    <3>1. CASE k = m + 1
      <4>1. k - 1 = m
        BY <3>1, <2>1
      <4>2. QED
        BY <4>1, <3>1, <2>2
    <3>2. CASE k # m + 1
      <4>1. k \in 1..m
        BY <3>2, <2>1
      <4>2. QED
        BY <4>1, <2>1 DEF RightTable
    <3>3. QED
      BY <3>1, <3>2
  <2>4. QED
    BY <2>3 DEF RightTable
<1>5. P \in SUBSET Nat
  OBVIOUS
<1> HIDE DEF P
<1>6. L \in P
  BY <1>3, <1>4, <1>5, <1>2, Induction
<1>7. QED
  BY <1>6, <1>2 DEF P, table

-------------------------------------------------------------------------------
(* The cursor *)

\* The cursor of a secret is on the longest proper beginning the text ends with.
RightCursor(text, secret, n) == LongestEnd(text, secret, Len(secret) - 1, n)

\* With one more byte the cursor finds every occurrence that ends there, and is
\* right again, in the text as a whole, after an occurrence too.
THEOREM CursorIsRight ==
  ASSUME NEW B, NEW secret \in Seq(B), secret # <<>>, NEW text \in Seq(B), NEW byte \in B,
         NEW n, RightCursor(text, secret, n)
  PROVE  /\ Extended(secret, n, byte) = Len(secret)
              <=> EndsWith(Append(text, byte), secret, Len(secret))
         /\ RightCursor(Append(text, byte), secret, Resume(secret, Extended(secret, n, byte)))
<1> DEFINE more == Append(text, byte)
           L == Len(secret)
           m == Extended(secret, n, byte)
<1>1. L \in Nat /\ L # 0 /\ L - 1 \in 0..(L - 1) /\ (L - 1) + 1 = L /\ L \in 1..L /\ L \in 0..L
  OBVIOUS
<1>2. more \in Seq(B)
  OBVIOUS
<1>3. n \in 0..(L - 1)
  BY DEF RightCursor, LongestEnd
<1>4. RightTable(secret, Fallback(secret), L)
  BY FallbackIsRight
<1>5. RightTable(secret, Fallback(secret), n)
  <2>1. \A k \in 1..n : k \in 1..L
    BY <1>1, <1>3
  <2>2. QED
    BY <2>1, <1>4 DEF RightTable
<1>6. LongestEnd(more, secret, L, m)
  <2>1. LongestEnd(more, secret, (L - 1) + 1, Shrink(secret, Fallback(secret), n, byte))
    BY <1>1, <1>5, ShrinkIsRight DEF RightCursor
  <2>2. QED
    BY <2>1, <1>1 DEF Extended
<1> HIDE DEF more, m
<1>7. m \in 0..L /\ EndsWith(more, secret, m) /\ \A k \in 0..L : EndsWith(more, secret, k) => k <= m
  BY <1>6 DEF LongestEnd
<1>8. m = L <=> EndsWith(more, secret, L)
  <2> HIDE DEF L
  <2>1. m = L => EndsWith(more, secret, L)
    BY <1>7
  <2>2. ASSUME EndsWith(more, secret, L) PROVE m = L
    <3>1. L <= m
      BY <1>1, <1>7, <2>2
    <3>2. QED
      BY <3>1, <1>1, <1>7
  <2>3. QED
    BY <2>1, <2>2
<1>9. CASE m # L
  <2> HIDE DEF L
  <2>0. \A k \in 0..(L - 1) : k \in 0..L
    BY <1>1
  <2>1. m \in 0..(L - 1)
    BY <1>1, <1>7, <1>9
  <2>2. LongestEnd(more, secret, L - 1, m)
    BY <2>0, <2>1, <1>7 DEF LongestEnd
  <2>3. QED
    BY <2>2, <1>8, <1>9 DEF RightCursor, Resume, m, more, L
<1>10. CASE m = L
  <2> DEFINE t == Fallback(secret)[L]
  <2>1. LongestEnd(SubSeq(secret, 1, L), secret, L - 1, t)
    BY <1>4, <1>1 DEF RightTable
  <2>2. \A k \in 0..L : EndsWith(more, secret, k) <=> EndsWith(SubSeq(secret, 1, L), secret, k)
    <3>1. EndsWith(more, secret, L)
      BY <1>7, <1>10
    <3> HIDE DEF L
    <3>2. L \in 0..Len(secret)
      BY <1>1 DEF L
    <3>3. QED
      BY <3>1, <3>2, <1>2, EndsWithShorter
  <2>3. \A k \in 0..(L - 1) : k \in 0..L
    BY <1>1
  <2> HIDE DEF t
  <2>4. LongestEnd(more, secret, L - 1, t)
    BY <2>1, <2>2, <2>3 DEF LongestEnd
  <2>5. QED
    BY <2>4, <1>8, <1>10 DEF RightCursor, Resume, t, m, more
<1>11. QED
  BY <1>9, <1>10

-------------------------------------------------------------------------------
(* The masked text *)

SecretsFit(K) == \A s \in K : s \in Seq(Bytes) /\ s # <<>>

\* A longest secret that occurs, if any does.
LEMMA LongestAtRule ==
  ASSUME NEW K, SecretsFit(K), NEW text \in Seq(Bytes), NEW i \in 1..(Len(text) + 1)
  PROVE  /\ LongestAt(K, text, i) \in 0..(Len(text) + 1 - i)
         /\ \A s \in K : OccursAt(s, text, i) => Len(s) <= LongestAt(K, text, i)
         /\ LongestAt(K, text, i) # 0 => \E s \in K : OccursAt(s, text, i) /\ Len(s) = LongestAt(K, text, i)
<1> DEFINE b == Len(text) + 1 - i
           S == {Len(s) : s \in {x \in K : OccursAt(x, text, i)}}
<1>1. b \in Nat
  OBVIOUS
<1>2. S \in SUBSET (0..b)
  <2> SUFFICES ASSUME NEW s \in K, OccursAt(s, text, i) PROVE Len(s) \in 0..b
    OBVIOUS
  <2>1. Len(s) \in Nat /\ i + Len(s) - 1 <= Len(text)
    BY DEF SecretsFit, OccursAt
  <2>2. QED
    BY <2>1
<1> HIDE DEF b
<1>3. /\ Biggest(S) \in 0..b
      /\ S # {} => Biggest(S) \in S
      /\ \A n \in S : n <= Biggest(S)
  <2> HIDE DEF S
  <2>1. QED
    BY <1>1, <1>2, BiggestRule
<1>4. LongestAt(K, text, i) = Biggest(S)
  BY DEF LongestAt
<1>5. Biggest(S) # 0 => S # {}
  BY DEF Biggest
<1>6. \A s \in K : OccursAt(s, text, i) => Len(s) \in S
  OBVIOUS
<1>7. Biggest(S) \in S => \E s \in K : OccursAt(s, text, i) /\ Len(s) = Biggest(S)
  OBVIOUS
<1> HIDE DEF S
<1>8. QED
  BY <1>3, <1>4, <1>5, <1>6, <1>7 DEF b

\* An occurrence that no other is longer than is the longest.
LEMMA LongestAtIs ==
  ASSUME NEW K, SecretsFit(K), NEW text, NEW i, NEW m \in Nat,
         \A s \in K : OccursAt(s, text, i) => Len(s) <= m,
         m # 0 => \E s \in K : OccursAt(s, text, i) /\ Len(s) = m
  PROVE  LongestAt(K, text, i) = m
<1> DEFINE S == {Len(s) : s \in {x \in K : OccursAt(x, text, i)}}
<1>1. S \in SUBSET Nat /\ \A n \in S : n <= m
  BY DEF SecretsFit
<1>2. m = 0 \/ m \in S
  OBVIOUS
<1>3. LongestAt(K, text, i) = Biggest(S)
  BY DEF LongestAt
<1> HIDE DEF S
<1>4. QED
  BY <1>1, <1>2, <1>3, BiggestIs

\* The masked text from each byte on.
From(K, text) ==
  CHOOSE from : from =
    [i \in 1..(Len(text) + 1) |->
      IF i > Len(text) THEN <<>>
      ELSE IF LongestAt(K, text, i) = 0 THEN <<text[i]>> \o from[i + 1]
      ELSE Mask \o from[i + LongestAt(K, text, i)]]

\* A mask is text.
LEMMA MaskType == Mask \in Seq(Chars)
<1>1. MaskWidth \in Nat
  BY DecoderAssumption DEF DecoderConstants
<1>2. QED
  BY <1>1 DEF Mask, Chars

\* The masked text is made from the byte it starts with and the rest.
LEMMA FromRule ==
  ASSUME NEW K, SecretsFit(K), NEW text \in Seq(Bytes)
  PROVE  /\ MaskedText(K, text) = From(K, text)[1]
         /\ From(K, text) \in [1..(Len(text) + 1) -> Seq(Chars)]
         /\ From(K, text)[Len(text) + 1] = <<>>
         /\ \A i \in 1..Len(text) :
              From(K, text)[i] = IF LongestAt(K, text, i) = 0 THEN <<text[i]>> \o From(K, text)[i + 1]
                              ELSE Mask \o From(K, text)[i + LongestAt(K, text, i)]
<1> DEFINE N == Len(text)
           S == 1..(N + 1)
           V == Seq(Chars)
           T == [i \in S |-> V]
           r == [i \in S |-> N + 1 - i]
           M == Maps(S, V, T)
           G == [p \in S \X M |->
                  IF p[1] > N THEN <<>>
                  ELSE IF LongestAt(K, text, p[1]) = 0 THEN <<text[p[1]]>> \o p[2][p[1] + 1]
                  ELSE Mask \o p[2][p[1] + LongestAt(K, text, p[1])]]
<1>0. N \in Nat
  OBVIOUS
<1>1. /\ T \in [S -> SUBSET V] /\ r \in [S -> Nat] /\ N + 2 \in Nat
      /\ \A k \in S : r[k] = N + 1 - k /\ r[k] < N + 2 /\ T[k] = V
  OBVIOUS
<1>2. M = [S -> V]
  BY DEF Maps
<1> HIDE DEF M
<1>3. [i \in S |-> <<>>] \in M
  <2>1. <<>> \in V
    OBVIOUS
  <2> HIDE DEF V, S
  <2>2. [i \in S |-> <<>>] \in [S -> V]
    BY <2>1
  <2>3. QED
    BY <2>2, <1>2
<1>4. ASSUME NEW i \in S, ~(i > N)
      PROVE  /\ i + 1 \in S /\ r[i + 1] < r[i] /\ <<text[i]>> \in V
             /\ LongestAt(K, text, i) # 0 =>
                  i + LongestAt(K, text, i) \in S /\ r[i + LongestAt(K, text, i)] < r[i]
  <2>1. i \in 1..(Len(text) + 1) /\ i \in 1..N
    BY <1>0, <1>4
  <2>2. LongestAt(K, text, i) \in 0..(N + 1 - i)
    BY <2>1, LongestAtRule
  <2>3. i + 1 \in S /\ N + 1 - (i + 1) < N + 1 - i
    BY <2>1, <1>0
  <2>4. LongestAt(K, text, i) # 0 =>
          i + LongestAt(K, text, i) \in S /\ N + 1 - (i + LongestAt(K, text, i)) < N + 1 - i
    BY <2>1, <2>2, <1>0
  <2>5. text[i] \in Chars
    BY <2>1 DEF Chars
  <2>6. <<text[i]>> \in V
    BY <2>5
  <2> HIDE DEF r, S, N, V
  <2>7. QED
    BY <2>3, <2>4, <2>6, <1>1
<1>5. ASSUME NEW k \in S, NEW f \in M
      PROVE  G[<<k, f>>] = IF k > N THEN <<>>
                           ELSE IF LongestAt(K, text, k) = 0 THEN <<text[k]>> \o f[k + 1]
                           ELSE Mask \o f[k + LongestAt(K, text, k)]
  OBVIOUS
<1>5a. <<>> \in V /\ Mask \in V /\ \A x, y \in V : x \o y \in V
  BY MaskType
<1> HIDE DEF G, T, r, S, V
<1>6. ASSUME NEW k \in S, NEW f \in M PROVE G[<<k, f>>] \in T[k]
  <2>1. f \in [S -> V] /\ T[k] = V
    BY <1>1, <1>2
  <2>2. CASE k > N
    BY <2>1, <2>2, <1>5, <1>5a
  <2>3. CASE ~(k > N) /\ LongestAt(K, text, k) = 0
    <3>1. f[k + 1] \in V /\ <<text[k]>> \in V
      BY <2>1, <2>3, <1>4
    <3>2. G[<<k, f>>] = <<text[k]>> \o f[k + 1]
      BY <2>3, <1>5
    <3>3. QED
      BY <2>1, <3>1, <3>2, <1>5a
  <2>4. CASE ~(k > N) /\ LongestAt(K, text, k) # 0
    <3>1. f[k + LongestAt(K, text, k)] \in V
      BY <2>1, <2>4, <1>4
    <3>2. G[<<k, f>>] = Mask \o f[k + LongestAt(K, text, k)]
      BY <2>4, <1>5
    <3>3. QED
      BY <2>1, <3>1, <3>2, <1>5a
  <2>5. QED
    BY <2>2, <2>3, <2>4
<1>7. ASSUME NEW k \in S, NEW f \in M, NEW g \in M,
             \A j \in S : r[j] < r[k] => f[j] = g[j]
      PROVE  G[<<k, f>>] = G[<<k, g>>]
  <2>1. CASE k > N
    BY <2>1, <1>5
  <2>2. CASE ~(k > N) /\ LongestAt(K, text, k) = 0
    <3>1. f[k + 1] = g[k + 1]
      BY <2>2, <1>4, <1>7
    <3>2. QED
      BY <2>2, <3>1, <1>5
  <2>3. CASE ~(k > N) /\ LongestAt(K, text, k) # 0
    <3>1. f[k + LongestAt(K, text, k)] = g[k + LongestAt(K, text, k)]
      BY <2>3, <1>4, <1>7
    <3>2. QED
      BY <2>3, <3>1, <1>5
  <2>4. QED
    BY <2>1, <2>2, <2>3
<1>8. PICK f \in M : \A k \in S : f[k] = G[<<k, f>>]
  <2>1. Typed(S, V, T, G) /\ Descends(S, V, T, r, G) /\ Ranked(S, r, N + 2)
    BY <1>1, <1>6, <1>7 DEF Typed, Descends, Ranked, M
  <2>2. \E f : f \in Fixed(S, V, T, G)
    <3> HIDE DEF N
    <3>1. QED
      BY <1>1, <1>3, <2>1, Recursion DEF M
  <2>3. QED
    BY <2>2 DEF Fixed, M
<1>9. f = [k \in S |-> IF k > N THEN <<>>
                       ELSE IF LongestAt(K, text, k) = 0 THEN <<text[k]>> \o f[k + 1]
                       ELSE Mask \o f[k + LongestAt(K, text, k)]]
  <2>1. \A k \in S : f[k] = IF k > N THEN <<>>
                       ELSE IF LongestAt(K, text, k) = 0 THEN <<text[k]>> \o f[k + 1]
                       ELSE Mask \o f[k + LongestAt(K, text, k)]
    BY <1>5, <1>8
  <2>2. f \in [S -> V]
    BY <1>2, <1>8, SMTT(30)
  <2>3. QED
    BY <2>1, <2>2
<1> DEFINE w == From(K, text)
<1>10. w = [k \in S |-> IF k > N THEN <<>>
                       ELSE IF LongestAt(K, text, k) = 0 THEN <<text[k]>> \o w[k + 1]
                       ELSE Mask \o w[k + LongestAt(K, text, k)]]
  BY <1>9 DEF From, S
<1>11. MaskedText(K, text) = w[1]
  BY DEF MaskedText, From
<1> HIDE DEF w
<1>12. \A k \in S : w[k] = IF k > N THEN <<>>
                       ELSE IF LongestAt(K, text, k) = 0 THEN <<text[k]>> \o w[k + 1]
                       ELSE Mask \o w[k + LongestAt(K, text, k)]
  BY <1>10
<1>13. \A n \in Nat : \A k \in S : r[k] <= n => w[k] \in V
  <2> DEFINE P == {n \in Nat : \A k \in S : r[k] <= n => w[k] \in V}
  <2>1. \A k \in S : r[k] \in Nat
    BY <1>1
  <2>2. ASSUME NEW k \in S, \A j \in S : r[j] < r[k] => w[j] \in V PROVE w[k] \in V
    <3>1. CASE k > N
      BY <3>1, <1>12, <1>5a
    <3>2. CASE ~(k > N) /\ LongestAt(K, text, k) = 0
      <4>1. w[k + 1] \in V /\ <<text[k]>> \in V
        BY <3>2, <1>4, <2>2
      <4>2. w[k] = <<text[k]>> \o w[k + 1]
        BY <3>2, <1>12
      <4>3. QED
        BY <4>1, <4>2, <1>5a
    <3>3. CASE ~(k > N) /\ LongestAt(K, text, k) # 0
      <4>1. w[k + LongestAt(K, text, k)] \in V
        BY <3>3, <1>4, <2>2
      <4>2. w[k] = Mask \o w[k + LongestAt(K, text, k)]
        BY <3>3, <1>12
      <4>3. QED
        BY <4>1, <4>2, <1>5a
    <3>4. QED
      BY <3>1, <3>2, <3>3
  <2>3. 0 \in P
    <3> SUFFICES ASSUME NEW k \in S, r[k] <= 0 PROVE w[k] \in V
      OBVIOUS
    <3>1. \A j \in S : ~(r[j] < r[k])
      BY <2>1
    <3>2. QED
      BY <2>2, <3>1
  <2>4. ASSUME NEW n \in P PROVE n + 1 \in P
    <3>0. n \in Nat /\ \A k \in S : r[k] <= n => w[k] \in V
      OBVIOUS
    <3> SUFFICES ASSUME NEW k \in S, r[k] <= n + 1 PROVE w[k] \in V
      BY <3>0
    <3>1. \A j \in S : r[j] < r[k] => r[j] <= n
      BY <2>1, <3>0
    <3> HIDE DEF P
    <3>2. \A j \in S : r[j] < r[k] => w[j] \in V
      BY <3>0, <3>1
    <3>3. QED
      BY <2>2, <3>2
  <2>5. P \in SUBSET Nat
    OBVIOUS
  <2> HIDE DEF P
  <2>6. \A n \in Nat : n \in P
    BY <2>3, <2>4, <2>5, Induction
  <2>7. QED
    BY <2>6 DEF P
<1>14. w \in [S -> V]
  <2>1. \A k \in S : r[k] \in Nat /\ r[k] <= r[k]
    BY <1>1
  <2>2. \A k \in S : w[k] \in V
    BY <2>1, <1>13
  <2>3. QED
    BY <2>2, <1>10
<1>15. N + 1 \in S /\ N + 1 > N /\ \A i \in 1..N : i \in S /\ ~(i > N)
  BY <1>0 DEF S
<1>16. /\ w[N + 1] = <<>>
       /\ \A i \in 1..N : w[i] = IF LongestAt(K, text, i) = 0 THEN <<text[i]>> \o w[i + 1]
                                 ELSE Mask \o w[i + LongestAt(K, text, i)]
  BY <1>12, <1>15
<1>17. QED
  BY <1>11, <1>14, <1>16 DEF w, S, V

-------------------------------------------------------------------------------
(* The flush *)

\* A pending byte, and the longest secret found to start with it.
Marks == [byte : Bytes, length : Nat]

\* The bytes of a text after the d-th, each with the longest secret that starts there.
Marked(K, text, d) ==
  [i \in 1..(Len(text) - d) |-> [byte |-> text[d + i], length |-> LongestAt(K, text, d + i)]]

\* Each marked byte is the byte with the longest secret there.
LEMMA MarkedRule ==
  ASSUME NEW K, SecretsFit(K), NEW text \in Seq(Bytes), NEW d \in 0..Len(text)
  PROVE  /\ Marked(K, text, d) \in Seq(Marks) /\ Len(Marked(K, text, d)) = Len(text) - d
         /\ \A i \in 1..(Len(text) - d) :
              /\ Marked(K, text, d)[i] \in Marks
              /\ Marked(K, text, d)[i] = [byte |-> text[d + i], length |-> LongestAt(K, text, d + i)]
<1> DEFINE n == Len(text) - d
<1>1. n \in Nat
  OBVIOUS
<1>2. ASSUME NEW i \in 1..n PROVE text[d + i] \in Bytes /\ LongestAt(K, text, d + i) \in Nat
  <2>1. d + i \in 1..Len(text) /\ d + i \in 1..(Len(text) + 1) /\ Len(text) + 1 - (d + i) \in Nat
    OBVIOUS
  <2>2. LongestAt(K, text, d + i) \in 0..(Len(text) + 1 - (d + i))
    BY <2>1, LongestAtRule
  <2>3. QED
    BY <2>1, <2>2
<1>3. Marked(K, text, d) = [i \in 1..n |-> [byte |-> text[d + i], length |-> LongestAt(K, text, d + i)]]
  BY DEF Marked
<1> HIDE DEF n
<1>4. \A i \in 1..n : [byte |-> text[d + i], length |-> LongestAt(K, text, d + i)] \in Marks
  BY <1>2 DEF Marks
<1>5. Marked(K, text, d) \in Seq(Marks) /\ Len(Marked(K, text, d)) = n
  <2>1. Marked(K, text, d) \in [1..n -> Marks]
    BY <1>3, <1>4
  <2>2. \A f \in [1..n -> Marks] : f \in Seq(Marks) /\ Len(f) = n
    BY <1>1
  <2>3. QED
    BY <2>1, <2>2
<1>6. \A i \in 1..n : /\ Marked(K, text, d)[i] \in Marks
                      /\ Marked(K, text, d)[i] = [byte |-> text[d + i], length |-> LongestAt(K, text, d + i)]
  BY <1>3, <1>4
<1>7. QED
  BY <1>5, <1>6 DEF n

\* Marked bytes without the first ones.
LEMMA MarkedRest ==
  ASSUME NEW K, SecretsFit(K), NEW text \in Seq(Bytes), NEW d \in 0..Len(text), NEW n \in 0..(Len(text) - d)
  PROVE  SubSeq(Marked(K, text, d), n + 1, Len(Marked(K, text, d))) = Marked(K, text, d + n)
<1> DEFINE a == Marked(K, text, d)
           b == Marked(K, text, d + n)
           m == Len(text) - d
           c == SubSeq(a, n + 1, m)
<1>0. m \in Nat /\ n \in Nat /\ n <= m /\ d + n \in 0..Len(text) /\ Len(text) - (d + n) = m - n
      /\ \A i \in 1..(m - n) : n + i \in 1..m /\ d + (n + i) = (d + n) + i /\ (n + 1) + i - 1 = n + i
  OBVIOUS
<1>1. /\ a \in Seq(Marks) /\ Len(a) = m
      /\ \A i \in 1..m : a[i] \in Marks /\ a[i] = [byte |-> text[d + i], length |-> LongestAt(K, text, d + i)]
  BY MarkedRule
<1>2. /\ b \in Seq(Marks) /\ Len(b) = m - n
      /\ \A i \in 1..(m - n) : b[i] = [byte |-> text[(d + n) + i], length |-> LongestAt(K, text, (d + n) + i)]
  <2> HIDE DEF m
  <2>1. /\ b \in Seq(Marks) /\ Len(b) = Len(text) - (d + n)
        /\ \A i \in 1..(Len(text) - (d + n)) :
             b[i] = [byte |-> text[(d + n) + i], length |-> LongestAt(K, text, (d + n) + i)]
    BY <1>0, MarkedRule
  <2>2. QED
    BY <2>1, <1>0
<1> HIDE DEF a, b, m
<1>3. /\ c \in Seq(Marks) /\ Len(c) = m - n
      /\ \A i \in 1..(m - n) : c[i] = a[(n + 1) + i - 1]
  <2>1. n + 1 \in Int /\ m \in Int /\ \A i \in (n + 1)..m : i \in 1..m
    BY <1>0
  <2>2. \A i \in (n + 1)..m : a[i] \in Marks
    BY <2>1, <1>1
  <2>3. /\ SubSeq(a, n + 1, m) \in Seq(Marks)
        /\ Len(SubSeq(a, n + 1, m)) = IF n + 1 <= m THEN m - (n + 1) + 1 ELSE 0
        /\ \A i \in 1..(m - (n + 1) + 1) : SubSeq(a, n + 1, m)[i] = a[(n + 1) + i - 1]
    BY <2>1, <2>2, SubSeqProperties
  <2>4. m - (n + 1) + 1 = m - n /\ (IF n + 1 <= m THEN m - (n + 1) + 1 ELSE 0) = m - n
    BY <1>0
  <2>5. QED
    BY <2>3, <2>4
<1> HIDE DEF c
<1>4. ASSUME NEW i \in 1..(m - n) PROVE c[i] = b[i]
  <2>1. c[i] = a[n + i]
    BY <1>0, <1>3
  <2>2. a[n + i] = [byte |-> text[d + (n + i)], length |-> LongestAt(K, text, d + (n + i))]
    BY <1>0, <1>1
  <2>3. QED
    BY <2>1, <2>2, <1>0, <1>2
<1>5. c = b
  BY <1>2, <1>3, <1>4, SeqEqual
<1>6. QED
  BY <1>1, <1>5 DEF a, b, c, m

\* Every extension of the text is masked as out, and then as it is masked from
\* the byte after the d-th on.
Settled(K, text, out, d, E) ==
  \A ext \in E : MaskedText(K, text \o ext) = out \o From(K, text \o ext)[d + 1]

\* Where more than u bytes have come, no extension changes what starts there.
Decided(K, text, u, E) ==
  \A ext \in E : \A d \in 0..Len(text) :
    Len(text) - d > u => LongestAt(K, text \o ext, d + 1) = LongestAt(K, text, d + 1)

Waiting == [pending : Seq(Marks), screen : Screens]

\* What waits are the marked bytes that the screen does not show yet.
Right(K, text, at, E) ==
  /\ at \in Waiting
  /\ \E d \in 0..Len(text) :
       /\ at.pending = Marked(K, text, d)
       /\ \E out \in Seq(Chars) : Shown(at.screen, out) /\ Settled(K, text, out, d, E)

\* Joining texts gives a text, in whatever order they are joined.
LEMMA TextsJoin ==
  \A p, q, s \in Seq(Chars) : p \o (q \o s) = (p \o q) \o s /\ p \o q \in Seq(Chars)
BY ConcatAssociative, ConcatProperties, SMTT(30)

\* The flush of a byte that is decided shows what the masked text has there.
LEMMA FlushFirstIsRight ==
  ASSUME NEW K, SecretsFit(K), NEW text \in Seq(Bytes), NEW E \in SUBSET Seq(Bytes), NEW u \in Nat,
         Decided(K, text, u, E), NEW at, Right(K, text, at, E), ~Undecided(at.pending, u)
  PROVE  /\ Right(K, text, FlushFirst(at), E)
         /\ Len(FlushFirst(at).pending) < Len(at.pending)
<1> DEFINE N == Len(text)
           pend == at.pending
<1>1. PICK d \in 0..N : /\ pend = Marked(K, text, d)
                        /\ \E out \in Seq(Chars) : Shown(at.screen, out) /\ Settled(K, text, out, d, E)
  BY DEF Right
<1>2. PICK out \in Seq(Chars) : Shown(at.screen, out) /\ Settled(K, text, out, d, E)
  BY <1>1
<1>3. at.screen \in Screens /\ pend \in Seq(Marks)
  BY DEF Right, Waiting
<1>4. Len(pend) = N - d /\ \A i \in 1..(N - d) : pend[i] = [byte |-> text[d + i], length |-> LongestAt(K, text, d + i)]
  BY <1>1, MarkedRule
<1>5. N \in Nat /\ N - d > u /\ 1 \in 1..(N - d) /\ d + 1 \in 1..N /\ d + 1 \in 1..(N + 1)
  BY <1>4 DEF Undecided
<1> DEFINE m == LongestAt(K, text, d + 1)
           c == text[d + 1]
<1>6. pend[1].byte = c /\ pend[1].length = m
  <2> HIDE DEF pend, N
  <2>1. pend[1] = [byte |-> text[d + 1], length |-> LongestAt(K, text, d + 1)]
    BY <1>4, <1>5
  <2>2. QED
    BY <2>1
<1>7. m \in 0..(N - d) /\ m \in Nat
  <2>1. m \in 0..(N + 1 - (d + 1))
    BY <1>5, LongestAtRule
  <2>2. QED
    BY <2>1, <1>5
<1>8. c \in Bytes /\ c \in Chars
  BY <1>5 DEF Chars
<1> HIDE DEF m, c, pend
<1>9. ASSUME NEW ext \in E
      PROVE  /\ From(K, text \o ext)[d + 1] =
                  IF m = 0 THEN <<c>> \o From(K, text \o ext)[d + 1 + 1]
                  ELSE Mask \o From(K, text \o ext)[d + m + 1]
             /\ From(K, text \o ext)[d + 1 + 1] \in Seq(Chars)
             /\ From(K, text \o ext)[d + m + 1] \in Seq(Chars)
             /\ MaskedText(K, text \o ext) = out \o From(K, text \o ext)[d + 1]
  <2> DEFINE all == text \o ext
  <2>1. all \in Seq(Bytes) /\ Len(all) = N + Len(ext) /\ Len(ext) \in Nat /\ \A i \in 1..N : all[i] = text[i]
    OBVIOUS
  <2>2. LongestAt(K, all, d + 1) = m
    BY <1>5 DEF Decided, m
  <2> HIDE DEF all
  <2>3. all[d + 1] = c /\ d + 1 \in 1..Len(all)
    <3> DEFINE L == Len(all)
               e == Len(ext)
    <3>1. L = N + e /\ e \in Nat
      BY <2>1
    <3>2. all[d + 1] = text[d + 1]
      BY <1>5, <2>1
    <3> HIDE DEF N, L, e
    <3>3. d + 1 \in 1..L
      BY <1>5, <3>1
    <3>4. QED
      BY <3>2, <3>3 DEF c, L
  <2>4. /\ From(K, all) \in [1..(Len(all) + 1) -> Seq(Chars)]
        /\ \A i \in 1..Len(all) :
              From(K, all)[i] = IF LongestAt(K, all, i) = 0 THEN <<all[i]>> \o From(K, all)[i + 1]
                             ELSE Mask \o From(K, all)[i + LongestAt(K, all, i)]
    BY <2>1, FromRule
  <2>5. From(K, all)[d + 1] = IF m = 0 THEN <<c>> \o From(K, all)[d + 1 + 1] ELSE Mask \o From(K, all)[d + 1 + m]
    BY <2>2, <2>3, <2>4
  <2>6. d + 1 + m = d + m + 1 /\ d + 1 + 1 \in 1..(Len(all) + 1) /\ d + m + 1 \in 1..(Len(all) + 1)
    BY <1>5, <1>7, <2>1
  <2>7. From(K, all)[d + 1 + 1] \in Seq(Chars) /\ From(K, all)[d + m + 1] \in Seq(Chars)
    BY <2>4, <2>6
  <2>8. MaskedText(K, all) = out \o From(K, all)[d + 1]
    BY <1>2 DEF Settled, all
  <2>9. QED
    BY <2>5, <2>6, <2>7, <2>8 DEF all
<1>10. \A p, q, s \in Seq(Chars) : p \o (q \o s) = (p \o q) \o s /\ p \o q \in Seq(Chars)
  BY TextsJoin
<1>11. CASE m = 0
  <2> DEFINE next == Output(at.screen, c)
  <2>1. FlushFirst(at) = [pending |-> Tail(pend), screen |-> next]
    BY <1>6, <1>11 DEF FlushFirst, pend
  <2>2. Tail(pend) = Marked(K, text, d + 1)
    <3>1. SubSeq(Marked(K, text, d), 2, Len(Marked(K, text, d))) = Marked(K, text, d + 1)
      <4>1. 1 \in 0..(N - d) /\ 1 + 1 = 2
        BY <1>5
      <4>2. SubSeq(Marked(K, text, d), 1 + 1, Len(Marked(K, text, d))) = Marked(K, text, d + 1)
        BY <4>1, MarkedRest
      <4>3. QED
        BY <4>1, <4>2
    <3>2. pend # <<>>
      BY <1>4, <1>5
    <3>3. Tail(pend) = SubSeq(pend, 2, Len(pend))
      BY <1>3, <3>2, TailIsSubSeq
    <3>4. pend = Marked(K, text, d)
      BY <1>1
    <3>5. QED
      BY <3>1, <3>3, <3>4
  <2>3. d + 1 \in 0..N /\ N - (d + 1) < N - d
    BY <1>5
  <2>4. Marked(K, text, d + 1) \in Seq(Marks) /\ Len(Marked(K, text, d + 1)) = N - (d + 1)
    BY <2>3, MarkedRule
  <2>5. next \in Screens /\ Shown(next, Append(out, c))
    BY <1>2, <1>3, <1>8, OutputIsRight
  <2>6. Append(out, c) = out \o <<c>> /\ Append(out, c) \in Seq(Chars) /\ <<c>> \in Seq(Chars)
    BY <1>8
  <2>7. Settled(K, text, Append(out, c), d + 1, E)
    <3> SUFFICES ASSUME NEW ext \in E
                 PROVE  MaskedText(K, text \o ext) = Append(out, c) \o From(K, text \o ext)[d + 1 + 1]
      BY DEF Settled
    <3> DEFINE rest == From(K, text \o ext)[d + 1 + 1]
    <3>1. MaskedText(K, text \o ext) = out \o (<<c>> \o rest) /\ rest \in Seq(Chars)
      BY <1>9, <1>11
    <3> HIDE DEF rest
    <3>2. out \o (<<c>> \o rest) = (out \o <<c>>) \o rest
      BY <3>1, <2>6, <1>10, SMTT(30)
    <3>3. QED
      BY <3>1, <3>2, <2>6 DEF rest
  <2>8. FlushFirst(at) \in Waiting /\ FlushFirst(at).pending = Marked(K, text, d + 1) /\ FlushFirst(at).screen = next
    <3>1. FlushFirst(at) = [pending |-> Marked(K, text, d + 1), screen |-> next]
      BY <2>1, <2>2
    <3> HIDE DEF next
    <3>2. QED
      BY <3>1, <2>4, <2>5 DEF Waiting
  <2> HIDE DEF next
  <2>9. Right(K, text, FlushFirst(at), E)
    BY <2>3, <2>5, <2>6, <2>7, <2>8 DEF Right
  <2>10. QED
    BY <2>3, <2>4, <2>8, <2>9, <1>4 DEF pend
<1>12. CASE m # 0
  <2> DEFINE next == Write(at.screen, Mask)
  <2>1. FlushFirst(at) = [pending |-> SubSeq(pend, m + 1, Len(pend)), screen |-> next]
    BY <1>6, <1>12 DEF FlushFirst, pend
  <2>2. SubSeq(pend, m + 1, Len(pend)) = Marked(K, text, d + m)
    BY <1>1, <1>7, MarkedRest DEF pend
  <2>3. d + m \in 0..N /\ N - (d + m) < N - d
    BY <1>5, <1>7, <1>12
  <2>4. Marked(K, text, d + m) \in Seq(Marks) /\ Len(Marked(K, text, d + m)) = N - (d + m)
    BY <2>3, MarkedRule
  <2>5. next \in Screens /\ Shown(next, out \o Mask)
    BY <1>2, <1>3, MaskType, WriteIsRight
  <2>6. out \o Mask \in Seq(Chars)
    BY MaskType, <1>10
  <2>7. Settled(K, text, out \o Mask, d + m, E)
    <3> SUFFICES ASSUME NEW ext \in E
                 PROVE  MaskedText(K, text \o ext) = (out \o Mask) \o From(K, text \o ext)[d + m + 1]
      BY DEF Settled
    <3> DEFINE rest == From(K, text \o ext)[d + m + 1]
    <3>1. MaskedText(K, text \o ext) = out \o (Mask \o rest) /\ rest \in Seq(Chars)
      BY <1>9, <1>12
    <3> HIDE DEF rest
    <3>2. Mask \in Seq(Chars) /\ rest \in Seq(Chars)
      BY <3>1, MaskType
    <3>3. out \o (Mask \o rest) = (out \o Mask) \o rest
      BY <3>2, TextsJoin, ZenonT(20)
    <3>4. QED
      BY <3>1, <3>3 DEF rest
  <2>8. FlushFirst(at) \in Waiting /\ FlushFirst(at).pending = Marked(K, text, d + m) /\ FlushFirst(at).screen = next
    <3>1. FlushFirst(at) = [pending |-> Marked(K, text, d + m), screen |-> next]
      BY <2>1, <2>2
    <3> HIDE DEF next
    <3>2. QED
      BY <3>1, <2>4, <2>5 DEF Waiting
  <2> HIDE DEF next
  <2>9. Right(K, text, FlushFirst(at), E)
    BY <2>3, <2>5, <2>6, <2>7, <2>8 DEF Right
  <2>10. QED
    BY <2>3, <2>4, <2>8, <2>9, <1>4 DEF pend
<1>13. QED
  BY <1>11, <1>12

\* The places the flush can come to.
RightPlaces(K, text, E) == {at \in Waiting : Right(K, text, at, E)}

\* The flush ends with what is not decided, all the rest being shown.
LEMMA FlushIsRight ==
  ASSUME NEW K, SecretsFit(K), NEW text \in Seq(Bytes), NEW E \in SUBSET Seq(Bytes), NEW u \in Nat,
         Decided(K, text, u, E), NEW pend, NEW sc,
         Right(K, text, [pending |-> pend, screen |-> sc], E)
  PROVE  /\ Right(K, text, Flush(pend, u, sc), E)
         /\ Undecided(Flush(pend, u, sc).pending, u)
<1> DEFINE N == Len(pend)
           V == RightPlaces(K, text, E)
           first == [pending |-> pend, screen |-> sc]
           Turn(v) == IF Undecided(v.pending, u) THEN v ELSE FlushFirst(v)
           G == [p \in (1..N) \X V |-> Turn(p[2])]
           w == CHOOSE f : f =
                  [n \in 0..N |->
                     IF n = 0 THEN [pending |-> pend, screen |-> sc]
                     ELSE IF Undecided(f[n - 1].pending, u) THEN f[n - 1]
                     ELSE FlushFirst(f[n - 1])]
<1>0. N \in Nat /\ first \in V
  <2>1. first \in Waiting /\ first.pending = pend
    BY DEF Right
  <2>2. pend \in Seq(Marks)
    BY <2>1 DEF Waiting
  <2>3. QED
    BY <2>1, <2>2 DEF RightPlaces
<1>1. \A n \in 1..N : \A v \in V : G[<<n, v>>] = Turn(v)
  OBVIOUS
<1>2. ASSUME NEW v \in V
      PROVE  /\ Turn(v) \in V
             /\ Undecided(v.pending, u) => Undecided(Turn(v).pending, u)
             /\ ~Undecided(v.pending, u) => Len(Turn(v).pending) < Len(v.pending)
             /\ Len(v.pending) \in Nat
  <2>0. v.pending \in Seq(Marks) /\ Right(K, text, v, E)
    BY DEF RightPlaces, Waiting
  <2>1. CASE Undecided(v.pending, u)
    BY <2>0, <2>1
  <2>2. CASE ~Undecided(v.pending, u)
    <3>1. Right(K, text, FlushFirst(v), E) /\ Len(FlushFirst(v).pending) < Len(v.pending)
      BY <2>0, <2>2, FlushFirstIsRight
    <3>2. FlushFirst(v) \in V
      BY <3>1 DEF RightPlaces, Right
    <3>3. QED
      BY <2>0, <2>2, <3>1, <3>2
  <2>3. QED
    BY <2>1, <2>2
<1> HIDE DEF G, V, Turn
<1>3. PICK f : f \in RoundsOf(N, V, first, G)
  <2> HIDE DEF N, first
  <2>1. ClosedUnder(N, V, G)
    BY <1>1, <1>2 DEF ClosedUnder
  <2>2. QED
    BY <1>0, <2>1, Rounds
<1>3a. f \in [0..N -> V] /\ f[0] = first /\ \A n \in 1..N : f[n] = G[<<n, f[n - 1]>>]
  BY <1>3 DEF RoundsOf
<1>4. \A n \in 1..N : f[n] = Turn(f[n - 1])
  <2>1. \A n \in 1..N : n - 1 \in 0..N
    BY <1>0
  <2> HIDE DEF N, first
  <2>2. \A n \in 1..N : f[n - 1] \in V
    BY <1>3a, <2>1
  <2>3. QED
    BY <2>2, <1>1, <1>3a
<1>5. f = [n \in 0..N |-> IF n = 0 THEN first ELSE Turn(f[n - 1])]
  <2>1. \A n \in 0..N : n # 0 => n \in 1..N
    BY <1>0
  <2> HIDE DEF N, first
  <2>2. \A n \in 0..N : f[n] = IF n = 0 THEN first ELSE Turn(f[n - 1])
    BY <1>3a, <1>4, <2>1, SMTT(30)
  <2>3. QED
    BY <2>2, <1>3a
<1>6. w = [n \in 0..N |-> IF n = 0 THEN first ELSE Turn(w[n - 1])]
  <2>1. \E x : x = [n \in 0..N |-> IF n = 0 THEN first ELSE Turn(x[n - 1])]
    BY <1>5
  <2>2. QED
    BY <2>1 DEF Turn
<1>7. Flush(pend, u, sc) = w[N]
  BY DEF Flush
<1> HIDE DEF w
<1>8. w[0] = first /\ \A n \in 1..N : w[n] = Turn(w[n - 1])
  <2>1. 0 \in 0..N /\ \A n \in 1..N : n \in 0..N /\ n # 0
    BY <1>0
  <2> HIDE DEF N, first
  <2>2. QED
    BY <1>6, <2>1
<1> DEFINE P == {n \in Nat : n <= N => /\ w[n] \in V
                                       /\ Undecided(w[n].pending, u) \/ Len(w[n].pending) <= N - n}
<1>9. 0 \in P
  <2>1. first.pending = pend
    OBVIOUS
  <2>2. N - 0 = N /\ N <= N
    BY <1>0
  <2>3. w[0] \in V /\ Len(w[0].pending) <= N - 0
    BY <1>0, <1>8, <2>1, <2>2
  <2>4. QED
    BY <2>3
<1>10. ASSUME NEW n \in P PROVE n + 1 \in P
  <2> SUFFICES ASSUME n + 1 <= N
               PROVE  /\ w[n + 1] \in V
                      /\ Undecided(w[n + 1].pending, u) \/ Len(w[n + 1].pending) <= N - (n + 1)
    OBVIOUS
  <2>1. n \in Nat /\ n + 1 \in 1..N /\ (n + 1) - 1 = n /\ n <= N
    BY <1>0
  <2>2. w[n] \in V /\ (Undecided(w[n].pending, u) \/ Len(w[n].pending) <= N - n)
    BY <2>1
  <2>3. w[n + 1] = Turn(w[n])
    BY <2>1, <1>8
  <2> HIDE DEF N, P
  <2>4. CASE Undecided(w[n].pending, u)
    BY <2>2, <2>3, <2>4, <1>2
  <2>5. CASE ~Undecided(w[n].pending, u)
    <3>1. /\ w[n + 1] \in V /\ Len(w[n + 1].pending) < Len(w[n].pending)
          /\ Len(w[n].pending) \in Nat /\ Len(w[n + 1].pending) \in Nat
      BY <2>2, <2>3, <2>5, <1>2
    <3>2. Len(w[n].pending) <= N - n
      BY <2>2, <2>5
    <3>3. Len(w[n + 1].pending) <= N - (n + 1)
      BY <3>1, <3>2, <2>1, <1>0, SMTT(30)
    <3>4. QED
      BY <3>1, <3>3
  <2>6. QED
    BY <2>4, <2>5
<1>11. P \in SUBSET Nat
  OBVIOUS
<1> HIDE DEF P
<1>12. N \in P
  BY <1>9, <1>10, <1>11, <1>0, Induction
<1>13. w[N] \in V /\ (Undecided(w[N].pending, u) \/ Len(w[N].pending) <= N - N)
  BY <1>0, <1>12 DEF P
<1>14. Undecided(w[N].pending, u)
  <2>1. Len(w[N].pending) \in Nat
    BY <1>13, <1>2
  <2>2. Len(w[N].pending) <= N - N => Len(w[N].pending) <= u
    BY <2>1, <1>0
  <2>3. QED
    BY <2>2, <1>13 DEF Undecided
<1>15. Right(K, text, w[N], E)
  BY <1>13 DEF V, RightPlaces
<1>16. QED
  BY <1>7, <1>14, <1>15

-------------------------------------------------------------------------------
(* The marks *)

Begins(a, b) ==
  /\ a \in Seq(Bytes) /\ b \in Seq(Bytes) /\ Len(a) <= Len(b)
  /\ \A j \in 1..Len(a) : b[j] = a[j]

\* An occurrence inside a text is one in every extension of it.
LEMMA OccursInBoth ==
  ASSUME NEW a, NEW b, Begins(a, b), NEW s \in Seq(Bytes), NEW i \in Nat, i # 0
  PROVE  OccursAt(s, a, i) <=> OccursAt(s, b, i) /\ i + Len(s) - 1 <= Len(a)
<1>1. Len(a) \in Nat /\ Len(b) \in Nat /\ Len(a) <= Len(b) /\ Len(s) \in Nat
  BY DEF Begins
<1>2. ASSUME i + Len(s) - 1 <= Len(a), NEW j \in 1..Len(s) PROVE b[i + j - 1] = a[i + j - 1]
  <2>1. i + j - 1 \in 1..Len(a)
    BY <1>1, <1>2
  <2>2. QED
    BY <2>1 DEF Begins
<1>3. i + Len(s) - 1 <= Len(a) => i + Len(s) - 1 <= Len(b)
  BY <1>1
<1>4. QED
  BY <1>2, <1>3 DEF OccursAt

\* An occurrence that goes on to the end of a text, or beyond it, is there the
\* beginning of a secret that the text ends with.
LEMMA OccursAtTheEnd ==
  ASSUME NEW a, NEW b, Begins(a, b), NEW s \in Seq(Bytes), NEW i \in 1..(Len(a) + 1),
         NEW k \in Nat, k = Len(a) + 1 - i, k <= Len(s), OccursAt(s, b, i)
  PROVE  EndsWith(a, s, k)
<1>1. Len(a) \in Nat /\ Len(s) \in Nat /\ k <= Len(a)
  BY DEF Begins
<1>2. ASSUME NEW j \in 1..k PROVE a[Len(a) - k + j] = s[j]
  <2>1. Len(a) - k + j = i + j - 1 /\ i + j - 1 \in 1..Len(a) /\ j \in 1..Len(s)
    BY <1>1
  <2>2. b[i + j - 1] = s[j]
    BY <2>1 DEF OccursAt
  <2>3. a[i + j - 1] = b[i + j - 1]
    BY <2>1 DEF Begins
  <2>4. QED
    BY <2>1, <2>2, <2>3
<1>3. QED
  BY <1>1, <1>2 DEF EndsWith

\* A secret the text ends with occurs there.
LEMMA EndOccurs ==
  ASSUME NEW a \in Seq(Bytes), NEW s \in Seq(Bytes), EndsWith(a, s, Len(s))
  PROVE  OccursAt(s, a, Len(a) + 1 - Len(s))
<1>1. Len(a) \in Nat /\ Len(s) \in Nat /\ Len(s) <= Len(a)
  BY DEF EndsWith
<1>2. (Len(a) + 1 - Len(s)) + Len(s) - 1 <= Len(a)
  BY <1>1
<1>3. ASSUME NEW j \in 1..Len(s) PROVE a[(Len(a) + 1 - Len(s)) + j - 1] = s[j]
  <2>1. (Len(a) + 1 - Len(s)) + j - 1 = Len(a) - Len(s) + j
    BY <1>1
  <2>2. QED
    BY <2>1 DEF EndsWith
<1>4. QED
  BY <1>2, <1>3 DEF OccursAt

-------------------------------------------------------------------------------
(* Marks *)

\* What has been found of the K that end here.
Found(K, text) == {Len(s) : s \in {x \in K : EndsWith(text, x, Len(x))}}

\* The longest secret at a byte, when one more byte has come, is the one known or one that ends now.
LEMMA MarkedLength ==
  ASSUME NEW K, SecretsFit(K), NEW text \in Seq(Bytes), NEW byte \in Bytes,
         NEW d \in 0..Len(text), NEW i \in 1..(Len(text) + 1 - d)
  PROVE  LET more == Append(text, byte)
             old == LongestAt(K, text, d + i)
         IN Biggest({old} \cup {n \in Found(K, more) : i = (Len(text) + 1 - d) - n + 1}) = LongestAt(K, more, d + i)
<1> DEFINE more == Append(text, byte)
           N == Len(text)
           at == d + i
           old == LongestAt(K, text, at)
           m == LongestAt(K, more, at)
           S == {n \in Found(K, more) : i = (N + 1 - d) - n + 1}
<1>1. /\ more \in Seq(Bytes) /\ Len(more) = N + 1 /\ N \in Nat
      /\ at \in 1..(N + 1) /\ at \in 1..(Len(more) + 1) /\ at \in Nat /\ at # 0
      /\ d \in Nat /\ i \in Nat /\ i = at - d
  OBVIOUS
<1>2. Begins(text, more) /\ Begins(more, more)
  BY <1>1 DEF Begins
<1> HIDE DEF more, N, at
<1>3. /\ old \in 0..(N + 1 - at)
      /\ \A s \in K : OccursAt(s, text, at) => Len(s) <= old
      /\ old # 0 => \E s \in K : OccursAt(s, text, at) /\ Len(s) = old
  BY <1>1, LongestAtRule DEF N
<1>4. /\ m \in 0..(N + 2 - at)
      /\ \A s \in K : OccursAt(s, more, at) => Len(s) <= m
      /\ m # 0 => \E s \in K : OccursAt(s, more, at) /\ Len(s) = m
  <2>1. /\ m \in 0..(Len(more) + 1 - at)
        /\ \A s \in K : OccursAt(s, more, at) => Len(s) <= m
        /\ m # 0 => \E s \in K : OccursAt(s, more, at) /\ Len(s) = m
    BY <1>1, LongestAtRule
  <2>2. Len(more) + 1 - at = N + 2 - at
    BY <1>1
  <2>3. QED
    BY <2>1, <2>2
<1> HIDE DEF old, m
<1>5. old <= m
  <2>1. CASE old = 0
    BY <2>1, <1>1, <1>4
  <2>2. CASE old # 0
    <3>1. PICK s \in K : OccursAt(s, text, at) /\ Len(s) = old
      BY <2>2, <1>3
    <3>2. OccursAt(s, more, at)
      <4>1. s \in Seq(Bytes)
        BY DEF SecretsFit
      <4>2. QED
        BY <4>1, <3>1, <1>1, <1>2, OccursInBoth
    <3>3. QED
      BY <3>1, <3>2, <1>4
  <2>3. QED
    BY <2>1, <2>2
<1>6. ASSUME NEW n \in S PROVE n <= m /\ n \in Nat
  <2>1. PICK s \in K : EndsWith(more, s, Len(s)) /\ n = Len(s)
    BY DEF Found
  <2>2. i = (N + 1 - d) - n + 1 /\ s \in Seq(Bytes) /\ n \in Nat
    BY <2>1 DEF SecretsFit
  <2>3. OccursAt(s, more, Len(more) + 1 - Len(s))
    BY <2>1, <2>2, <1>1, EndOccurs
  <2>4. Len(more) + 1 - Len(s) = at
    BY <2>1, <2>2, <1>1
  <2>5. QED
    BY <2>1, <2>2, <2>3, <2>4, <1>4
<1>7. m = 0 \/ m \in {old} \cup S
  <2> SUFFICES ASSUME m # 0 PROVE m = old \/ m \in S
    OBVIOUS
  <2>1. PICK s \in K : OccursAt(s, more, at) /\ Len(s) = m
    BY <1>4
  <2>2. s \in Seq(Bytes) /\ m \in Nat /\ old \in Nat
    BY <1>1, <1>3, <2>1 DEF SecretsFit
  <2>3. CASE at + m - 1 <= N
    <3>1. OccursAt(s, text, at)
      BY <2>1, <2>2, <2>3, <1>1, <1>2, OccursInBoth DEF N
    <3>2. m <= old
      BY <3>1, <2>1, <1>3
    <3>3. QED
      BY <3>2, <2>2, <1>5
  <2>4. CASE ~(at + m - 1 <= N)
    <3>1. m = N + 2 - at
      BY <2>4, <2>2, <1>1, <1>4
    <3>2. m = Len(more) + 1 - at /\ m <= Len(s)
      BY <3>1, <2>1, <2>2, <1>1
    <3>3. EndsWith(more, s, m)
      BY <3>2, <2>1, <2>2, <1>1, <1>2, OccursAtTheEnd
    <3>4. m \in Found(K, more)
      BY <3>3, <2>1 DEF Found
    <3>5. i = (N + 1 - d) - m + 1
      BY <3>1, <1>1
    <3>6. QED
      BY <3>4, <3>5
  <2>5. QED
    BY <2>3, <2>4
<1>8. {old} \cup S \in SUBSET Nat /\ \A n \in {old} \cup S : n <= m
  BY <1>1, <1>3, <1>5, <1>6, SMTT(30)
<1>9. m \in Nat
  BY <1>1, <1>4
<1> HIDE DEF S
<1>10. Biggest({old} \cup S) = m
  BY <1>7, <1>8, <1>9, BiggestIs
<1>11. QED
  BY <1>10 DEF S, m, old, at, more, N

\* feed marks every pending byte with the longest secret that starts there.
LEMMA MarkIsRight ==
  ASSUME NEW K, SecretsFit(K), NEW text \in Seq(Bytes), NEW byte \in Bytes, NEW d \in 0..Len(text)
  PROVE  Mark(Append(Marked(K, text, d), [byte |-> byte, length |-> 0]), Found(K, Append(text, byte)))
           = Marked(K, Append(text, byte), d)
<1> DEFINE more == Append(text, byte)
           N == Len(text)
           n == N + 1 - d
           mark == [byte |-> byte, length |-> 0]
           old == Marked(K, text, d)
           pend == Append(old, mark)
           bigger(i) == Biggest({pend[i].length} \cup {k \in Found(K, more) : i = Len(pend) - k + 1})
<1>1. /\ more \in Seq(Bytes) /\ Len(more) = N + 1 /\ N \in Nat /\ n \in Nat /\ n # 0
      /\ more[N + 1] = byte /\ \A j \in 1..N : more[j] = text[j]
  OBVIOUS
<1>2. /\ old \in Seq(Marks) /\ Len(old) = N - d
      /\ \A i \in 1..(N - d) : old[i] = [byte |-> text[d + i], length |-> LongestAt(K, text, d + i)]
  BY MarkedRule
<1> HIDE DEF old
<1>3. /\ DOMAIN pend = 1..n /\ Len(pend) = n /\ pend[n] = mark
      /\ \A i \in 1..(N - d) : pend[i] = old[i]
  <2>1. mark \in Marks
    BY DEF Marks
  <2>2. Len(old) + 1 = n
    BY <1>1, <1>2
  <2> HIDE DEF n, mark, N
  <2>3. /\ DOMAIN pend = 1..(Len(old) + 1) /\ Len(pend) = Len(old) + 1 /\ pend[Len(old) + 1] = mark
        /\ \A i \in 1..Len(old) : pend[i] = old[i]
    <3>1. pend \in Seq(Marks) /\ Len(pend) = Len(old) + 1
      BY <1>2, <2>1
    <3>2. pend[Len(old) + 1] = mark /\ \A i \in 1..Len(old) : pend[i] = old[i]
      BY <1>2, <2>1
    <3> HIDE DEF pend
    <3>3. DOMAIN pend = 1..Len(pend)
      BY <3>1
    <3>4. QED
      BY <3>1, <3>2, <3>3
  <2>4. DOMAIN pend = 1..n /\ Len(pend) = n /\ pend[n] = mark
    BY <2>2, <2>3
  <2>5. \A i \in 1..(N - d) : pend[i] = old[i]
    BY <1>2, <2>3
  <2>6. QED
    BY <2>4, <2>5
<1> HIDE DEF pend
<1>4. ASSUME NEW i \in 1..n PROVE pend[i] = [byte |-> more[d + i], length |-> LongestAt(K, text, d + i)]
  <2>1. CASE i = n
    <3>1. d + i = N + 1 /\ d + i \in 1..(N + 1)
      BY <2>1, <1>1
    <3>2. LongestAt(K, text, d + i) = 0
      <4>1. LongestAt(K, text, d + i) \in 0..(N + 1 - (d + i))
        BY <3>1, LongestAtRule
      <4>2. QED
        BY <4>1, <3>1
    <3>3. QED
      BY <2>1, <3>1, <3>2, <1>1, <1>3
  <2>2. CASE i # n
    <3>1. i \in 1..(N - d) /\ d + i \in 1..N
      BY <2>2, <1>1
    <3>2. pend[i] = [byte |-> text[d + i], length |-> LongestAt(K, text, d + i)]
      BY <3>1, <1>2, <1>3
    <3>3. more[d + i] = text[d + i]
      BY <3>1, <1>1
    <3>4. QED
      BY <3>2, <3>3
  <2>3. QED
    BY <2>1, <2>2
<1>5. ASSUME NEW i \in 1..n PROVE bigger(i) = LongestAt(K, more, d + i)
  <2>1. pend[i].length = LongestAt(K, text, d + i)
    <3>1. pend[i] = [byte |-> more[d + i], length |-> LongestAt(K, text, d + i)]
      BY <1>4
    <3> HIDE DEF more, n, bigger
    <3>2. QED
      BY <3>1
  <2>2. Biggest({LongestAt(K, text, d + i)} \cup {k \in Found(K, more) : i = n - k + 1}) = LongestAt(K, more, d + i)
    BY MarkedLength
  <2> HIDE DEF n, more
  <2>3. {k \in Found(K, more) : i = Len(pend) - k + 1} = {k \in Found(K, more) : i = n - k + 1}
    BY <1>3
  <2>4. QED
    BY <2>1, <2>2, <2>3
<1>6. Mark(pend, Found(K, more)) = [i \in 1..n |-> [pend[i] EXCEPT !.length = bigger(i)]]
  BY <1>3 DEF Mark
<1>7. ASSUME NEW i \in 1..n
      PROVE  [pend[i] EXCEPT !.length = bigger(i)] = [byte |-> more[d + i], length |-> LongestAt(K, more, d + i)]
  <2> DEFINE x == LongestAt(K, text, d + i)
             y == LongestAt(K, more, d + i)
             b == more[d + i]
  <2>1. pend[i] = [byte |-> b, length |-> x] /\ bigger(i) = y
    BY <1>4, <1>5
  <2> HIDE DEF x, y, b, bigger
  <2>2. [[byte |-> b, length |-> x] EXCEPT !.length = y] = [byte |-> b, length |-> y]
    OBVIOUS
  <2>3. QED
    BY <2>1, <2>2 DEF y, b
<1>8. Marked(K, more, d) = [i \in 1..n |-> [byte |-> more[d + i], length |-> LongestAt(K, more, d + i)]]
  BY <1>1 DEF Marked
<1>9. Mark(pend, Found(K, more)) = Marked(K, more, d)
  <2> HIDE DEF more, n, bigger
  <2>1. QED
    BY <1>6, <1>7, <1>8
<1>10. QED
  BY <1>9 DEF pend, old

-------------------------------------------------------------------------------
(* What is decided *)

\* Where more has come than any cursor is on, every secret that starts there
\* has come as a whole.
LEMMA CursorsDecide ==
  ASSUME NEW K, SecretsFit(K), NEW text \in Seq(Bytes), NEW u \in Nat,
         \A s \in K : \A k \in 0..(Len(s) - 1) : EndsWith(text, s, k) => k <= u
  PROVE  Decided(K, text, u, Seq(Bytes))
<1> SUFFICES ASSUME NEW ext \in Seq(Bytes), NEW d \in 0..Len(text), Len(text) - d > u
             PROVE  LongestAt(K, text \o ext, d + 1) = LongestAt(K, text, d + 1)
  BY DEF Decided
<1> DEFINE all == text \o ext
           N == Len(text)
           at == d + 1
           m == LongestAt(K, text, at)
<1>1. all \in Seq(Bytes) /\ N \in Nat /\ Begins(text, all)
  BY DEF Begins
<1>2. at \in 1..(N + 1) /\ at \in Nat /\ at # 0 /\ N + 1 - at = N - d /\ N - d \in Nat
  OBVIOUS
<1> HIDE DEF all, at
<1>3. /\ m \in 0..(N + 1 - at)
      /\ \A s \in K : OccursAt(s, text, at) => Len(s) <= m
      /\ m # 0 => \E s \in K : OccursAt(s, text, at) /\ Len(s) = m
  BY <1>2, LongestAtRule
<1>4. \A s \in K : s \in Seq(Bytes) /\ Len(s) \in Nat
  BY DEF SecretsFit
<1> HIDE DEF m
<1>5. ASSUME NEW s \in K, OccursAt(s, all, at) PROVE Len(s) <= m
  <2>1. CASE at + Len(s) - 1 <= N
    <3>1. OccursAt(s, text, at)
      BY <2>1, <1>1, <1>2, <1>4, <1>5, OccursInBoth
    <3>2. QED
      BY <3>1, <1>3
  <2>2. CASE ~(at + Len(s) - 1 <= N)
    <3>1. N - d <= Len(s) /\ N - d \in 0..(Len(s) - 1)
      BY <2>2, <1>2, <1>4
    <3>2. EndsWith(text, s, N - d)
      BY <3>1, <1>1, <1>2, <1>4, <1>5, OccursAtTheEnd
    <3>3. N - d <= u
      BY <3>1, <3>2
    <3>4. QED
      BY <3>3, <1>2
  <2>3. QED
    BY <2>1, <2>2
<1>6. m # 0 => \E s \in K : OccursAt(s, all, at) /\ Len(s) = m
  <2> SUFFICES ASSUME m # 0 PROVE \E s \in K : OccursAt(s, all, at) /\ Len(s) = m
    OBVIOUS
  <2>1. PICK s \in K : OccursAt(s, text, at) /\ Len(s) = m
    BY <1>3
  <2>2. OccursAt(s, all, at)
    BY <2>1, <1>1, <1>2, <1>4, OccursInBoth
  <2>3. QED
    BY <2>1, <2>2
<1>7. m \in Nat
  BY <1>2, <1>3
<1>8. LongestAt(K, all, at) = m
  BY <1>5, <1>6, <1>7, LongestAtIs
<1>9. QED
  BY <1>8 DEF m, all, at

\* When the pipe is closed, everything is decided.
LEMMA EndDecides ==
  ASSUME NEW K, NEW text \in Seq(Bytes), NEW u
  PROVE  Decided(K, text, u, {<<>>})
<1>1. text \o <<>> = text
  BY ConcatEmptySeq
<1>2. QED
  BY <1>1 DEF Decided

-------------------------------------------------------------------------------
(* The end of the pipe *)

\* What is shown of a whole log that has all these lines.
Outcome(sc, all) ==
  LET short == Shortened(all)
      newest(n) == SubSeq(short, Len(short) - n + 1, Len(short))
      kept == Biggest({n \in 0..Len(short) : n <= LogLines /\ Weight(newest(n)) <= LogBytes})
  IN /\ sc.lines = newest(kept)
     /\ sc.dropped = Len(short) - kept
     /\ sc.truncated = Cardinality({n \in DOMAIN all : Len(all[n]) > LineBytes})

\* A right ring is what the property asks for.
LEMMA RingIsOutcome ==
  ASSUME NEW sc, NEW all \in Seq(Seq(Chars)), Ring(sc, all)
  PROVE  Outcome(sc, all)
<1> DEFINE short == Shortened(all)
           S == {n \in 0..Len(short) : n <= LogLines /\ Weight(Newest(short, n)) <= LogBytes}
<1>1. PICK k : /\ MostKept(short, k)
               /\ sc.lines = Newest(short, k)
               /\ sc.dropped = Len(all) - k
               /\ sc.truncated = Cardinality(TooLong(all))
  BY DEF Ring
<1>2. short \in Seq(Seq(Chars)) /\ Len(short) = Len(all) /\ Len(all) \in Nat
  <2>1. <<>> \in Seq(Chars) /\ Len(all) \in Nat
    OBVIOUS
  <2>2. Shortened(all) \in Seq(Seq(Chars)) /\ Len(Shortened(all)) = Len(all)
    BY <2>1, ShortenedRule
  <2>3. QED
    BY <2>1, <2>2
<1> HIDE DEF short
<1>3. \A n \in 0..Len(short) : Len(Newest(short, n)) = n
  BY <1>2, NewestRule
<1>4. \A n \in 0..Len(short) : Fits(Newest(short, n)) <=> n \in S
  BY <1>3 DEF Fits
<1>5. k \in S /\ (\A n \in S : n <= k) /\ k \in Nat /\ S \in SUBSET Nat
  BY <1>1, <1>2, <1>4 DEF MostKept
<1> HIDE DEF S
<1>6. Biggest(S) = k
  BY <1>5, BiggestIs
<1>7. Outcome(sc, all) <=>
        /\ sc.lines = Newest(short, Biggest(S))
        /\ sc.dropped = Len(short) - Biggest(S)
        /\ sc.truncated = Cardinality(TooLong(all))
  BY DEF Outcome, Newest, TooLong, S, short
<1>8. QED
  BY <1>1, <1>2, <1>6, <1>7

\* The line that is written when the pipe is closed counts if there is anything in it.
LEMMA LastLineIsRight ==
  ASSUME NEW sc \in Screens, NEW out \in Seq(Chars), Shown(sc, out)
  PROVE  LET last == IF sc.line # <<>> \/ sc.cut THEN FinishLine(sc) ELSE sc
         IN last \in Screens /\ Outcome(last, LinesOf(out))
<1> DEFINE split == SplitText(out)
           last == IF sc.line # <<>> \/ sc.cut THEN FinishLine(sc) ELSE sc
<1>0. <<>> \in Seq(Chars) /\ LineBytes \in Nat
  BY DecoderAssumption DEF DecoderConstants
<1>1. split \in Splits(Chars)
  <2>1. PICK c : c \in Chars
    BY DEF Chars
  <2>2. QED
    BY <2>1, SplitAppend
<1>2. LinesOf(out) = IF split.rest = <<>> THEN split.lines ELSE Append(split.lines, split.rest)
  BY DEF LinesOf
<1>3. Holds(sc, split.rest) /\ Ring(sc, split.lines)
  BY DEF Shown
<1> HIDE DEF split
<1>4. split.lines \in Seq(Seq(Chars)) /\ split.rest \in Seq(Chars)
  BY <1>1 DEF Splits
<1>5. CASE split.rest = <<>>
  <2>1. sc.line = <<>> /\ sc.cut = FALSE
    BY <1>3, <1>5, ShortOfNothing DEF Holds
  <2>2. last = sc
    BY <2>1
  <2> HIDE DEF last
  <2>3. QED
    BY <2>2, <1>2, <1>3, <1>4, <1>5, RingIsOutcome DEF last
<1>6. CASE split.rest # <<>>
  <2>1. sc.line # <<>> \/ sc.cut
    <3>1. sc.line = Short(split.rest) /\ sc.cut = (Len(split.rest) > LineBytes)
      BY <1>3 DEF Holds
    <3>2. Len(split.rest) \in Nat /\ Len(split.rest) # 0
      BY <1>4, <1>6, EmptySeq
    <3>3. CASE Len(split.rest) > LineBytes
      BY <3>1, <3>3
    <3>4. CASE ~(Len(split.rest) > LineBytes)
      <4>1. SubSeq(split.rest, 1, Len(split.rest)) = split.rest
        BY <1>4, SubSeqFull
      <4>2. Short(split.rest) = split.rest
        BY <4>1, <3>4 DEF Short
      <4>3. QED
        BY <4>2, <3>1, <1>6
    <3>5. QED
      BY <3>3, <3>4
  <2>2. last = FinishLine(sc)
    BY <2>1
  <2>3. FinishLine(sc) \in Screens /\ Ring(FinishLine(sc), Append(split.lines, split.rest))
    BY <1>3, <1>4, FinishLineIsRight
  <2>4. Append(split.lines, split.rest) \in Seq(Seq(Chars))
    BY <1>4
  <2>5. Outcome(FinishLine(sc), Append(split.lines, split.rest))
    BY <2>3, <2>4, RingIsOutcome
  <2> HIDE DEF last
  <2>6. QED
    BY <2>2, <2>3, <2>5, <1>2, <1>6 DEF last
<1>7. QED
  BY <1>5, <1>6

-------------------------------------------------------------------------------
(* The invariant *)

Current == [pending |-> pending, screen |-> screen]
Largest(K, cursor) == Biggest({cursor[s] : s \in K})

DecoderTypeOK ==
  /\ secrets \in SecretSets
  /\ matched \in [secrets -> Nat]
  /\ pending \in Seq(Marks)
  /\ screen \in Screens
  /\ raw \in Seq(Bytes)
  /\ ended \in BOOLEAN

\* Every cursor is on the longest proper beginning the text ends with.
RightCursors(K, text, cursor) == \A s \in K : RightCursor(text, s, cursor[s])

CursorsRight == RightCursors(secrets, raw, matched)
PendingRight == ~ended => Right(secrets, raw, Current, Seq(Bytes))
NothingNeedless == ~ended => Undecided(pending, Largest(secrets, matched))

DecoderInv ==
  /\ DecoderTypeOK
  /\ CursorsRight
  /\ PendingRight
  /\ NothingNeedless
  /\ ShowsTheMaskedText

\* The sets of secrets are sets of texts that are not empty.
LEMMA SecretSetsFit ==
  ASSUME NEW K \in SecretSets
  PROVE  SecretsFit(K)
BY DecoderAssumption DEF DecoderConstants, SecretsFit

\* A cursor is a number, and no cursor is past the largest.
LEMMA CursorBound ==
  ASSUME NEW K, NEW text \in Seq(Bytes), NEW cursor, RightCursors(K, text, cursor)
  PROVE  /\ Largest(K, cursor) \in Nat
         /\ \A s \in K : cursor[s] \in Nat /\ cursor[s] <= Largest(K, cursor)
         /\ Largest(K, cursor) # 0 => \E s \in K : cursor[s] = Largest(K, cursor)
<1> DEFINE S == {cursor[s] : s \in K}
<1>1. Len(text) \in Nat
  OBVIOUS
<1>2. ASSUME NEW s \in K PROVE cursor[s] \in 0..Len(text)
  <2>1. cursor[s] \in 0..(Len(s) - 1) /\ cursor[s] <= Len(text)
    BY DEF RightCursors, RightCursor, LongestEnd, EndsWith
  <2>2. QED
    BY <2>1, <1>1
<1>3. S \in SUBSET (0..Len(text))
  BY <1>2
<1>4. (\A s \in K : cursor[s] \in S) /\ \A n \in S : \E s \in K : cursor[s] = n
  OBVIOUS
<1> HIDE DEF S
<1>5. /\ Biggest(S) \in 0..Len(text)
      /\ S # {} => Biggest(S) \in S
      /\ \A n \in S : n <= Biggest(S)
  BY <1>1, <1>3, BiggestRule
<1>6. Biggest(S) # 0 => S # {}
  BY DEF Biggest
<1>7. Biggest(S) \in Nat
  BY <1>1, <1>5
<1>8. \A s \in K : cursor[s] \in Nat /\ cursor[s] <= Biggest(S)
  BY <1>1, <1>2, <1>4, <1>5
<1>9. Biggest(S) # 0 => \E s \in K : cursor[s] = Biggest(S)
  BY <1>4, <1>5, <1>6
<1>10. QED
  BY <1>7, <1>8, <1>9 DEF S, Largest

-------------------------------------------------------------------------------
(* The steps of the decoder *)

\* A new decoder is right.
LEMMA DecoderStarts ==
  ASSUME DecoderInit
  PROVE  DecoderInv
<1>1. /\ secrets \in SecretSets /\ matched = [s \in secrets |-> 0] /\ pending = <<>>
      /\ screen = EmptyScreen /\ raw = <<>> /\ ended = FALSE
  BY DEF DecoderInit
<1>2. SecretsFit(secrets)
  BY <1>1, SecretSetsFit
<1>3. raw \in Seq(Bytes) /\ Len(raw) = 0 /\ screen \in Screens /\ Shown(screen, <<>>)
  BY <1>1, EmptyIsShown
<1>4. DecoderTypeOK
  <2>1. matched \in [secrets -> Nat] /\ <<>> \in Seq(Marks)
    BY <1>1
  <2>2. QED
    BY <2>1, <1>1, <1>3 DEF DecoderTypeOK
<1>5. CursorsRight
  <2> SUFFICES ASSUME NEW s \in secrets PROVE RightCursor(raw, s, matched[s])
    BY DEF CursorsRight, RightCursors
  <2>1. Len(s) \in Nat /\ Len(s) # 0
    <3>1. s \in Seq(Bytes) /\ s # <<>>
      BY <1>2 DEF SecretsFit
    <3>2. QED
      BY <3>1, EmptySeq
  <2>2. matched[s] = 0 /\ 0 \in 0..(Len(s) - 1)
    BY <1>1, <2>1
  <2>3. EndsWith(raw, s, 0)
    BY <1>3, EndsWithNothing
  <2>4. \A k \in 0..(Len(s) - 1) : EndsWith(raw, s, k) => k <= 0
    BY <1>3, <2>1 DEF EndsWith
  <2>5. QED
    BY <2>2, <2>3, <2>4 DEF RightCursor, LongestEnd
<1>6. PendingRight
  <2>1. 0 \in 0..Len(raw)
    BY <1>3
  <2>2. Marked(secrets, raw, 0) = <<>>
    <3>1. Marked(secrets, raw, 0) \in Seq(Marks) /\ Len(Marked(secrets, raw, 0)) = Len(raw) - 0
      BY <1>2, <1>3, <2>1, MarkedRule
    <3>2. Len(Marked(secrets, raw, 0)) = 0
      BY <3>1, <1>3
    <3> HIDE <1>1
    <3>3. QED
      BY <3>1, <3>2, EmptySeq
  <2>3. <<>> \in Seq(Chars)
    OBVIOUS
  <2>4. Settled(secrets, raw, <<>>, 0, Seq(Bytes))
    <3> SUFFICES ASSUME NEW ext \in Seq(Bytes)
                 PROVE  MaskedText(secrets, raw \o ext) = <<>> \o From(secrets, raw \o ext)[0 + 1]
      BY DEF Settled
    <3> DEFINE all == raw \o ext
    <3>1. all \in Seq(Bytes) /\ 1 \in 1..(Len(all) + 1)
      BY <1>3
    <3> HIDE DEF all
    <3>2. MaskedText(secrets, all) = From(secrets, all)[1] /\ From(secrets, all)[1] \in Seq(Chars)
      BY <3>1, <1>2, FromRule
    <3>3. <<>> \o From(secrets, all)[1] = From(secrets, all)[1] /\ 0 + 1 = 1
      BY <3>2, ConcatEmptySeq
    <3>4. QED
      BY <3>2, <3>3 DEF all
  <2>5. Current \in Waiting /\ Current.pending = <<>> /\ Current.screen = screen
    BY <1>1, <1>3 DEF Current, Waiting
  <2>6. Right(secrets, raw, Current, Seq(Bytes))
    BY <2>1, <2>2, <2>3, <2>4, <2>5, <1>3 DEF Right
  <2>7. QED
    BY <2>6 DEF PendingRight
<1>7. NothingNeedless
  <2>1. Largest(secrets, matched) \in Nat
    BY <1>3, <1>5, CursorBound DEF CursorsRight
  <2>2. Len(<<>>) = 0
    OBVIOUS
  <2>3. QED
    BY <2>1, <2>2, <1>1 DEF NothingNeedless, Undecided
<1>8. ShowsTheMaskedText
  BY <1>1 DEF ShowsTheMaskedText
<1>9. QED
  BY <1>4, <1>5, <1>6, <1>7, <1>8 DEF DecoderInv

\* feed keeps the decoder right.
LEMMA FeedKeeps ==
  ASSUME DecoderInv, NEW byte \in Bytes, Feed(byte)
  PROVE  DecoderInv'
<1> DEFINE K == secrets
           more == Append(raw, byte)
           extended == [s \in secrets |-> Extended(s, matched[s], byte)]
           found == {Len(s) : s \in {x \in secrets : extended[x] = Len(x)}}
           pend == Mark(Append(pending, [byte |-> byte, length |-> 0]), found)
           u == Largest(secrets, matched')
           flushed == Flush(pend, u, screen)
<1>1. /\ secrets' = secrets /\ ended = FALSE /\ ended' = FALSE /\ raw' = more
      /\ matched' = [s \in secrets |-> Resume(s, extended[s])]
      /\ pending' = flushed.pending /\ screen' = flushed.screen
  BY DEF Feed, DecoderInv, DecoderTypeOK, Largest
<1>2. secrets \in SecretSets /\ SecretsFit(secrets) /\ raw \in Seq(Bytes) /\ screen \in Screens
  BY SecretSetsFit DEF DecoderInv, DecoderTypeOK
<1>3. more \in Seq(Bytes) /\ Len(more) = Len(raw) + 1 /\ Len(raw) \in Nat
  BY <1>2
<1>4. ASSUME NEW s \in secrets
      PROVE  /\ extended[s] = Len(s) <=> EndsWith(more, s, Len(s))
             /\ RightCursor(more, s, matched'[s])
  <2>1. s \in Seq(Bytes) /\ s # <<>>
    BY <1>2 DEF SecretsFit
  <2>2. RightCursor(raw, s, matched[s])
    BY DEF DecoderInv, CursorsRight, RightCursors
  <2>3. /\ Extended(s, matched[s], byte) = Len(s) <=> EndsWith(Append(raw, byte), s, Len(s))
        /\ RightCursor(Append(raw, byte), s, Resume(s, Extended(s, matched[s], byte)))
    BY <2>1, <2>2, <1>2, CursorIsRight
  <2>4. extended[s] = Extended(s, matched[s], byte)
    OBVIOUS
  <2> HIDE DEF extended
  <2>5. matched'[s] = Resume(s, extended[s])
    BY <1>1
  <2>6. QED
    BY <2>3, <2>4, <2>5
<1>5. found = Found(secrets, more)
  BY <1>4 DEF Found
<1> HIDE DEF extended, found, pend, flushed, u
<1>6. /\ u \in Nat
      /\ \A s \in secrets : matched'[s] \in Nat /\ matched'[s] <= u
  <2>1. RightCursors(secrets, more, matched')
    BY <1>4 DEF RightCursors
  <2> HIDE DEF more
  <2>2. QED
    BY <2>1, <1>3, CursorBound DEF u
<1>7. Decided(secrets, more, u, Seq(Bytes))
  <2>1. ASSUME NEW s \in secrets, NEW k \in 0..(Len(s) - 1), EndsWith(more, s, k)
        PROVE  k <= u
    <3>1. k <= matched'[s]
      BY <2>1, <1>4 DEF RightCursor, LongestEnd
    <3>2. matched'[s] \in Nat /\ matched'[s] <= u /\ u \in Nat
      BY <1>6
    <3>3. QED
      BY <3>1, <3>2
  <2> HIDE DEF more
  <2>2. QED
    BY <2>1, <1>2, <1>3, <1>6, CursorsDecide
<1>8. PICK d \in 0..Len(raw) :
        /\ pending = Marked(secrets, raw, d)
        /\ \E out \in Seq(Chars) : Shown(screen, out) /\ Settled(secrets, raw, out, d, Seq(Bytes))
  <2>1. Right(secrets, raw, Current, Seq(Bytes))
    BY <1>1 DEF DecoderInv, PendingRight
  <2>2. Current.pending = pending /\ Current.screen = screen
    BY DEF Current
  <2>3. QED
    BY <2>1, <2>2 DEF Right
<1>9. PICK out \in Seq(Chars) : Shown(screen, out) /\ Settled(secrets, raw, out, d, Seq(Bytes))
  BY <1>8
<1>10. pend = Marked(secrets, more, d)
  BY <1>2, <1>5, <1>8, MarkIsRight DEF pend
<1>11. Settled(secrets, more, out, d, Seq(Bytes))
  <2> SUFFICES ASSUME NEW ext \in Seq(Bytes)
               PROVE  MaskedText(secrets, more \o ext) = out \o From(secrets, more \o ext)[d + 1]
    BY DEF Settled
  <2>1. <<byte>> \o ext \in Seq(Bytes)
    OBVIOUS
  <2>2. more \o ext = raw \o (<<byte>> \o ext)
    <3>1. more = raw \o <<byte>> /\ <<byte>> \in Seq(Bytes)
      BY <1>2
    <3>2. (raw \o <<byte>>) \o ext = raw \o (<<byte>> \o ext)
      BY <3>1, <1>2
    <3>3. QED
      BY <3>1, <3>2
  <2>3. QED
    BY <2>1, <2>2, <1>9 DEF Settled
<1>12. Right(secrets, more, [pending |-> pend, screen |-> screen], Seq(Bytes))
  <2>1. d \in 0..Len(more)
    BY <1>3
  <2> HIDE DEF more
  <2>2. pend \in Seq(Marks)
    BY <2>1, <1>2, <1>3, <1>10, MarkedRule
  <2>3. [pending |-> pend, screen |-> screen] \in Waiting
    BY <2>2, <1>2 DEF Waiting
  <2>4. QED
    BY <2>1, <2>3, <1>9, <1>10, <1>11 DEF Right
<1>13. /\ Right(secrets, more, flushed, Seq(Bytes))
       /\ Undecided(flushed.pending, u)
  <2> HIDE DEF more
  <2>1. QED
    BY <1>2, <1>3, <1>6, <1>7, <1>12, FlushIsRight DEF flushed
<1> HIDE DEF more
<1>14. flushed \in Waiting /\ flushed = [pending |-> pending', screen |-> screen']
  <2>1. flushed \in Waiting
    BY <1>13 DEF Right
  <2>2. flushed = [pending |-> flushed.pending, screen |-> flushed.screen]
    BY <2>1 DEF Waiting
  <2>3. QED
    BY <2>1, <2>2, <1>1
<1>15. DecoderTypeOK'
  <2>1. pending' \in Seq(Marks) /\ screen' \in Screens
    BY <1>14 DEF Waiting
  <2>2. matched' \in [secrets -> Nat]
    BY <1>1, <1>6
  <2>3. QED
    BY <2>1, <2>2, <1>1, <1>2, <1>3 DEF DecoderTypeOK
<1>16. CursorsRight'
  BY <1>1, <1>4 DEF CursorsRight, RightCursors
<1>17. PendingRight'
  BY <1>1, <1>13, <1>14 DEF PendingRight, Current
<1>18. NothingNeedless'
  BY <1>1, <1>13 DEF NothingNeedless, u
<1>19. ShowsTheMaskedText'
  BY <1>1 DEF ShowsTheMaskedText
<1>20. QED
  BY <1>15, <1>16, <1>17, <1>18, <1>19 DEF DecoderInv

\* The end of the pipe leaves the whole masked text on the screen.
LEMMA EndKeeps ==
  ASSUME DecoderInv, End
  PROVE  DecoderInv'
<1> DEFINE flushed == Flush(pending, 0, screen)
           sc == flushed.screen
           last == IF sc.line # <<>> \/ sc.cut THEN FinishLine(sc) ELSE sc
<1>1. /\ secrets' = secrets /\ matched' = matched /\ raw' = raw
      /\ ended = FALSE /\ ended' = TRUE
      /\ pending' = flushed.pending /\ screen' = last
  BY DEF End, DecoderInv, DecoderTypeOK
<1>2. secrets \in SecretSets /\ SecretsFit(secrets) /\ raw \in Seq(Bytes) /\ Len(raw) \in Nat
  BY SecretSetsFit DEF DecoderInv, DecoderTypeOK
<1>3. Right(secrets, raw, [pending |-> pending, screen |-> screen], {<<>>})
  <2>1. Right(secrets, raw, Current, Seq(Bytes))
    BY <1>1 DEF DecoderInv, PendingRight
  <2>2. <<>> \in Seq(Bytes)
    OBVIOUS
  <2>3. QED
    BY <2>1, <2>2 DEF Right, Settled, Current
<1>4. Decided(secrets, raw, 0, {<<>>})
  BY <1>2, EndDecides
<1>5. Right(secrets, raw, flushed, {<<>>}) /\ Undecided(flushed.pending, 0)
  <2>1. {<<>>} \in SUBSET Seq(Bytes) /\ 0 \in Nat
    OBVIOUS
  <2>2. QED
    BY <2>1, <1>2, <1>3, <1>4, FlushIsRight
<1> HIDE DEF flushed
<1>6. PICK d \in 0..Len(raw) :
        /\ flushed.pending = Marked(secrets, raw, d)
        /\ \E out \in Seq(Chars) : Shown(sc, out) /\ Settled(secrets, raw, out, d, {<<>>})
  BY <1>5 DEF Right
<1>7. PICK out \in Seq(Chars) : Shown(sc, out) /\ Settled(secrets, raw, out, d, {<<>>})
  BY <1>6
<1>8. flushed.pending \in Seq(Marks) /\ sc \in Screens
  BY <1>5 DEF Right, Waiting
<1>9. d = Len(raw)
  <2>1. Len(flushed.pending) = Len(raw) - d
    BY <1>2, <1>6, MarkedRule
  <2>2. QED
    BY <2>1, <1>2, <1>5 DEF Undecided
<1>10. MaskedText(secrets, raw) = out
  <2>1. raw \o <<>> = raw
    BY <1>2, ConcatEmptySeq
  <2>2. MaskedText(secrets, raw \o <<>>) = out \o From(secrets, raw \o <<>>)[d + 1]
    BY <1>7 DEF Settled
  <2>3. From(secrets, raw)[d + 1] = <<>>
    BY <1>2, <1>9, FromRule
  <2>4. out \o <<>> = out
    BY ConcatEmptySeq
  <2>5. QED
    BY <2>1, <2>2, <2>3, <2>4
<1>11. last \in Screens /\ Outcome(last, LinesOf(out))
  <2> HIDE DEF sc
  <2>1. QED
    BY <1>7, <1>8, LastLineIsRight
<1> HIDE DEF last, sc
<1>12. DecoderTypeOK'
  BY <1>1, <1>8, <1>11 DEF DecoderInv, DecoderTypeOK
<1>13. CursorsRight'
  BY <1>1 DEF DecoderInv, CursorsRight
<1>14. PendingRight' /\ NothingNeedless'
  BY <1>1 DEF PendingRight, NothingNeedless
<1>15. ShowsTheMaskedText'
  <2>1. Outcome(screen', LinesOf(MaskedText(secrets', raw')))
    BY <1>1, <1>10, <1>11
  <2>2. QED
    BY <2>1 DEF ShowsTheMaskedText, Outcome
<1>16. QED
  BY <1>12, <1>13, <1>14, <1>15 DEF DecoderInv

\* Every reachable decoder satisfies the invariant, for every set of secrets,
\* every text and all budgets.
THEOREM DecoderInvariant == DecoderSpec => []DecoderInv
<1>1. DecoderInit => DecoderInv
  BY DecoderStarts
<1>2. DecoderInv /\ [DecoderNext]_decoderVars => DecoderInv'
  <2> SUFFICES ASSUME DecoderInv, [DecoderNext]_decoderVars PROVE DecoderInv'
    OBVIOUS
  <2>1. CASE End
    BY <2>1, EndKeeps
  <2>2. CASE \E byte \in Bytes : Feed(byte)
    BY <2>2, FeedKeeps
  <2>3. CASE UNCHANGED decoderVars
    BY <2>3 DEF decoderVars, DecoderInv, DecoderTypeOK, CursorsRight, PendingRight, Current,
                NothingNeedless, ShowsTheMaskedText
  <2>4. QED
    BY <2>1, <2>2, <2>3 DEF DecoderNext
<1>3. QED
  BY <1>1, <1>2, PTL DEF DecoderSpec

\* The parts of the decoder keep their types.
THEOREM DecoderTypeCorrect == DecoderSpec => []DecoderTypeOK
<1>1. DecoderInv => DecoderTypeOK
  BY DEF DecoderInv
<1>2. QED
  BY <1>1, DecoderInvariant, PTL

\* Whatever the secrets, the text and the budgets are, the closed log shows the
\* newest lines of the leftmost-longest masking of the text, and no part of a
\* secret.
THEOREM DecoderShows == DecoderSpec => []ShowsTheMaskedText
<1>1. DecoderInv => ShowsTheMaskedText
  BY DEF DecoderInv
<1>2. QED
  BY <1>1, DecoderInvariant, PTL

\* No byte waits in pending that is not part of a beginning of a secret, which a
\* later chunk may complete.
THEOREM DecoderWaits == DecoderSpec => []OnlyPrefixesWait
<1>1. DecoderInv => OnlyPrefixesWait
  <2> SUFFICES ASSUME DecoderInv, ~ended, pending # <<>>
               PROVE  \E s \in secrets : \E k \in Len(pending)..(Len(s) - 1) : EndsWith(raw, s, k)
    BY DEF OnlyPrefixesWait
  <2>1. pending \in Seq(Marks) /\ raw \in Seq(Bytes)
    BY DEF DecoderInv, DecoderTypeOK
  <2>2. Len(pending) \in Nat /\ Len(pending) # 0
    BY <2>1, EmptySeq
  <2> DEFINE n == Largest(secrets, matched)
  <2>3. Len(pending) <= n
    BY DEF DecoderInv, NothingNeedless, Undecided
  <2>4. RightCursors(secrets, raw, matched)
    BY DEF DecoderInv, CursorsRight
  <2>5. /\ n \in Nat
        /\ n # 0 => \E s \in secrets : matched[s] = n
    BY <2>1, <2>4, CursorBound
  <2> HIDE DEF n
  <2>6. PICK s \in secrets : matched[s] = n
    BY <2>2, <2>3, <2>5
  <2>7. n \in 0..(Len(s) - 1) /\ EndsWith(raw, s, n)
    BY <2>4, <2>6 DEF RightCursors, RightCursor, LongestEnd
  <2>8. n \in Len(pending)..(Len(s) - 1)
    BY <2>2, <2>3, <2>5, <2>7
  <2>9. QED
    BY <2>7, <2>8
<1>2. QED
  BY <1>1, DecoderInvariant, PTL

\* However the bytes come and the secrets overlap, the log is masked as it should
\* be and no byte waits without need.
THEOREM DecoderCorrect == DecoderSpec => []LogIsMasked
<1>1. ShowsTheMaskedText /\ OnlyPrefixesWait => LogIsMasked
  BY DEF LogIsMasked
<1>2. QED
  BY <1>1, DecoderShows, DecoderWaits, PTL
===============================================================================
