------------------------------ MODULE BindStorage ------------------------------
(***************************************************************************)
(* The bind storage under a management root: create_bind_set and           *)
(* inspect_bind of crates/adapters/src/storage.rs, on the platforms        *)
(* storage/unix.rs and storage/windows.rs, and inspect_saved_bind of       *)
(* retained_storage.rs.  A create makes data/<instance>/<slot> and its     *)
(* evidence under ownership/<instance>, step by step, and may be cut off;  *)
(* operations on two instances run at the same time.  The user and Docker  *)
(* remove, make and move directories in between.                           *)
(*                                                                         *)
(* A directory is its identity (device and inode, or volume and index),    *)
(* which no later directory gets again and which is mounted once.  An      *)
(* instance has one slot here; its slots are made one after the other.     *)
(***************************************************************************)
EXTENDS Integers, FiniteSets

CONSTANTS
  BindInstances,   \* the instances with bind storage
  MaxDirs,     \* bound on the directories ever made, the root among them
  MaxChanges   \* bound on what others change

\* The root is a directory, and the instances have names of their own.
StorageConstants ==
  /\ MaxDirs \in Nat \ {0}
  /\ BindInstances \cap {"nobody", "data", "ownership", "slot"} = {}

ASSUME StorageAssumption == StorageConstants

VARIABLES
  platform,   \* unix or windows
  entry,      \* the entries of every directory, 0 for none, Link for no directory
  evidence,   \* the files of every directory: [marker, proof]
  made,       \* the directories made so far
  creating,   \* create_bind_set of each instance: its stage and its handles
  allocation, \* the evidence each successful create returned
  looking,    \* the inspection that runs: its instance, stage and handles
  answer,     \* what the inspection that just ended answered: [of, presence, slot]
  changes,    \* counts the changes of others, against MaxChanges
  steady,     \* history: the storage was intact all through inspect_bind
  overlapped  \* history: a create has run while another one did

storageVars == <<platform, entry, evidence, made, creating, allocation, looking,
                 answer, changes, steady, overlapped>>

Root == 1
Link == -1
Names == BindInstances \cup {"data", "ownership", "slot"}
None == [at |-> "none", data |-> 0, own |-> 0, box |-> 0, keep |-> 0, slot |-> 0]
NotLooking == [of |-> "nobody", at |-> "none", data |-> 0, own |-> 0, box |-> 0, keep |-> 0]
NoAnswer == [of |-> "nobody", presence |-> "none", slot |-> 0]
NoFile == [of |-> "nobody", data |-> 0, box |-> 0, slot |-> 0]
NoFiles == [marker |-> NoFile, proof |-> NoFile]

Child(d, name) == IF d > 0 THEN entry[d][name] ELSE 0
Files(d) == IF d > 0 THEN evidence[d] ELSE NoFiles

StorageInit ==
  /\ platform \in {"unix", "windows"}
  /\ entry = [d \in 1..MaxDirs |-> [n \in Names |-> 0]]
  /\ evidence = [d \in 1..MaxDirs |-> NoFiles]
  /\ made = 1
  /\ creating = [i \in BindInstances |-> None]
  /\ allocation = [i \in BindInstances |-> NoFile]
  /\ looking = NotLooking
  /\ answer = NoAnswer
  /\ changes = 0
  /\ steady = FALSE
  /\ overlapped = FALSE

\* proof_json: a proof names its directories, a marker no slot.
Marker(i, h) == [of |-> i, data |-> h.data, box |-> h.box, slot |-> 0]
Proof(i, h) == [of |-> i, data |-> h.data, box |-> h.box, slot |-> h.slot]

\* The path of the slot leads to what the allocation was made for, and all the
\* evidence is there.
Intact(i) ==
  LET p == allocation[i]
      keep == Child(Child(Root, "ownership"), i)
  IN /\ p # NoFile
     /\ Child(Root, "data") = p.data /\ Child(p.data, i) = p.box /\ Child(p.box, "slot") = p.slot
     /\ Files(keep) = [marker |-> Marker(i, p), proof |-> p]

\* What was intact at the start of an inspection and is so after every step.
Observed ==
  /\ answer' = NoAnswer
  /\ steady' = (steady /\ \E i \in BindInstances : i = looking.of /\ Intact(i)')

-------------------------------------------------------------------------------
(* create *)

Running(i) == creating[i].at \notin {"none", "done", "refused", "aborted"}

Advance(i, h) == creating' = [creating EXCEPT ![i] = h]
Refuse(i) ==
  /\ Advance(i, [creating[i] EXCEPT !.at = "refused"])
  /\ UNCHANGED <<entry, evidence, made, allocation>>
Aside == UNCHANGED <<platform, looking, changes>> /\ Observed

\* create_directory_at: mkdirat, and the open right after it, in the directory
\* the parent's handle stands for, wherever that is by now.
Mkdir(parent, name) ==
  /\ made < MaxDirs
  /\ entry[parent][name] = 0
  /\ made' = made + 1
  /\ entry' = [entry EXCEPT ![parent][name] = made + 1]

\* ensure_directory_at, for data and for ownership.
EnsureTop(i) ==
  /\ creating[i].at = "none"
  /\ LET makeData == entry[Root]["data"] = 0
         data == IF makeData THEN made + 1 ELSE entry[Root]["data"]
         makeOwn == entry[Root]["ownership"] = 0
         own == IF ~makeOwn THEN entry[Root]["ownership"]
                ELSE IF makeData THEN made + 2 ELSE made + 1
         count == (IF makeData THEN 1 ELSE 0) + (IF makeOwn THEN 1 ELSE 0)
     IN IF data = Link \/ own = Link THEN Refuse(i)
        ELSE /\ made + count <= MaxDirs
             /\ made' = made + count
             /\ entry' = [entry EXCEPT ![Root]["data"] = data, ![Root]["ownership"] = own]
             /\ Advance(i, [None EXCEPT !.at = "collect", !.data = data, !.own = own])
             /\ UNCHANGED <<evidence, allocation>>
  /\ overlapped' = (overlapped \/ \E j \in BindInstances \ {i} : Running(j))
  /\ Aside

\* collect_existing_identities: every instance directory is a directory with a
\* marker of its own, and its slot, if there is one, has a proof.
Accounted(i, h) ==
  LET box == Child(h.data, i)
      keep == Child(h.own, i)
      slot == Child(box, "slot")
      here == [h EXCEPT !.box = box, !.slot = slot]
  IN /\ box > 0 /\ keep > 0
     /\ Files(keep).marker = Marker(i, here)
     /\ slot # 0 => slot > 0 /\ Files(keep).proof = Proof(i, here)

Collect(i) ==
  /\ creating[i].at = "collect"
  /\ LET h == creating[i]
     IN IF /\ entry[Root]["data"] = h.data
           /\ \A j \in BindInstances : entry[h.data][j] = 0 \/ Accounted(j, h)
        THEN Advance(i, [h EXCEPT !.at = "absent"]) /\ UNCHANGED <<entry, evidence, made, allocation>>
        ELSE Refuse(i)
  /\ UNCHANGED overlapped
  /\ Aside

\* ensure_absent_at: neither a directory nor evidence of one.
EnsureAbsent(i) ==
  /\ creating[i].at = "absent"
  /\ LET h == creating[i]
     IN IF entry[h.data][i] = 0 /\ entry[h.own][i] = 0
        THEN Advance(i, [h EXCEPT !.at = "box"]) /\ UNCHANGED <<entry, evidence, made, allocation>>
        ELSE Refuse(i)
  /\ UNCHANGED overlapped
  /\ Aside

MakeBox(i) ==
  /\ creating[i].at = "box"
  /\ LET h == creating[i]
     IN IF entry[h.data][i] # 0 THEN Refuse(i)
        ELSE Mkdir(h.data, i) /\ Advance(i, [h EXCEPT !.at = "keep", !.box = made + 1])
             /\ UNCHANGED <<evidence, allocation>>
  /\ UNCHANGED overlapped
  /\ Aside

MakeKeep(i) ==
  /\ creating[i].at = "keep"
  /\ LET h == creating[i]
     IN IF entry[h.own][i] # 0 THEN Refuse(i)
        ELSE Mkdir(h.own, i) /\ Advance(i, [h EXCEPT !.at = "marker", !.keep = made + 1])
             /\ UNCHANGED <<evidence, allocation>>
  /\ UNCHANGED overlapped
  /\ Aside

\* create_file_at, for .directory.json.
WriteMarker(i) ==
  /\ creating[i].at = "marker"
  /\ LET h == creating[i]
     IN /\ evidence' = [evidence EXCEPT ![h.keep].marker = Marker(i, h)]
        /\ Advance(i, [h EXCEPT !.at = "slot"])
  /\ UNCHANGED <<entry, made, allocation, overlapped>>
  /\ Aside

MakeSlot(i) ==
  /\ creating[i].at = "slot"
  /\ LET h == creating[i]
     IN IF entry[h.box]["slot"] # 0 THEN Refuse(i)
        ELSE Mkdir(h.box, "slot") /\ Advance(i, [h EXCEPT !.at = "proof", !.slot = made + 1])
             /\ UNCHANGED <<evidence, allocation>>
  /\ UNCHANGED overlapped
  /\ Aside

\* The proof is written, and its digest is what the ledger will keep.
WriteProof(i) ==
  /\ creating[i].at = "proof"
  /\ LET h == creating[i]
     IN /\ evidence' = [evidence EXCEPT ![h.keep].proof = Proof(i, h)]
        /\ allocation' = [allocation EXCEPT ![i] = Proof(i, h)]
        /\ Advance(i, [h EXCEPT !.at = "done"])
  /\ UNCHANGED <<entry, made, overlapped>>
  /\ Aside

\* A crash, or a file system that fails.
Abort(i) ==
  /\ Running(i)
  /\ Advance(i, [creating[i] EXCEPT !.at = "aborted"])
  /\ UNCHANGED <<entry, evidence, made, allocation, overlapped>>
  /\ Aside

-------------------------------------------------------------------------------
(* inspect *)

Told(i, presence, slot) ==
  /\ answer' = [of |-> i, presence |-> presence, slot |-> slot]
  /\ looking' = NotLooking
Beside == UNCHANGED <<platform, entry, evidence, made, creating, allocation, changes, overlapped>>

\* inspect_valid starts with the evidence, by handles of ownership and keep.
ReadEvidence(i) ==
  /\ allocation[i] # NoFile /\ looking.at = "none"
  /\ LET own == Child(Root, "ownership")
         keep == Child(own, i)
         p == allocation[i]
     IN IF Files(keep) = [marker |-> Marker(i, p), proof |-> p]
        THEN /\ looking' = [NotLooking EXCEPT !.of = i, !.at = "data", !.own = own, !.keep = keep]
             /\ answer' = NoAnswer
        ELSE Told(i, "unverified", 0)
  /\ steady' = Intact(i)
  /\ Beside

AnyDirectory(found, expected) == TRUE
\* A directory counts only if it is the one the proof names.
SameDirectory(found, expected) == found = expected

\* One directory after the other, each in the one that was opened before.
EnterDirectory(i, at, parent, name, expected, next) ==
  /\ looking.of = i /\ looking.at = at
  /\ LET found == entry[parent][name]
     IN IF found = 0 THEN Told(i, "missing", 0)
        ELSE IF found = Link \/ ~SameDirectory(found, expected) THEN Told(i, "unverified", 0)
        ELSE next
  /\ Beside
  /\ UNCHANGED steady

EnterData(i) ==
  LET found == entry[Root]["data"]
  IN EnterDirectory(i, "data", Root, "data", allocation[i].data,
           looking' = [looking EXCEPT !.at = "box", !.data = found] /\ UNCHANGED answer)
EnterBox(i) ==
  LET found == entry[looking.data][i]
  IN EnterDirectory(i, "box", looking.data, i, allocation[i].box,
           looking' = [looking EXCEPT !.at = "slot", !.box = found] /\ UNCHANGED answer)
EnterSlot(i) ==
  LET found == entry[looking.box]["slot"]
  IN EnterDirectory(i, "slot", looking.box, "slot", allocation[i].slot, Told(i, "present", found))

\* inspect_saved_bind, for an allocation nothing was created for as far as the
\* ledger knows: the path is followed as far as there are directories.
InspectSaved(i) ==
  /\ allocation[i] = NoFile /\ looking.at = "none"
  /\ LET data == Child(Root, "data")
         absent == \/ data = 0
                   \/ data > 0 /\ Child(data, i) = 0
                   \/ Child(data, i) > 0 /\ Child(Child(data, i), "slot") = 0
     IN Told(i, IF absent THEN "not materialized" ELSE "unverified", 0)
  /\ Beside
  /\ steady' = FALSE

-------------------------------------------------------------------------------
(* The user and Docker *)

Handles == {h[n] : h \in {creating[i] : i \in {j \in BindInstances : Running(j)}}
                          \cup {looking}, n \in {"data", "own", "box", "keep"}}
Below(D) == {Child(d, n) : d \in D, n \in Names}
Inside(d) == ({d} \cup Below({d}) \cup Below(Below({d}))) \ {0, Link}

\* Windows does not move or remove a directory that is open without sharing
\* its deletion, nor one with such a directory in it.
Pinned(d) == platform = "windows" /\ Handles \cap Inside(d) # {}

Places == {place \in {<<Root, "data">>, <<Root, "ownership">>}
               \cup {<<Child(Root, top), i>> : top \in {"data", "ownership"}, i \in BindInstances}
               \cup {<<Child(Child(Root, "data"), i), "slot">> : i \in BindInstances} : place[1] > 0}
Stray == {d \in 2..made : \A e \in 1..made, n \in Names : entry[e][n] # d}

\* Something is removed, or moved to where it is no storage; something is put
\* where nothing is: a new directory, one that was moved away, or a link.
OthersChange ==
  /\ changes < MaxChanges /\ changes' = changes + 1
  /\ \E place \in Places :
       \/ /\ entry[place[1]][place[2]] # 0 /\ ~Pinned(entry[place[1]][place[2]])
          /\ entry' = [entry EXCEPT ![place[1]][place[2]] = 0]
          /\ UNCHANGED made
       \/ Mkdir(place[1], place[2])
       \/ /\ entry[place[1]][place[2]] = 0
          /\ \E d \in Stray \cup {Link} : entry' = [entry EXCEPT ![place[1]][place[2]] = d]
          /\ UNCHANGED made
  /\ UNCHANGED <<platform, evidence, creating, allocation, looking, overlapped>>
  /\ Observed

\* A file of evidence is edited or deleted.
Tamper ==
  /\ changes < MaxChanges /\ changes' = changes + 1
  /\ \E d \in 1..made, file \in {"marker", "proof"} :
       /\ evidence[d][file] # NoFile
       /\ evidence' = [evidence EXCEPT ![d][file] = NoFile]
  /\ UNCHANGED <<platform, entry, made, creating, allocation, looking, overlapped>>
  /\ Observed

\* The two platforms take the same steps; they differ in what a handle pins.
Create(i) ==
  \/ EnsureTop(i) \/ Collect(i) \/ EnsureAbsent(i) \/ MakeBox(i) \/ MakeKeep(i)
  \/ WriteMarker(i) \/ MakeSlot(i) \/ WriteProof(i) \/ Abort(i)
InspectValid(i) == ReadEvidence(i) \/ EnterData(i) \/ EnterBox(i) \/ EnterSlot(i)

StorageNext ==
  \/ \E i \in BindInstances : Create(i) \/ InspectValid(i) \/ InspectSaved(i)
  \/ OthersChange \/ Tamper

StorageSpec == StorageInit /\ [][StorageNext]_storageVars

-------------------------------------------------------------------------------
(* Properties *)

\* Storage is present only if the directory that was found is the one its
\* create made, whatever was removed, made anew or moved before and during the
\* inspection; and storage that is intact all the time is never called missing
\* or unverified.
InspectionIsRight ==
  /\ answer.presence = "present" => answer.slot = creating[answer.of].slot
  /\ answer # NoAnswer /\ steady => answer.presence = "present"

\* A create is refused only if others changed something, a create was cut off,
\* or one ran at the same time: all that a finished create leaves is accounted
\* for when the next one looks.
RefusedForCause ==
  (\E i \in BindInstances : creating[i].at = "refused") =>
    changes > 0 \/ overlapped \/ \E j \in BindInstances : creating[j].at = "aborted"

OnlyOwnStorage == InspectionIsRight /\ RefusedForCause
================================================================================
