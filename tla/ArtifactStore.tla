----------------------------- MODULE ArtifactStore -----------------------------
(***************************************************************************)
(* The generated files of one instance: crates/adapters/src/               *)
(* artifact_store.rs and artifact_store/external.rs.  A published artifact *)
(* is a directory whose bytes the database knows; the user may edit it at  *)
(* any time.  A recovery operation o moves the edited directory into its   *)
(* own place under recovery/ and publishes an artifact of its own, which   *)
(* is named o here.                                                        *)
(***************************************************************************)
CONSTANTS
  Operations,  \* the recovery operations, each with its replacement artifact
  Original,    \* the artifact published when the instance was created
  Edits,       \* what the user may put in place of generated files
  NoFiles,     \* the content of a directory that is not there
  Partial      \* the content of a staging directory before its last write

Artifacts == Operations \cup {Original}

\* Every artifact has bytes of its own, an edit is none of them, and neither is
\* a directory that is not there or only part of one.
ASSUME StoreAssumption ==
  /\ Original \notin Operations
  /\ Edits \cap Artifacts = {}
  /\ NoFiles # Partial
  /\ {NoFiles, Partial} \cap (Edits \cup Artifacts) = {}

VARIABLES
  live,       \* the directories artifacts/<id>
  staging,    \* the directories staging/<operation>
  archive,    \* the directories recovery/<operation>
  placement,  \* the column artifacts.placement, "none" without a row
  kept        \* history: edits the user has not taken back

storeVars == <<live, staging, archive, placement, kept>>

\* The content of an artifact as it was generated is named as the artifact.
StoreInit ==
  /\ live = [a \in Artifacts |-> IF a = Original THEN a ELSE NoFiles]
  /\ staging = [o \in Operations |-> NoFiles]
  /\ archive = [o \in Operations |-> NoFiles]
  /\ placement = [a \in Artifacts |-> IF a = Original THEN "published" ELSE "none"]
  /\ kept = {}

\* collect_files: every file of a directory, as its hash.
Content(a) == live[a]

\* verify: the bytes on disk are the bytes of the database.
Verified(a) == Content(a) = a

\* verified_compose_path: the only way to a file that Compose is run on.
Usable(a) == Verified(a) /\ placement[a] = "published"

\* external_record and scan.
Inspectable(a) == placement[a] \in {"published", "retained"} /\ live[a] # NoFiles

-------------------------------------------------------------------------------
(* archive_external, between two of whose steps the user may write *)

\* A directory that was moved before holds what was confirmed, or the one
\* that is to be moved does.
ArchivedBefore(o, a, hash) == archive[o] = hash /\ live[a] = NoFiles
MayMove(o, a, hash) == archive[o] = NoFiles /\ Content(a) = hash
ArchiveCheck(o, a, hash) ==
  /\ placement[a] \in {"published", "retained"}
  /\ ArchivedBefore(o, a, hash) \/ MayMove(o, a, hash)

\* publish_directory: a rename that never replaces its target.
CanMove(o, a) == live[a] # NoFiles /\ archive[o] = NoFiles
Move(o, a) ==
  /\ archive' = [archive EXCEPT ![o] = live[a]]
  /\ live' = [live EXCEPT ![a] = NoFiles]
  /\ UNCHANGED <<staging, placement, kept>>

MayRetain(o, hash) == archive[o] = hash

Retain(a) ==
  /\ placement' = [placement EXCEPT ![a] = "retained"]
  /\ UNCHANGED <<live, staging, archive, kept>>

-------------------------------------------------------------------------------
(* publish *)

\* The expected bytes are recorded before the first file is written.
RecordArtifact(o) ==
  /\ placement' = [placement EXCEPT ![o] = IF @ = "none" THEN "staged" ELSE @]
  /\ UNCHANGED <<live, staging, archive, kept>>

\* A target that is there is only verified, never replaced; without it an
\* artifact that was published is lost, any other is staged.
MustStage(o) == live[o] = NoFiles /\ placement[o] = "staged"

\* remove_dir_all and write_stage: a crash leaves part of the files.
BeginStage(o) ==
  /\ staging' = [staging EXCEPT ![o] = IF @ = o THEN @ ELSE Partial]
  /\ UNCHANGED <<live, archive, placement, kept>>
EndStage(o) ==
  /\ staging' = [staging EXCEPT ![o] = o]
  /\ UNCHANGED <<live, archive, placement, kept>>

ReplaceTarget(o) == TRUE
TargetIsFree(o) == live[o] = NoFiles

MoveStage(o) ==
  /\ live' = [live EXCEPT ![o] = staging[o]]
  /\ staging' = [staging EXCEPT ![o] = NoFiles]
  /\ UNCHANGED <<archive, placement, kept>>

\* mark_published refuses an artifact that was archived.
CanMark(o) == placement[o] \in {"staged", "published"}
MarkPublished(o) ==
  /\ placement' = [placement EXCEPT ![o] = "published"]
  /\ UNCHANGED <<live, staging, archive, kept>>

-------------------------------------------------------------------------------
(* The user: edits a directory, puts one there, undoes an edit, removes one *)

Edit(a, e) ==
  /\ placement[a] # "none"
  /\ e \notin kept /\ \A o \in Operations : archive[o] # e
  /\ live' = [live EXCEPT ![a] = e]
  /\ kept' = (kept \ {live[a]}) \cup {e}
  /\ UNCHANGED <<staging, archive, placement>>

TakeBack(a, content) ==
  /\ live[a] \in Edits
  /\ live' = [live EXCEPT ![a] = content]
  /\ kept' = kept \ {live[a]}
  /\ UNCHANGED <<staging, archive, placement>>

UserWrites ==
  \E a \in Artifacts :
    \/ \E e \in Edits : Edit(a, e)
    \/ \E content \in {a, NoFiles} : TakeBack(a, content)

\* Whatever the user wrote and did not take back is still somewhere on disk.
KeepsUserEdits ==
  kept \subseteq {live[a] : a \in Artifacts} \cup {archive[o] : o \in Operations}
================================================================================
