------------------------- MODULE MigrationLifecycle -------------------------
(***************************************************************************)
(* Migration files: NewDraft, Promote, Snapshot, Check and List of         *)
(* infrastructure/migration/lifecycle.go over the file operations of       *)
(* rootfs.go.                                                              *)
(*                                                                         *)
(* campusctl is one process in a developer's working tree. Promote checks  *)
(* the manifest, writes two files, the manifest and the snapshot, and      *)
(* removes the draft, one file at a time; each write is atomic (a renamed  *)
(* temporary file) and can fail, which undoes the earlier ones, or the     *)
(* process is stopped, which does not. Between two runs of the tool a      *)
(* developer may edit a formal file by hand. A file is reduced to a number *)
(* that stands for its content and checksum.                               *)
(***************************************************************************)
EXTENDS Naturals, FiniteSets

CONSTANTS
    DraftNames,          \* names of drafts
    MaxMigrationClock,   \* bound: the clock, in seconds
    VersionAttempts,     \* seconds nextVersion looks ahead (60 in the code)
    MaxMigrationFaults   \* bound: failed file operations and stopped processes

ASSUME LifecycleAssumption == {MaxMigrationClock, VersionAttempts, MaxMigrationFaults} \subseteq Nat

Sides == {"up", "down"}

\* A formal file is named for its version, name and side; a draft for the last two.
FormalFiles == [version : 0 .. MaxMigrationClock + VersionAttempts, name : DraftNames \cup {"first"}, side : Sides]

VARIABLES
    drafts,      \* draft files
    formal,      \* formal[f]: the content of formal file f
    manifest,    \* manifest[f]: the checksum recorded for f
    drift,       \* the declared schema differs from the snapshot
    promote,     \* the run of Promote: step, name, version
    before,      \* the files as they were when that run began
    migrationClock, migrationFaults

migrationVars == <<drafts, formal, manifest, drift, promote, before, migrationClock, migrationFaults>>

NoPromote == [step |-> "idle", name |-> "none", version |-> 0]
MigrationFiles == <<drafts, formal, manifest, drift>>

\* One promoted migration is there.
LifecycleInit ==
    /\ drafts = {}
    /\ formal = [f \in [version : {0}, name : {"first"}, side : Sides] |-> 1]
    /\ manifest = formal
    /\ drift = FALSE
    /\ promote = NoPromote
    /\ before = MigrationFiles
    /\ migrationClock = 0 /\ migrationFaults = 0

-----------------------------------------------------------------------------
\* List succeeds: every file has its pair and no version is used twice.
ListOK(files) ==
    /\ \A f \in DOMAIN files : \A side \in Sides : [f EXCEPT !.side = side] \in DOMAIN files
    /\ \A f, g \in DOMAIN files : f.version = g.version => f.name = g.name

\* Mutant: only the file names are compared.
SameMembers(files, recorded) == ListOK(files) /\ DOMAIN files = DOMAIN recorded

\* checkManifest: the manifest records exactly the formal files, as they are.
checkManifest(files, recorded) == ListOK(files) /\ files = recorded

nextVersion(files) ==
    LET free == {v \in migrationClock .. migrationClock + VersionAttempts - 1 :
                    \A f \in DOMAIN files : f.version # v}
    IN  IF free = {} THEN {} ELSE {CHOOSE v \in free : \A w \in free : v <= w}

Own(side) == [version |-> promote.version, name |-> promote.name, side |-> side]
Drop(f, xs) == [y \in DOMAIN f \ xs |-> f[y]]
Goes(step) == promote' = [promote EXCEPT !.step = step]
Ends == promote' = NoPromote

\* The declared schema changes, or a formal file is edited by hand.
EditSchema ==
    /\ promote = NoPromote
    /\ drift' = TRUE
    /\ UNCHANGED <<drafts, formal, manifest, promote, before, migrationClock, migrationFaults>>

EditFormal(f) ==
    /\ promote = NoPromote
    /\ formal[f] = 1
    /\ formal' = [formal EXCEPT ![f] = 2]
    /\ UNCHANGED <<drafts, manifest, drift, promote, before, migrationClock, migrationFaults>>

\* NewDraft: up, then down; stopped in between, it leaves half a draft.
NewDraftFiles(name) ==
    /\ promote = NoPromote
    /\ \A side \in Sides : <<name, side>> \notin drafts
    /\ \/ /\ drafts' = drafts \cup {<<name, side>> : side \in Sides}
          /\ UNCHANGED migrationFaults
       \/ /\ migrationFaults < MaxMigrationFaults
          /\ migrationFaults' = migrationFaults + 1
          /\ drafts' = drafts \cup {<<name, "up">>}
    /\ UNCHANGED <<formal, manifest, drift, promote, before, migrationClock>>

\* Promote, up to its first write. The check of the manifest is skipped when there
\* is none (the first promotion of a repository); here there always is one.
BeginPromote(name) ==
    /\ promote = NoPromote
    /\ \A side \in Sides : <<name, side>> \in drafts
    /\ checkManifest(formal, manifest)
    /\ \E version \in nextVersion(formal) : promote' = [step |-> "up", name |-> name, version |-> version]
    /\ before' = MigrationFiles
    /\ UNCHANGED <<MigrationFiles, migrationClock, migrationFaults>>

WriteFormal(side) ==
    /\ promote.step = side
    /\ formal' = [f \in DOMAIN formal \cup {Own(side)} |-> IF f = Own(side) THEN 1 ELSE formal[f]]
    /\ Goes(IF side = "up" THEN "down" ELSE "manifest")
    /\ UNCHANGED <<drafts, manifest, drift, before, migrationClock, migrationFaults>>

refreshManifest ==
    /\ promote.step = "manifest"
    /\ ListOK(formal)
    /\ manifest' = formal
    /\ Goes("snapshot")
    /\ UNCHANGED <<drafts, formal, drift, before, migrationClock, migrationFaults>>

\* Snapshot: the manifest is checked again and the schema becomes the baseline.
WriteSnapshot ==
    /\ promote.step = "snapshot"
    /\ checkManifest(formal, manifest)
    /\ drift' = FALSE
    /\ Goes("drop up")
    /\ UNCHANGED <<drafts, formal, manifest, before, migrationClock, migrationFaults>>

RemoveDraft(side) ==
    /\ promote.step = IF side = "up" THEN "drop up" ELSE "drop down"
    /\ drafts' = drafts \ {<<promote.name, side>>}
    /\ IF side = "up" THEN Goes("drop down") ELSE Ends
    /\ UNCHANGED <<formal, manifest, drift, before, migrationClock, migrationFaults>>

\* Mutant: a failed snapshot leaves the manifest as it is.
FailWithoutRefresh ==
    /\ promote.step \notin {"idle", "failed"}
    /\ migrationFaults < MaxMigrationFaults
    /\ migrationFaults' = migrationFaults + 1
    /\ formal' = IF promote.step \in {"up", "down", "manifest", "snapshot"}
                 THEN Drop(formal, {Own("up"), Own("down")}) ELSE formal
    /\ promote' = IF promote.step \in {"drop up", "drop down"} THEN NoPromote ELSE [promote EXCEPT !.step = "failed"]
    /\ UNCHANGED <<drafts, manifest, drift, before, migrationClock>>

\* A file operation of Promote fails: what was written is removed again, and after
\* the snapshot the manifest is refreshed; the code ignores the errors of this undoing,
\* which the model takes to succeed. Once the snapshot is written a failure to remove
\* the draft is only reported.
FailPromote ==
    /\ promote.step \notin {"idle", "failed"}
    /\ migrationFaults < MaxMigrationFaults
    /\ migrationFaults' = migrationFaults + 1
    /\ formal' = IF promote.step \in {"up", "down", "manifest", "snapshot"}
                 THEN Drop(formal, {Own("up"), Own("down")}) ELSE formal
    /\ manifest' = IF promote.step = "snapshot" THEN formal' ELSE manifest
    /\ promote' = IF promote.step \in {"drop up", "drop down"} THEN NoPromote ELSE [promote EXCEPT !.step = "failed"]
    /\ UNCHANGED <<drafts, drift, before, migrationClock>>

\* The error is reported.
ReportFailure ==
    /\ promote.step = "failed"
    /\ Ends
    /\ UNCHANGED <<MigrationFiles, before, migrationClock, migrationFaults>>

StopPromote ==
    /\ promote # NoPromote
    /\ migrationFaults < MaxMigrationFaults
    /\ migrationFaults' = migrationFaults + 1
    /\ Ends
    /\ UNCHANGED <<MigrationFiles, before, migrationClock>>

MigrationTick ==
    /\ migrationClock < MaxMigrationClock
    /\ migrationClock' = migrationClock + 1
    /\ UNCHANGED <<MigrationFiles, promote, before, migrationFaults>>

LifecycleNext ==
    \/ EditSchema
    \/ \E f \in DOMAIN formal : EditFormal(f)
    \/ \E name \in DraftNames : NewDraftFiles(name) \/ BeginPromote(name)
    \/ \E side \in Sides : WriteFormal(side) \/ RemoveDraft(side)
    \/ refreshManifest \/ WriteSnapshot
    \/ FailPromote \/ ReportFailure \/ StopPromote
    \/ MigrationTick

LifecycleSpec == LifecycleInit /\ [][LifecycleNext]_migrationVars

-----------------------------------------------------------------------------
\* Check passes.
Check == checkManifest(formal, manifest) /\ drafts = {} /\ ~drift

LifecycleTypeOK ==
    /\ drafts \subseteq DraftNames \X Sides
    /\ DOMAIN formal \subseteq FormalFiles /\ DOMAIN manifest \subseteq FormalFiles
    /\ drift \in BOOLEAN
    /\ migrationClock \in 0 .. MaxMigrationClock /\ migrationFaults \in 0 .. MaxMigrationFaults

\* History is immutable: no run of the tool changes the checksum recorded for a
\* migration or forgets one, except the one it is itself about to add, so a formal
\* file that was edited is never promoted along with the next draft.
HistoryKept ==
    [][\A f \in DOMAIN manifest :
          \/ f \in DOMAIN manifest' /\ manifest'[f] = manifest[f]
          \/ f.version = promote.version /\ f.name = promote.name]_migrationVars

\* A promotion that fails has not happened: formal files, manifest, snapshot and
\* drafts are what they were before, whichever of the writes failed.
FailedPromoteLeavesNothing == promote.step = "failed" => MigrationFiles = before
=============================================================================
