------------------------------ MODULE Migration ------------------------------
(***************************************************************************)
(* The migration of the values of an installed platform to those a new     *)
(* release expects (src/cmd/migrate.ts), within the apply runs of the new  *)
(* operator: defaults are written, the changes with a version above the    *)
(* recorded specVersion are applied to the values in memory - some act on  *)
(* files or on the cluster at once -, all values are written, committed    *)
(* and deployed.  A run that fails starts over with the next cycle.        *)
(*                                                                         *)
(* Each change has a file of its own here; it stands for what the change   *)
(* does to values.                                                         *)
(*                                                                         *)
(* A definition named Broken... is a plausible mistake in the definition   *)
(* that follows it; no action uses it.                                     *)
(***************************************************************************)
EXTENDS Naturals, FiniteSets

CONSTANTS
    Latest,     \* the changes are 1..Latest, in the order of their versions
    Removals,   \* those that delete a file of the values repository
    SecretsChange, \* migrateGeneratedSecrets
    Apps,       \* the apps with generated secrets
    Enabled,    \* those that are always there, or enabled
    Faults,     \* the kinds of fault that may happen
    MaxFaults   \* bound: faults of a behaviour

Changes == 1..Latest

FaultKinds == {"call", "resume", "write", "push", "reset", "crash", "evict"}

ASSUME MigrationAssumption ==
    /\ Latest \in Nat /\ MaxFaults \in Nat
    /\ Removals \subseteq Changes /\ SecretsChange \in Changes \ Removals
    /\ Enabled \subseteq Apps
    /\ Faults \subseteq FaultKinds

VARIABLES
    disk,       \* ENV_DIR: specVersion, the changes its files show, sealed manifests
    remote,     \* the same on the git server
    values,     \* the changes that the values in memory show
    todo,       \* changes this run has still to apply
    pending,    \* files being written; the versions file is the change 0
    read,       \* the generated secrets the run has read
    tocopy,     \* those it has still to copy
    secrets,    \* the generated secrets in the cluster
    copies,     \* the Secrets of the new release: the old value, a new one, or none
    eso,        \* the external secrets operator runs
    sync,       \* Argo CD keeps it as it is in the chart
    deployed,   \* what the charts of the new release were deployed with
    failed,     \* an error that `finally` has to pass on
    pc,
    mishaps,    \* kinds of fault that disturbed what a run writes; read by properties only
    faults

envDir == <<disk, remote>>
local == <<values, todo, read, tocopy, failed>>
cluster == <<secrets, copies, eso, sync, deployed>>
vars == <<envDir, local, pending, cluster, pc, mishaps, faults>>

\* A version file without content has no specVersion.
NoVersion == 0
VersionsFile == 0
None == "none"

Tree == [version : 0..Latest, done : SUBSET Changes, manifests : SUBSET Apps]

\* The steps that `finally` follows.
InTry == {"copy", "discard"}

Steps == {"defaults", "migrate", "change", "pause", "scale", "crd", "copy", "discard",
          "resume", "write", "commit", "deploy"}

TypeOK ==
    /\ disk \in Tree /\ remote \in Tree
    /\ values \subseteq Changes /\ todo \subseteq Changes
    /\ pending \subseteq Changes \cup {VersionsFile}
    /\ read \subseteq Apps /\ tocopy \subseteq Apps
    /\ secrets \subseteq Apps
    /\ copies \in [Apps -> {None, "old", "new"}]
    /\ eso \in BOOLEAN /\ sync \in BOOLEAN
    /\ deployed \subseteq Changes
    /\ failed \in BOOLEAN
    /\ pc \in {"idle"} \cup Steps
    /\ mishaps \subseteq {"write", "reset", "crash", "cut"}
    /\ faults \in Nat

\* The new operator starts on values of an older release, of any version.
Init ==
    /\ \E v \in 1..Latest :
         disk = [version |-> v, done |-> 1..v,
                 manifests |-> IF v >= SecretsChange THEN {} ELSE Apps]
    /\ remote = disk
    /\ values = {} /\ todo = {} /\ pending = {}
    /\ read = {} /\ tocopy = {}
    /\ secrets = disk.manifests
    /\ copies = [a \in Apps |-> IF a \in disk.manifests THEN None ELSE "old"]
    /\ eso = TRUE /\ sync = TRUE
    /\ deployed = {}
    /\ failed = FALSE
    /\ pc = "idle"
    /\ mishaps = {}
    /\ faults = 0

Fault(kind) == kind \in Faults /\ faults < MaxFaults /\ faults' = faults + 1

NoFault == UNCHANGED <<faults, mishaps>>

Goto(label) == pc' = label

-----------------------------------------------------------------------------
(* A run up to the migration.                                              *)

Begin ==
    /\ pc = "idle"
    /\ Goto("defaults")
    /\ NoFault
    /\ UNCHANGED <<envDir, local, pending, cluster>>

\* The defaults have the latest specVersion; the one in the file takes precedence.
WriteDefaults ==
    /\ pc = "defaults"
    /\ disk' = [disk EXCEPT !.version = IF @ = NoVersion THEN Latest ELSE @]
    /\ Goto("migrate")
    /\ NoFault
    /\ UNCHANGED <<remote, local, pending, cluster>>

FilterChanges(version) == {c \in Changes : c > version}

Migrate ==
    /\ pc = "migrate"
    /\ IF disk.version = NoVersion \/ FilterChanges(disk.version) = {}
       THEN Goto("commit") /\ UNCHANGED <<values, todo>>
       ELSE /\ values' = disk.done
            /\ todo' = FilterChanges(disk.version)
            /\ Goto("change")
    /\ NoFault
    /\ UNCHANGED <<envDir, read, tocopy, failed, pending, cluster>>

-----------------------------------------------------------------------------
(* applyChanges: one change after the other.                               *)

NextChange(c) == c \in todo /\ \A d \in todo : c <= d

\* Additions, mutations, deletions and most functions change values in memory.
ChangeValues ==
    /\ pc = "change"
    /\ \E c \in Changes \ (Removals \cup {SecretsChange}) :
         /\ NextChange(c)
         /\ values' = values \cup {c}
         /\ todo' = todo \ {c}
    /\ Goto(pc)
    /\ NoFault
    /\ UNCHANGED <<envDir, read, tocopy, failed, pending, cluster>>

\* A file that goes is deleted at once.
RemoveFile ==
    /\ pc = "change"
    /\ \E c \in Removals :
         /\ NextChange(c)
         /\ disk' = [disk EXCEPT !.done = @ \cup {c}]
         /\ values' = values \cup {c}
         /\ todo' = todo \ {c}
    /\ Goto(pc)
    /\ NoFault
    /\ UNCHANGED <<remote, read, tocopy, failed, pending, cluster>>

\* The secrets of apps that are not enabled are not kept.
ReadSecrets == Enabled \cap secrets

MigrateGeneratedSecrets ==
    /\ pc = "change"
    /\ NextChange(SecretsChange)
    /\ read' = ReadSecrets /\ tocopy' = ReadSecrets
    /\ Goto("pause")
    /\ NoFault
    /\ UNCHANGED <<envDir, values, todo, failed, pending, cluster>>

PauseSync ==
    /\ pc = "pause"
    /\ sync' = FALSE
    /\ Goto("scale")
    /\ NoFault
    /\ UNCHANGED <<envDir, local, pending, secrets, copies, eso, deployed>>

ScaleDown ==
    /\ pc = "scale"
    /\ eso' = FALSE
    /\ Goto("crd")
    /\ NoFault
    /\ UNCHANGED <<envDir, local, pending, secrets, copies, sync, deployed>>

\* Of the generator, before the try: a failure here ends the run with the operator down.
ApplyCrd ==
    /\ pc = "crd"
    /\ Goto("copy")
    /\ NoFault
    /\ UNCHANGED <<envDir, local, pending, cluster>>

\* A copy is immutable: one that exists is deleted and created again.
CopySecret ==
    /\ pc = "copy"
    /\ \E a \in tocopy :
         IF copies[a] = None
         THEN /\ copies' = [copies EXCEPT ![a] = "old"]
              /\ tocopy' = tocopy \ {a}
         ELSE /\ copies' = [copies EXCEPT ![a] = None]
              /\ UNCHANGED tocopy
    /\ Goto(pc)
    /\ NoFault
    /\ UNCHANGED <<envDir, values, todo, read, failed, pending, secrets, eso, sync, deployed>>

BrokenCopied == TRUE

Copied == tocopy = {}

EndCopies ==
    /\ pc = "copy" /\ Copied
    /\ Goto("discard")
    /\ NoFault
    /\ UNCHANGED <<envDir, local, pending, cluster>>

\* Manifests go one by one, those of apps that are not enabled too.
DiscardManifest ==
    /\ pc = "discard"
    /\ \E a \in disk.manifests : disk' = [disk EXCEPT !.manifests = @ \ {a}]
    /\ Goto(pc)
    /\ NoFault
    /\ UNCHANGED <<remote, local, pending, cluster>>

EndDiscards ==
    /\ pc = "discard" /\ disk.manifests = {}
    /\ Goto("resume")
    /\ NoFault
    /\ UNCHANGED <<envDir, local, pending, cluster>>

\* finally: the operator runs again, and an error goes on to the caller.
Resume ==
    /\ pc = "resume"
    /\ eso' = TRUE /\ sync' = TRUE
    /\ IF failed
       THEN Goto("idle") /\ UNCHANGED <<values, todo>>
       ELSE /\ Goto("change")
            /\ values' = values \cup {SecretsChange}
            /\ todo' = todo \ {SecretsChange}
    /\ failed' = FALSE
    /\ NoFault
    /\ UNCHANGED <<envDir, read, tocopy, pending, secrets, copies, deployed>>

\* A failure to resume is passed over, and the change counts as done.
BrokenResumeFails ==
    /\ pc = "resume"
    /\ Fault("resume")
    /\ eso' \in {eso, TRUE}
    /\ IF failed
       THEN Goto("idle") /\ UNCHANGED <<values, todo>>
       ELSE /\ Goto("change")
            /\ values' = values \cup {SecretsChange}
            /\ todo' = todo \ {SecretsChange}
    /\ failed' = FALSE
    /\ UNCHANGED <<envDir, read, tocopy, pending, secrets, copies, sync, deployed, mishaps>>

\* The second call, for Argo CD, or already the first fails.
ResumeFails ==
    /\ pc = "resume"
    /\ Fault("resume")
    /\ eso' \in {eso, TRUE}
    /\ failed' = FALSE
    /\ Goto("idle")
    /\ UNCHANGED <<envDir, values, todo, read, tocopy, pending, secrets, copies, sync, deployed,
                   mishaps>>

\* All files at once, the versions file with the last version.
EndChanges ==
    /\ pc = "change" /\ todo = {}
    /\ pending' = {VersionsFile} \cup (values \ Removals)
    /\ Goto("write")
    /\ NoFault
    /\ UNCHANGED <<envDir, local, cluster>>

-----------------------------------------------------------------------------
(* The files, and the rest of a run.                                       *)

BrokenWritten(f) == [disk EXCEPT !.done = @ \cup (Changes \cap {f})]

Written(f) ==
    IF f = VersionsFile THEN [disk EXCEPT !.version = Latest]
    ELSE [disk EXCEPT !.done = @ \cup {f}]

\* Also after the run that began the write has failed.
WriteFile ==
    /\ \E f \in pending :
         /\ disk' = Written(f)
         /\ pending' = pending \ {f}
    /\ NoFault
    /\ UNCHANGED <<remote, local, cluster, pc>>

BrokenAllWritten == VersionsFile \notin pending

AllWritten == pending = {}

EndWrite ==
    /\ pc = "write" /\ AllWritten
    /\ Goto("commit")
    /\ NoFault
    /\ UNCHANGED <<envDir, local, pending, cluster>>

WriteFails ==
    /\ pc = "write"
    /\ Fault("write")
    /\ \E f \in pending : pending' = pending \ {f}
    /\ mishaps' = mishaps \cup {"write"}
    /\ Goto("idle")
    /\ UNCHANGED <<envDir, local, cluster>>

Commit ==
    /\ pc = "commit"
    /\ \/ remote' = disk /\ Goto("deploy") /\ NoFault
       \/ Fault("push") /\ Goto("idle") /\ UNCHANGED <<remote, mishaps>>
    /\ UNCHANGED <<disk, local, pending, cluster>>

\* apply: the charts of the new release, and the Application of the external secrets
\* operator as it should be.
Deploy ==
    /\ pc = "deploy"
    /\ deployed' = disk.done
    /\ sync' = TRUE
    /\ Goto("idle")
    /\ NoFault
    /\ UNCHANGED <<envDir, local, pending, secrets, copies, eso>>

\* A call fails, or the file of a change cannot be deleted, as when it is not there.
RunFails ==
    /\ pc \in Steps \ {"resume", "write", "commit"}
    /\ Fault("call")
    /\ IF pc \in InTry THEN failed' = TRUE /\ Goto("resume")
       ELSE failed' = FALSE /\ Goto("idle")
    /\ UNCHANGED <<envDir, values, todo, read, tocopy, pending, cluster, mishaps>>

-----------------------------------------------------------------------------
(* Everything else.                                                        *)

\* A poll cycle that was under way when the run began resets ENV_DIR.
Reset ==
    /\ disk # remote
    /\ Fault("reset")
    /\ disk' = remote
    /\ mishaps' = mishaps \cup {"reset"}
    /\ UNCHANGED <<remote, local, pending, cluster, pc>>

\* A poll cycle between runs.
Pull ==
    /\ pc = "idle" /\ disk # remote
    /\ disk' = remote
    /\ NoFault
    /\ UNCHANGED <<remote, local, pending, cluster, pc>>

\* The container restarts on the same ENV_DIR, where the versions file may be empty if
\* it was being written.
Crash ==
    /\ pc # "idle"
    /\ Fault("crash")
    /\ \/ mishaps' = mishaps \cup {"crash"} /\ UNCHANGED disk
       \/ /\ pc = "defaults" \/ VersionsFile \in pending
          /\ disk' = [disk EXCEPT !.version = NoVersion]
          /\ mishaps' = mishaps \cup {"crash", "cut"}
    /\ pending' = {}
    /\ failed' = FALSE
    /\ Goto("idle")
    /\ UNCHANGED <<remote, values, todo, read, tocopy, cluster>>

\* The pod is replaced, and clones anew.
Evict ==
    /\ pc # "idle"
    /\ Fault("evict")
    /\ mishaps' = mishaps \cup {"crash"}
    /\ disk' = remote
    /\ pending' = {}
    /\ failed' = FALSE
    /\ Goto("idle")
    /\ UNCHANGED <<remote, values, todo, read, tocopy, cluster>>

\* Argo CD removes what the repository does not have any more, ...
Prune ==
    /\ \E a \in secrets \ remote.manifests : secrets' = secrets \ {a}
    /\ UNCHANGED <<envDir, local, pending, copies, eso, sync, deployed, pc, mishaps, faults>>

\* ... undoes changes to what it keeps in sync, ...
SelfHeal ==
    /\ sync /\ ~eso
    /\ eso' = TRUE
    /\ UNCHANGED <<envDir, local, pending, secrets, copies, sync, deployed, pc, mishaps, faults>>

\* ... and the external secrets operator generates what the charts ask for.
Generate ==
    /\ eso /\ deployed # {}
    /\ \E a \in Enabled :
         /\ copies[a] = None
         /\ copies' = [copies EXCEPT ![a] = "new"]
    /\ UNCHANGED <<envDir, local, pending, secrets, eso, sync, deployed, pc, mishaps, faults>>

Run ==
    \/ Begin \/ WriteDefaults \/ Migrate
    \/ ChangeValues \/ RemoveFile \/ EndChanges
    \/ MigrateGeneratedSecrets \/ PauseSync \/ ScaleDown \/ ApplyCrd \/ CopySecret
    \/ EndCopies \/ DiscardManifest \/ EndDiscards \/ Resume
    \/ EndWrite \/ Commit \/ Deploy

Next ==
    \/ Run \/ WriteFile
    \/ ResumeFails \/ WriteFails \/ RunFails
    \/ Reset \/ Pull \/ Crash \/ Evict
    \/ Prune \/ SelfHeal \/ Generate

Spec == Init /\ [][Next]_vars

\* Cycles go on for ever, writes and calls end, and Argo CD keeps at it.
FairSpec == Spec /\ WF_vars(Run) /\ WF_vars(WriteFile) /\ WF_vars(SelfHeal)

-----------------------------------------------------------------------------
(* Properties.                                                             *)

\* Values that say they are migrated are, on the server and in what was deployed:
\* nothing can be committed or deployed between two changes, whatever call fails, and
\* a removed file is not back - unless the writes were disturbed while under way.
RecordedMeansMigrated ==
    mishaps \cap {"write", "crash", "cut", "reset"} = {} =>
      /\ remote.version = Latest => remote.done = Changes
      /\ deployed \in {{}, Changes}

\* The passwords of a running platform survive the upgrade, over repeated attempts,
\* crashes and half-removed manifests.
SecretsSurvive ==
    mishaps \cap {"cut", "write", "reset"} = {} =>
      \A a \in Enabled :
        /\ copies[a] # "new"
        /\ a \notin secrets => copies[a] = "old"

\* As long as the external secrets operator is down, or not kept in sync, the version of
\* the change that pauses it is recorded neither in ENV_DIR nor on the server: wherever an
\* attempt breaks off, before the try, in it or in `finally`, the change is repeated and
\* with it the call that resumes the operator.  Only a versions file that is cut off, or
\* written by an attempt that has failed already, can get in between.
PausedIsRepeated ==
    ~(eso /\ sync) /\ mishaps \cap {"cut", "write"} = {} =>
      disk.version < SecretsChange /\ remote.version < SecretsChange

\* The platform gets there: values of the latest version are on the server and the
\* external secrets operator runs and is kept in sync.
Migrated ==
    <>[](remote.version = Latest /\ eso /\ sync)
=============================================================================
