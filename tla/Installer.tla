----------------------------- MODULE Installer -----------------------------
(***************************************************************************)
(* The installation phase of the operator (src/operator/main.ts,           *)
(* installer.ts): one process that reads how far the installation came     *)
(* from a ConfigMap, bootstraps or recovers the values repository, then    *)
(* repeats the installation until it succeeds and enters the GitOps phase. *)
(*                                                                         *)
(* The process may be restarted between any two steps: by a crash, by the  *)
(* code itself (process.exit after an error outside the retry loops) or    *)
(* together with its pod.  A container restart keeps ENV_DIR, which is an  *)
(* emptyDir volume of the pod; replacing the pod empties it.               *)
(*                                                                         *)
(* A definition named Broken... is a plausible mistake in the definition   *)
(* that follows it; no action uses it.                                     *)
(***************************************************************************)
EXTENDS Naturals

CONSTANTS
    Faults,     \* the kinds of fault that may happen
    MaxFaults   \* bound: faults of a behaviour

FaultKinds == {"call", "statusWrite", "crash", "evict"}

ASSUME InstallerAssumption == Faults \subseteq FaultKinds /\ MaxFaults \in Nat

Modes == {"standard", "recovery"}
Statuses == {"unset", "pending", "in-progress", "completed", "failed"}

VARIABLES
    request,     \* what the values ask for: the mode, and whether they hold a git password
    status, mode, \* the ConfigMap apl-installation-status
    credentials, \* the Secret apl-git-config holds a password
    gitServer,   \* the Secret git-server-credentials exists
    envDir,      \* ENV_DIR: empty, files without .git, or a repository
    branch,      \* the values branch exists on the git server
    release,     \* a Helm release the installation makes
    setUp,       \* the credentials and welcome resources exist
    pc,          \* where the process stands
    faults

cluster == <<credentials, gitServer, branch, release, setUp>>
vars == <<request, status, mode, cluster, envDir, pc, faults>>

\* initialize(): its loop starts again after any error.
BootstrapSteps == {"gitConfig", "gitServer", "values", "bootstrapGit"}
\* installAll().
InstallSteps == {"deploy", "deploying", "commit", "setup"}
\* Outside the loops: an error ends the process.
PlainSteps == {"state", "prerequisites", "manifests", "resetMode", "start"}

Labels == {"down", "clone", "attempt", "complete", "failed", "cleanup", "running"}
          \cup BootstrapSteps \cup InstallSteps \cup PlainSteps

TypeOK ==
    /\ request \in [mode : Modes, password : BOOLEAN]
    /\ status \in Statuses /\ mode \in Modes
    /\ credentials \in BOOLEAN /\ gitServer \in BOOLEAN
    /\ envDir \in {"empty", "files", "repo"}
    /\ branch \in BOOLEAN
    /\ release \in {"none", "pending", "deployed"}
    /\ setUp \in BOOLEAN
    /\ pc \in Labels
    /\ faults \in Nat

\* A fresh cluster; a cluster to be recovered from a repository that exists, with
\* the credentials the recovery requires; or one installed by a version that kept
\* no status.  The chart writes status "pending" and the mode.
Init ==
    /\ \/ /\ request \in [mode : Modes, password : BOOLEAN]
          /\ status = "pending"
          /\ release = "none" /\ setUp = FALSE
          /\ credentials = (request.password \/ request.mode = "recovery")
          /\ branch = (request.mode = "recovery")
       \/ /\ request = [mode |-> "standard", password |-> TRUE]
          /\ status = "unset"
          /\ release = "deployed" /\ setUp = TRUE
          /\ credentials = TRUE /\ branch = TRUE
    /\ mode = request.mode
    /\ gitServer = FALSE
    /\ envDir = "empty"
    /\ pc = "down"
    /\ faults = 0

Fault(kind) == kind \in Faults /\ faults < MaxFaults /\ faults' = faults + 1

NoFault == faults' = faults

Goto(label) == pc' = label

\* With a password in the values, or in a recovery, the repository is an external
\* one; else it is on the platform's own git server.
ExternalRepository == request.password \/ request.mode = "recovery"

-----------------------------------------------------------------------------
(* main() up to the choice of the installation mode.                       *)

Start ==
    /\ pc = "down"
    /\ Goto("state")
    /\ NoFault
    /\ UNCHANGED <<request, status, mode, cluster, envDir>>

\* updateInstallationStatus swallows its errors.
RecordStatus(new) ==
    \/ status' = new /\ NoFault
    \/ Fault("statusWrite") /\ UNCHANGED status

BrokenIsInstalled(s) == s \in {"completed", "in-progress"}

BrokenIsDeployed(s) == s = "deployed"

IsInstalled(s) == s = "completed"

\* getInstallationState: a ConfigMap without a status stands for a cluster that is
\* installed already, and the status is written.
GetInstallationState ==
    /\ pc = "state"
    /\ \/ /\ status = "unset"
          /\ RecordStatus("completed")
          /\ Goto("start")
       \/ /\ status # "unset"
          /\ Goto(IF IsInstalled(status) THEN "start"
                  ELSE IF mode = "recovery" THEN "prerequisites" ELSE "gitConfig")
          /\ NoFault
          /\ UNCHANGED status
    /\ UNCHANGED <<request, mode, cluster, envDir>>

-----------------------------------------------------------------------------
(* Recovery: the credentials and the recovery manifests, then a clone of   *)
(* the repository into ENV_DIR.                                            *)

CheckPrerequisites ==
    /\ pc = "prerequisites"
    /\ Goto(IF credentials THEN "manifests" ELSE "down")
    /\ NoFault
    /\ UNCHANGED <<request, status, mode, cluster, envDir>>

\* Secrets that exist are kept.
ApplyRecoveryManifests ==
    /\ pc = "manifests"
    /\ Goto("clone")
    /\ NoFault
    /\ UNCHANGED <<request, status, mode, cluster, envDir>>

RecoverFromGit ==
    /\ pc = "clone"
    /\ envDir = "empty" /\ branch
    /\ envDir' = "repo"
    /\ Goto("resetMode")
    /\ NoFault
    /\ UNCHANGED <<request, status, mode, cluster>>

\* git clone refuses a directory that is not empty; a second later it is tried
\* again, for ever.
RecoverRefused ==
    /\ pc = "clone"
    /\ envDir # "empty" \/ ~branch
    /\ UNCHANGED vars

ResetRecoveryModeToStandard ==
    /\ pc = "resetMode"
    /\ mode' = "standard"
    /\ Goto("attempt")
    /\ NoFault
    /\ UNCHANGED <<request, status, cluster, envDir>>

-----------------------------------------------------------------------------
(* Standard mode: the bootstrap handler.                                   *)

\* getInitialGitConfig: a password in the values always counts, a stored one only
\* when there is none, and without either one is generated.
IsInitial == request.password \/ ~credentials

\* initializeGitConfig, its first write.
SetGitConfig ==
    /\ pc = "gitConfig"
    /\ IF IsInitial
       THEN credentials' = TRUE /\ Goto("gitServer")
       ELSE UNCHANGED credentials /\ Goto("values")
    /\ NoFault
    /\ UNCHANGED <<request, status, mode, gitServer, branch, release, setUp, envDir>>

\* ... and its second.
SetGitServerConfig ==
    /\ pc = "gitServer"
    /\ gitServer' = TRUE
    /\ Goto("values")
    /\ NoFault
    /\ UNCHANGED <<request, status, mode, credentials, branch, release, setUp, envDir>>

\* bootstrap(): basic files, migration, values, secrets, directories.
BootstrapValues ==
    /\ pc = "values"
    /\ envDir' = IF envDir = "empty" THEN "files" ELSE envDir
    /\ Goto("bootstrapGit")
    /\ NoFault
    /\ UNCHANGED <<request, status, mode, cluster>>

\* bootstrapGit(): kept, cloned or initialised, ENV_DIR is a repository.
BootstrapGit ==
    /\ pc = "bootstrapGit"
    /\ envDir' = "repo"
    /\ Goto("attempt")
    /\ NoFault
    /\ UNCHANGED <<request, status, mode, cluster>>

InitializeFails ==
    /\ pc \in BootstrapSteps
    /\ Fault("call")
    /\ Goto("gitConfig")
    /\ UNCHANGED <<request, status, mode, cluster, envDir>>

-----------------------------------------------------------------------------
(* reconcileInstall.                                                       *)

BeginAttempt ==
    /\ pc = "attempt"
    /\ RecordStatus("in-progress")
    /\ Goto("deploy")
    /\ UNCHANGED <<request, mode, cluster, envDir>>

\* Helm refuses a release on which an operation is pending.
Deploy ==
    /\ pc = "deploy"
    /\ IF release = "pending"
       THEN Goto("failed") /\ UNCHANGED release
       ELSE Goto("deploying") /\ release' = "pending"
    /\ NoFault
    /\ UNCHANGED <<request, status, mode, credentials, gitServer, branch, setUp, envDir>>

Deployed ==
    /\ pc = "deploying"
    /\ release' = "deployed"
    /\ Goto("commit")
    /\ NoFault
    /\ UNCHANGED <<request, status, mode, credentials, gitServer, branch, setUp, envDir>>

\* The platform's git server does not start without its credentials.
Reachable == ExternalRepository \/ gitServer

BrokenAfterRefusedPush == "setup"

\* The push fails, or the check after it finds no branch.
AfterRefusedPush == "failed"

\* commit(gitConfig, true): bootstrapGit once more, then the push and its check.
Commit ==
    /\ pc = "commit"
    /\ envDir' = "repo"
    /\ IF Reachable
       THEN branch' = TRUE /\ Goto("setup")
       ELSE UNCHANGED branch /\ Goto(AfterRefusedPush)
    /\ NoFault
    /\ UNCHANGED <<request, status, mode, credentials, gitServer, release, setUp>>

SetUp ==
    /\ pc = "setup"
    /\ setUp' = TRUE
    /\ Goto("complete")
    /\ NoFault
    /\ UNCHANGED <<request, status, mode, credentials, gitServer, branch, release, envDir>>

\* A call of installAll throws; a Helm operation that was killed stays pending.
InstallFails ==
    /\ pc \in InstallSteps
    /\ Fault("call")
    /\ Goto("failed")
    /\ release' \in IF pc = "deploying" THEN {"none", "pending"} ELSE {release}
    /\ UNCHANGED <<request, status, mode, credentials, gitServer, branch, setUp, envDir>>

Complete ==
    /\ pc = "complete"
    /\ RecordStatus("completed")
    /\ Goto("start")
    /\ UNCHANGED <<request, mode, cluster, envDir>>

ReportFailure ==
    /\ pc = "failed"
    /\ RecordStatus("failed")
    /\ Goto("cleanup")
    /\ UNCHANGED <<request, mode, cluster, envDir>>

BrokenAfterCleanUp == "initialize"

AfterCleanUp == "attempt"

BrokenCleanedRelease == release

CleanedRelease == IF release = "pending" THEN "none" ELSE release

\* deletePendingHelmReleases; its errors are only logged.
CleanUp ==
    /\ pc = "cleanup"
    /\ \/ release' = CleanedRelease /\ NoFault
       \/ Fault("call") /\ UNCHANGED release
    /\ Goto(AfterCleanUp)
    /\ UNCHANGED <<request, status, mode, credentials, gitServer, branch, setUp, envDir>>

-----------------------------------------------------------------------------
(* The GitOps phase, and the end of the process.                           *)

\* loadConfig reads the credentials, start() keeps the repository or clones it.
StartOperator ==
    /\ pc = "start"
    /\ IF credentials /\ branch /\ envDir # "files"
       THEN envDir' = "repo" /\ Goto("running")
       ELSE UNCHANGED envDir /\ Goto("down")
    /\ NoFault
    /\ UNCHANGED <<request, status, mode, cluster>>

\* An error outside the retry loops: process.exit(1), and the container restarts.
Exit ==
    /\ pc \in PlainSteps
    /\ Fault("call")
    /\ Goto("down")
    /\ UNCHANGED <<request, status, mode, cluster, envDir>>

Crash ==
    /\ pc # "down"
    /\ Fault("crash")
    /\ Goto("down")
    /\ UNCHANGED <<request, status, mode, cluster, envDir>>

Evict ==
    /\ Fault("evict")
    /\ Goto("down")
    /\ envDir' = "empty"
    /\ UNCHANGED <<request, status, mode, cluster>>

\* The GitOps phase goes on for ever.
Running == pc = "running"

Stay == Running /\ UNCHANGED vars

Progress ==
    \/ Start \/ GetInstallationState
    \/ CheckPrerequisites \/ ApplyRecoveryManifests \/ RecoverFromGit
    \/ ResetRecoveryModeToStandard
    \/ SetGitConfig \/ SetGitServerConfig \/ BootstrapValues \/ BootstrapGit
    \/ BeginAttempt \/ Deploy \/ Deployed \/ Commit \/ SetUp \/ Complete
    \/ ReportFailure \/ CleanUp \/ StartOperator

Next ==
    \/ Progress \/ RecoverRefused \/ Stay
    \/ InitializeFails \/ InstallFails \/ Exit \/ Crash \/ Evict

Spec == Init /\ [][Next]_vars

\* The process runs, and is restarted when it ends.
FairSpec == Spec /\ WF_vars(Progress)

-----------------------------------------------------------------------------
(* Properties.                                                             *)

Installed == release = "deployed" /\ branch /\ setUp

\* From where on the way to completion what is in place: the strengthening that
\* makes CompletedMeansInstalled inductive.
Attempting == {"deploy", "deploying", "commit", "setup", "attempt", "failed", "cleanup"}
PlaceInv ==
    /\ pc \in {"commit", "setup", "complete", "start", "running"} => release = "deployed"
    /\ pc \in {"setup", "complete", "start", "running"} => branch
    /\ pc \in {"complete", "start", "running"} => setUp
    /\ status = "unset" => Installed
    /\ pc \in BootstrapSteps \cup Attempting
              \cup {"prerequisites", "manifests", "clone", "resetMode"}
         => status \notin {"completed", "unset"}

\* A recorded completion is never false, although every status write may be lost
\* and every attempt be cut short: nothing after it repairs the installation.
CompletedMeansInstalled == status = "completed" => Installed

\* The GitOps phase is entered only over an installed platform and with a clone to
\* work in, whichever way the process got there.
RunsOnInstalled == Running => Installed /\ envDir = "repo"

\* A platform recorded as installed is not installed again: its status and its
\* releases stay, also over restarts.
NeverReinstalled ==
    [][status = "completed" => status' = "completed" /\ release' = release]_vars

\* What an interrupted bootstrap leaves: a generated password that is stored, and a
\* git server that was never told of it.
HalfConfigured == ~ExternalRepository /\ credentials /\ ~gitServer

\* What an interrupted recovery leaves: a clone, and the mode that asks for another.
HalfRecovered == mode = "recovery" /\ envDir # "empty"

\* Whatever fails or restarts, finitely often, the installation succeeds or is left
\* in one of these two states for good: there is no third way to be stuck.
SucceedsUnlessHalfDone ==
    []<>Running \/ <>[]HalfConfigured \/ <>[]HalfRecovered

\* operator/EXECUTION_FLOW.md, "Installation Phase": "Retries indefinitely until
\* success" - for a platform that runs its own git server.
StandardInstallSucceeds == request.mode = "standard" => []<>Running

=============================================================================
