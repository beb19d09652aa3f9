# Verification of the platform operator (otomi-core)

This directory holds TLA+ modules for the operator of the App Platform
(`src/operator/`, with the commands of `src/cmd/` and `src/common/` it calls),
the TLC configurations that check them on small instances, and TLAPS proofs of
the properties that matter most. Paths below are relative to the repository's
root; `PROJECT.json` maps every definition to the lines it stands for.

## Inventory

| Part | State | Operations | Talks to |
| --- | --- | --- | --- |
| `operator/main.ts`, `installer.ts` | ConfigMap `apl-installation-status` (status, mode), `ENV_DIR` | choose a mode, recover, initialize, install until it succeeds | Kubernetes API, Helm, git |
| `cmd/bootstrap.ts`, `common/bootstrap.ts`, `common/git-config.ts` | Secrets `apl-git-config`, `git-server-credentials`; the clone | generate and store credentials, write the first values, create or clone the repository | Kubernetes API, git |
| `cmd/install.ts` | Helm releases, deployment status | deploy in stages, commit, verify the push, create the initial credentials | helmfile, kubectl, git |
| `operator/apl-operator.ts` | `isApplying`, ConfigMap `apl-operator-state`, `/tmp/ready` | poll loop, reconcile loop, `runApplyIfNotBusy` | the next four parts |
| `operator/git-repository.ts` | the clone, `_lastRevision` | clone, reset to the remote, decide what changed | git server |
| `cmd/commit.ts` | the clone, the remote branch | commit, rebase, push, clean up after a conflict | git server |
| `cmd/apply.ts`, `apply-teams.ts`, `apply-as-apps.ts` | what the cluster was last given | teams, platform Applications, namespace Applications | helmfile, Argo CD |
| `common/runtime-upgrade.ts`, `runtime-upgrades/` | ConfigMap of the deployment status | operations before and after the apply of a new version | Kubernetes API, Argo CD |
| `restart-platform-auth-pods.ts`, `restart-istio-sidecars.ts` | marker ConfigMap, annotations of workloads | restart each workload once | Kubernetes API |
| `common/sealed-secrets.ts` | key pair Secret, manifests in the repository | create or keep the key, seal, apply, wait | Kubernetes API |
| `cmd/migrate.ts` | version in the values, some cluster objects | change values from one version to the next | files, Kubernetes API |
| `common/repo.ts`, `values.ts` | files of the values repository | read and write values | files |
| `cmd/*` for developers | none | diff, lint, template, validate | - |

Hard behaviour. The operator is one Node process with two endless loops. They
interleave at every `await`, share one clone of the values repository and one
flag. Users push to the same branch. Most errors are logged and swallowed, the
rest end in a retry, in the state `failed`, or in `process.exit(1)`; then the
container restarts with the disk it had (`ENV_DIR` and `/tmp` are emptyDir
volumes), or, when the pod is replaced, without it. `PROJECT.json` lists the
hazards that follow, each at its line with the properties that would catch it.

What makes the parts correct:

- operator: one apply at a time; the lock is given back; what users pushed
  reaches the cluster; it is not rolled back; what is reported is true;
- repository: no user commit is lost; skipping and teams-only runs overlook
  nothing;
- installer: completion is recorded only when true, and lasts; every failure is
  followed by another attempt that can succeed;
- upgrades: every operation on the way from one recorded version to a later one
  runs, and runs before the version is recorded;
- restarts: each job restarts a workload once per attempt whose end was not
  recorded and once more, when the restart has its effect, and says so only when it
  was done;
- secrets: the stored key pair is kept, what is sealed can be opened, what is
  installed has its Secrets, the password shown is real;
- migration: values that claim a version show all its changes, passwords survive,
  and the change that pauses the external secrets operator is not recorded while that
  is down or out of sync, so that it is repeated;
- Applications: nothing wanted is deleted, nothing is orphaned, and the cluster
  ends up with what the repository asks for;
- values files: what was saved is what is loaded, in an order that does not depend
  on which file was read first.

## Modules

| Module | Models | Source |
| --- | --- | --- |
| `GitHistory` | histories, log, diff and rebase as the operator uses them | `git-repository.ts`, `commit.ts` |
| `PlatformDelivery` | what the running operator promises; abstract | |
| `AplOperator` | both loops over one clone, a server, a cluster, users | `apl-operator.ts`, `git-repository.ts`, `commit.ts`, `apply.ts` |
| `Installer` | main up to the GitOps phase | `main.ts`, `installer.ts`, `bootstrap.ts`, `install.ts` |
| `RuntimeUpgrade` | `applyAll` over versions of the platform and of the operator itself | `apply.ts`, `runtime-upgrade.ts`, `k8s.ts`, `apply-as-apps.ts` |
| `WorkloadRestarts` | the two jobs that restart workloads after an apply | `restart-istio-sidecars.ts`, `restart-platform-auth-pods.ts` |
| `SealedSecrets` | key pair, manifests and Secrets from bootstrap to set-up | `sealed-secrets.ts`, `bootstrap.ts`, `install.ts`, `commit.ts` |
| `Migration` | values of an older release brought to the new one | `migrate.ts`, `apl-operations.ts` |
| `GitOpsApps` | the Applications a run adds, changes and removes | `apply-as-apps.ts` |
| `ValuesFiles` | saving and loading values | `repo.ts` |
| `MCAplOperator` | the sets of commits the instances use | |
| `...Proofs` of `AplOperator` (with `GitHistory`), `Installer`, `RuntimeUpgrade`, `SealedSecrets`, `GitOpsApps`, `WorkloadRestarts`, `Migration`, `ValuesFiles` | theorems | |

The modules of the lower half look inside what `AplOperator` and `Installer` take
as one step: `GitOpsApps` and `RuntimeUpgrade` inside `ApplyApps`, `Migration` and
`ValuesFiles` inside `Prepare`, `SealedSecrets` inside the bootstrap and the stages
of `Installer`. What reaches them from the rest of the operator is an action of
theirs: a poll cycle that resets `ENV_DIR` in the middle of a run is `Reset` in
`Migration`, `GitOpsApps` and `ValuesFiles`.

### GitHistory

A commit hash names the history that ends in it, so a revision is the sequence
of commits up to it. A commit keeps its author, whether everything it touches
is under `env/teams/` or `teams/`, and whether its message carries `[ci skip]`.
One detail is kept although it looks like an accident: simple-git's
`log({from, to})` asks for `from...to`, the symmetric difference.

### AplOperator

`pc["poll"]` and `pc["reconcile"]` say at which `await` each loop stands. An
action is the code between two awaits at which another actor could matter:
`PollWake`, `PullFetch`, `PullReset`, `CurrentRevision`, `SkipCheck`,
`DiffCheck` are `pollAndApplyGitChanges` and `syncAndAnalyzeChanges`;
`BeginApply`, `Prepare`, `Commit`, `Pull`, `Push`, `AbortRebase`, `DropCommit`,
`ApplyTeams`, `ApplyApps`, `Finish`, `Release`, `ReportFailure` are
`runApplyIfNotBusy` with `commit()` and `applyAll()` inside. The data of values
is abstracted: to apply a tree is to record its revision in `deployed`, once
for the teams and once for the platform. Locals of the code (`commitHash`,
`applyTeamsOnly`, `previousRevision`, `newRevision`) are variables because the
other loop runs while they are held; they are reset when they go out of scope.

Faults are actions guarded by a kind: a failing git call (`git`), a step of an
apply that fails after its retries, or a retry of `applyAll` (`apply`), an error
that is only logged (`swallow`), the early return of `applyAll` when the
operator's own Application moves (`pause`), a lost write of
`apl-operator-state` (`stateWrite`), a rebase conflict (`conflict`), a failing
`git rebase --abort` or `git reset` while it is cleaned up (`cleanup`), a container
restart (`crash`), a replaced pod (`evict`).

### PlatformDelivery

What those who push may rely on: one delivery at a time, only commits of the branch
are delivered, and neither the branch nor the platform goes back. `AplOperator`
implements it (`ImplementsDelivery`) with the branch as the users' commits on the
server (`Work(remote)`), each part of the platform as those of the revision it was
last applied from (`Work(deployed[s])`), and the deliverer as the loop in an apply
run (`Busy`). Poll cycles, the operator's own commits, fetches and resets are
stutters; a push of the operator is a step of the branch, or one too.

### Installer

`pc` names the step of `main()`; the cluster is the status ConfigMap, two
Secrets, one Helm release that stands for what `installAll` deploys, the branch
on the server and the resources created at the end. `initialize()` and
`reconcileInstall()` retry for ever; errors elsewhere end the process. Whether
the values hold a git password decides if the repository is external.

### RuntimeUpgrade

The other view of `applyAll`: here the working tree and the lock do not matter,
the version does. `tag` is the version in the values, `revision` the one the
operator's own Application asks for, `running` the one whose code executes,
`deployment` the ConfigMap of the deployment status, `apps` the version of the
Applications. `pc` is the step of `applyAll`: `BeginApplyAll` says deploying and
reads the status back; `RunEntry` is an entry of `runtimeUpgrades`, with its own
operation and those of its applications; `ApplyAsApps` reads the version a second
time; `RecordDeployed` records the version of the operator. `ran` collects the
operations that completed since another version was recorded; the code does not
keep it, the properties are about it. `SyncOperator` is Argo CD replacing the
pod in the middle of whatever it does. At this commit `runtimeUpgrades` has the
single entry 6.3.0; the model takes any set of releases, in ascending order.
Versions are numbers: `2n` is a candidate of release `n`, `2n + 1` the release. An
image tag is taken to name the version of the package in the image.
`AplOperator` sees the same pause as its fault `pause`.

### WorkloadRestarts

Pods have a proxy version and, behind platform authentication, Keycloak's keys, both
of the moment they are created. `EndApply` begins one job or the other: `WaitForIstiod`,
`ListPods`, then pod by pod `RestartOwner` (a patch of the owner, whose pods are then
replaced one by one) or `DeletePod` (Tekton, whose pods are named), `EndPods`; and
`NeedRestart`, `CheckHealth`, `MarkRestarted` around the second. After the first,
`RecordUpgrade` is the rest of `applyAll`: commit, `applyGitOpsApps`,
`setDeploymentState`; when one of the first two fails, or the record is lost without a
word, the job runs again, also on pods that are still being replaced. `Skips` and `done`
are the set of workloads a job has restarted already. The ten faults: failing reads, a
patch that fails (logged; the workload counts as restarted), a deletion that fails (the
job ends), a lost or failed write of the marker, a failing step between job and record, a
lost record, a crash, a wait that gives up, a status of Argo CD that is older than the
Application, and pods replaced for other reasons. `missed` and `unrecorded` remember
which restarts did not happen and how many attempts of a job got to its pods without
being recorded; the properties need them, the code has nothing of the kind. `restarts`
counts patches; deletions of Tekton pods are not counted.

`Key` abstracts from `getWorkloadKeyFromPod`, whose keys lack the kind of a workload: the
model takes workloads of a namespace to differ in name and the key to be found. Two of
the same name and different kinds would share a key, and one would not be restarted.

### SealedSecrets

A bootstrap draws passwords, a CA and names of users anew each time; its number
stands for all of them. A manifest is the key it is sealed with and the bootstrap its
content is from. `ProcessValues` to `BootstrapGit` are `bootstrap()`, in which
`ExistingCert`, `GenerateKeyPair` and `CreateKeySecret` are `bootstrapSealedSecrets`
with its two errors that are only logged; `DeployController` to `SetUp` are the stages
of `installAll` that concern secrets, the wait with its time-out included. `Unseal` is
the controller in the cluster. `initialize()` repeats the bootstrap, `reconcileInstall()`
the installation, a crash both, an eviction also loses `ENV_DIR`.

### Migration

`disk` and `remote` hold a `specVersion`, the changes their files show and the sealed
manifests. A run goes through defaults, `FilterChanges`, the changes in order
(`ChangeValues`, `RemoveFile`, `MigrateGeneratedSecrets` with its pause of the external
secrets operator, `ApplyCrd`, which is before the `try`, copies, discarded manifests and
`finally`), the write of all files at
once (`WriteFile`, in any order, also after the run has failed), commit and deployment.
What the cluster does meanwhile are `Prune`, `SelfHeal` and `Generate`. `mishaps` names
the faults that the properties exclude. `RemoveFile` is `removeIngressNginxValues` and
`removeSopsConfig`; their `rm` may find no file, which is a case of `RunFails`. No change
in `values-changes.yaml` has `fileDeletions`, so that the loop over them does nothing.

### GitOpsApps

A run lists releases, then values, then the Applications, each by a call of its own,
removes, applies, and does the same for directories. An Application is absent, live,
bare (without finalizer, left by an earlier release) or being deleted; `Finalize` lets it
go with its resources. Failing calls are swallowed (an empty list, an Application not
applied, not removed, a controller not restarted) or end the run. `Begin(TeamReleases)` is the run for teams only.

### ValuesFiles

A table (`PlatformMaps`, `TeamMaps`) says which parts of the values have one file, one
per key or one per item, and whether a load puts them back. A save writes its files
concurrently and ends with the first failure, while other writes go on; a load lists
the files, then reads them in any order and sorts the lists at the end. What a file
holds is the number of the save it is from.

## Runs

| Run | Result | What it shows |
| --- | --- | --- |
| `operator_safety` | passes | two user commits of every kind, failing calls, lost state writes, restarts and replaced pods; the refinement of `PlatformDelivery` |
| `operator_conflicts` | passes | conflicts, a clean-up that may fail, and restarts: nothing of the users' is lost, no rollback |
| `operator_liveness` | passes | fair loops, one fault of any kind: convergence, outcome |
| `operator_succeeded` | violated | succeeded for a revision not applied, without any fault |
| `installer` | passes | three faults of any kind, all starting points |
| `installer_password` | violated | one failed call and the standard installation never succeeds |
| `upgrade` | passes | version changes up and down, silent faults, the operator replaced at any step |
| `workload_restarts` | passes | both jobs over three kinds of workloads: once each, and once more for every attempt whose end was not recorded; the marker and the record are true |
| `sealed_secrets` | passes | repeated bootstraps and installations, three faults of eight kinds |
| `migration` | passes | values of four versions, three faults of seven kinds |
| `gitops_apps` | passes | full and teams-only runs, two faults, one change by a user |
| `values_files` | passes | two saves, with loads, commits, removals, resets and crashes at any point |

Each violated run checks a sentence of the repository's documentation or code;
`PROJECT.json` quotes it under `findings`.

Bounds. Two user commits are needed for a poll cycle that sees a marked and an
unmarked commit, for a diff that mixes scopes, and for a second cycle that
compares with a revision that was dropped. One operator commit per history lets
it be rebased, conflict and be seen by the poll loop; with none of the user's it
is the operator's own commit that must not trigger a run. One fault at any point
shows each recovery; `operator_conflicts` has two, so that the clean-up of a conflict can
fail or be cut off by a restart; the installer, whose state is small, gets three, so that a
lost status write can coincide with a crash and a failed call.
The faults of `applyAll` that are only logged, and its early return, add nothing
to the questions of `operator_safety` (they change what the cluster runs) and are
left to the liveness run. `upgrade` has three releases with candidates, so that an
upgrade may pass over an entry and stop inside one; two version changes, so that
one may interrupt the other or go back; two faults, so that a lost write may meet
a crash.
`MaxUserCommits` is one in the liveness run, where the state graph is explored
with its fairness conditions: convergence needs a commit that arrives at any
point, and faults that hit its apply. Conflicts are left out of `operator_safety`
and `operator_liveness`: an unfinished rebase (see below) breaks
`AppliesWhatItReports`, `SkipsOnlyMarked` and `Convergence`.

`workload_restarts` has one workload that is patched and one of Tekton with two pods
each, so that a second pod of a workload that was restarted comes up, and a pod without
owner; two faults let a job break off, or its record be lost, and its repetition go wrong. `sealed_secrets` has
one user, whose name differs in each bootstrap, and four bootstraps: one more than three
faults can cause. `migration` starts from any of four versions; of the changes after the
first, one removes a file, one moves secrets and one is of values only, so that a run can
break off between any two kinds; one app is enabled and one is not. `gitops_apps` has a
release that cannot be disabled, one of a team, a namespace and the cluster resources,
hence each branch of the comparison; one change by a user suffices for a run that acts on
what it read before. `values_files` has a part with one file, a list of a team that is
loaded and one that is not; two names so that lists have an order, two saves so that an
older file is overwritten, kept or half-written.

Fairness. Both loops are endless and every call they await returns or times out
(`WF` of the steps and of `ReconcileTick`). `PollWake` gets strong fairness: the
poll loop wakes every `POLL_INTERVAL_MS`, far more often than the reconcile loop,
so it finds the flag down again and again between runs; weak fairness would let
the flag be up at each wake-up. No fault and no user's commit is fair. In
`Installer` the process runs and its container is restarted by Kubernetes
(`WF` of `Progress`). In `RuntimeUpgrade` the reconcile loop calls `applyAll` for
ever (`WF` of `ApplyAll`) and Argo CD syncs the operator's Application in the end
(`WF` of `SyncOperator`); no version change and no fault is fair.
In `SealedSecrets` the process goes on and is restarted (`WF` of `Progress`) and the
controller opens what it can (`WF` of each `Unseal`). In `Migration` cycles go on for ever
(`WF` of `Run`), writes end although nobody waits for them any more (`WF` of
`WriteFile`), and Argo CD heals itself (`WF` of `SelfHeal`). In `GitOpsApps` full runs
begin again and again (`SF` of `Begin(Releases)`: the reconcile loop competes with the
teams-only runs of the poll loop for the flag) and go on (`WF` of `Step`), the poll loop
pulls between runs (`SF` of `Pull`: whether it wakes then is a matter of time, and it
wakes more often than runs begin), and Argo CD syncs and finalizes unless it hangs. In
`WorkloadRestarts` the operator applies again (`WF` of `Step`), and Keycloak, oauth2-proxy
and istiod come up in the end (`WF` of `Settle`); pods need not be replaced. `ValuesFiles` has no
liveness property and states no fairness.

## Proofs

`tlapm` proves, for all values of the constants:

- `TypeCorrect`, `InstallerTypes`: type invariants. For `AplOperator` that rests
  on lemmas about prefixes, rebase and the differences of histories, which
  `AplOperatorProofs` states first. One type matters later: every commit of the
  operator carries the marker.
- `ApplyLock`: one apply at a time. `OneApplyAtATime` says both that the flag is
  up exactly while a loop is in a run and that not both are; together with the
  types this is inductive, the first half alone is not.
- `NothingLost`: users' work stays on the server. A push is a fast-forward, so the
  old history is a prefix of the new one; a user's push appends.
- `TeamsOnlyIsSafe`: from `TeamsOnlyKeepsPlatform`, for all histories: when all
  commits that only one of two histories has touch teams, the two have the same
  platform commits.
- `DeliveryImplemented`, `NothingRolledBack`: the operator implements
  `PlatformDelivery`, and nothing is rolled back, for all faults, conflicts included.
  Both need to know of each revision in use which other one has its users' commits.
  A prefix is too much to ask, because a rebase moves the operator's commits; that the
  sets of commits are included is too little, because a rebase and the clean-up of a
  conflict cut histories by position. `KeptIn(g, h)` lies between: whatever is not the
  operator's is in `h` at the same place, with the same past. Resets, rebases, pushes
  and the removal of a commit each have a lemma on it. The inductive invariant
  `DeliveryInv` has four parts. `BranchHasAll`: what the clone, the fetched branch, a
  rebase under way and the cluster have is on the server. `CloneHasCluster`: the clone
  has what the cluster was given; without it the next run could apply something
  older. `CleanUpKeepsCluster`: when a conflict is cleaned up, `git rebase --abort` and
  `git reset --hard HEAD~1` may meet a clone that the poll loop has reset in between, and
  then drop a commit of the server's, or fail and drop nothing: what is lost so is not in
  the cluster yet. It has
  to be known from the moment of the conflict, for each revision the clone may be at
  when the commit is dropped. `CloneExists` says when there is a history at all.
- `ReportsWhatItApplies`, `SkipsAreMarked`: from `RevisionsKept`, the revisions that
  the loops hold in their locals across awaits are kept in the clone's head. Both
  theorems assume that `"conflict"` is not among the faults, as the run
  `operator_safety` does, because a conflict that is left half cleaned up breaks both
  properties. `SkipsAreMarked` needs in addition that the commits of only one
  of two revisions are the operator's or new ones (`log` is symmetric), hence that the
  operator's are marked.
- `CompletionIsTrue`, `GitOpsAfterInstall`, `InstalledOnce`: the inductive
  invariant is `TypeOK /\ PlaceInv /\ CompletedMeansInstalled /\ RunsOnInstalled`.
  `PlaceInv` says what is in place at each step on the way to completion and that
  an attempt never starts from a completed status; without it nothing is known at
  `Complete`, which does not look at the cluster.
- `UpgradeTypes`, `NothingTwice`, `NothingSkipped`: the safety properties of
  `RuntimeUpgrade`. The inductive invariant `UpgradeInv` adds to the types that the
  status a run works with is the recorded one or an empty one (`StatusInv`), and,
  as long as no fault was silent, that it is the recorded one, that it names the
  operator that runs, and that every entry passed so far has run (`ProgressInv`).
  Without `ProgressInv` nothing is known of the operations when the version is
  recorded.
- `NothingOrphaned`, `WantedStay`, `GitOpsTypes`: the safety of `GitOpsApps`. `RunInv`
  says what a run knows at each step: until `ENV_DIR` is reset, the releases it installs
  and the directories it requires are those asked for; none of them is on a list for
  removal, and neither is the Application for cluster resources; Applications of
  directories have the finalizer, so that `Deleted`, which would make one without it go
  at once, never meets such a one.
- `KeyKept`, `SealedWithIt`, `InstalledHasSecrets`, `ShownIsReal`, `SecretsTypes`: the
  safety of `SealedSecrets`. `KeyInv`: as long as neither error of the key pair was
  swallowed, a new pair is made only where none is stored, the public key in use at
  `write` is the stored one, and so is that of all manifests; `KeyedInv` (a manifest
  is sealed with the key of some bootstrap) is needed for the first pair, which can
  have no manifests before it. `SecretInv`, `AdminInv` and `ApplyInv` say that the Secret
  of a user holds the password drawn with its name, that the administrator of the last
  bootstrap is among the manifests, and that what is on disk is applied or still to be:
  without them nothing is known when the wait is over or the password is looked up.
- `RestartedOnce`, `MarkerIsTrue`, `UpgradeIsTrue`, `RestartsTypes`: the safety of
  `WorkloadRestarts`. `CountInv` splits the count of `OncePerJob`: a workload that a job
  may still restart was restarted only by attempts whose end was not recorded, so one
  more restart keeps the bound; between job and record the upgrade is still due, but
  nothing can restart. `KeysInv` and `ProxyInv` follow what a restart achieves from the
  moment it is asked for to the replacement of the last pod; `JobInv` supplies that
  Keycloak is there when the job behind platform authentication has got so far.
- `MigratedIsTrue`, `PasswordsSurvive`, `ResumedInTheEnd`, `MigrationTypes`: the safety of
  `Migration`. `VersionInv`: versions only go up and only the latest is committed;
  `ChangesInv`: a version comes with its changes, on disk or in the writes under way,
  and during a run every change is in the values or still to be applied; `PasswordInv`:
  before the version of the change all sealed passwords are there, from it on all are
  copied, which is what a run repeated after a crash between copies and removals needs;
  `PauseInv`: as long as the pausing change is recorded nowhere the operator may be down,
  wherever the run is; a run has passed that change, and writes, only with the operator
  running and in sync.

- `FilesTypes`, `LoadsAgree`, `SavesAreLoaded`: all of `ValuesFiles`. The types already
  need a reason: that `LoadEnds` can sort a list rests on names that differ, and these
  differ because a file is read once (`ReadOnce`). `SortedFacts` shows, by counting, that
  an item's place is the number of the items before it, that every place is taken, and
  that sorting keeps the items. `WritesLand` says where the files of the last save are as
  long as nothing disturbed it: on disk or still to be written, with nothing else under
  way; `ReadSoFar` that a load has built, at any moment, what the files it has read hold,
  in which no order occurs.

Assumptions are `BoundsAssumption`, `InstallerAssumption`, `UpgradeAssumption`,
`GitOpsAssumption`, `SecretsAssumption`, `RestartsAssumption`, `MigrationAssumption` and
`FilesAssumption`: bounds are natural numbers, releases are
positive, the names of releases, directories and platform secrets differ from each
other and from those of users, workloads are of one kind and have at least one pod, the
change that moves secrets is one of the changes and removes no file, parts of the values
are those of the table, and faults come from the listed kinds.

With these, every safety property that a passing run checks is a theorem. Only
model-checked is everything under fairness (`Convergence`, `OutcomeReported`,
`SucceedsUnlessHalfDone`, `Upgraded`, `CAConverges`, `SucceedsUnlessLostKey`, `Migrated`,
`Converges`, `MarkedInTheEnd`), which is outside the prover's reach.

## Differences between documentation and code, besides the findings

`operator/EXECUTION_FLOW.md` says a reconcile "Waits if applying" (the code skips,
`apl-operator.ts:60`), that the lock "Prevents race conditions between poll and
reconcile" (the poll's reset runs during a reconcile's apply,
`apl-operator.ts:173`), names `waitForCommits`, which is gone, and says a failed
installation retries from the beginning (only `install` is repeated,
`installer.ts:141`). The models follow the code. Behaviour met while modelling that a
reader of the code may want to know, and that no property hides:

- The operator. A teams-only run that succeeds makes the pod ready although no full
  apply ever succeeded (against `adr/2026-08-11`, line 13). A conflict leaves a rebase
  unfinished when the aborting of it fails or is overtaken by a reset (`commit.ts:116`):
  every later pull then fails, until the pod is replaced. A failing `git reset` leaves the
  commit in conflict in the clone (`commit.ts:55-59`); neither rolls the cluster back.
- Installation. A recovery that dies between its clone and the reset of its mode clones
  again into a directory that is not empty (`bootstrap.ts:21`), and never succeeds.
- Upgrades. The pause for the operator's own upgrade lasts one run: the next finds the
  Application changed already and applies with the old code (`apply.ts:38`). An
  operation of an application that fails is logged and recorded as done
  (`runtime-upgrade.ts:60`). `NoOperationSkipped` excludes these silent errors.
- Restarts. A Tekton workload with several pods gets one of them deleted; a pod without
  owner is only warned about; a failed patch counts as a restart; a Tekton pod replaced
  between list and deletion ends the job, whose repetition restarts other workloads
  again ("exactly once per cluster lifetime", `adr/2026-08-04`). A commit or an
  `applyGitOpsApps` that fails after the operations of an upgrade (`apply.ts:64-68`), or a
  record that is lost (`k8s.ts:333`), repeats them, restarts of workloads that are still
  being replaced included. After a wait for istiod that
  gave up or was misled by an old status, the upgrade is recorded all the same. That
  Keycloak goes down again after oauth2-proxy was healthy is not modelled.
- Secrets. Names of users are random in each bootstrap, so that Secrets of earlier ones
  stay and the password shown may be of a stale user (`PasswordShown` says it is one of
  an existing Secret). A manifest that was sealed with a key that got lost blocks
  `waitForSealedSecrets` for ever (`SucceedsUnlessLostKey`).
- Migration. `versions.yaml` is written beside the files it speaks of: a crash, a failing
  write or a reset in between leaves the new version over old data; an empty
  `versions.yaml` gets the latest version as default, and the migration is skipped. A file
  is deleted when its change is applied, also in a dry run. When the CRD cannot be applied after the external secrets operator was
  scaled down (`migrate.ts:652`), no `finally` resumes it: it stays down until the change
  is repeated.
- Applications. `getFinalizers` reads a field the client does not return and so
  finds none; `setFinalizers` replaces a list that has to be there: an Application without
  finalizers is never removed. One that is enabled again while it is being deleted
  vanishes until the next run. The controller of Argo CD is only restarted for an error
  on an Application that was listed.
- Values files. Files of parts that were removed from the values stay, and come back
  with the next load; list items without name collapse into one file `unknown`; a late
  write of a failed save can overtake one of the next save; a list item's file that was
  cut off makes every load fail.

## Not modelled

See `components` in `PROJECT.json`. Charts, templates and schemas are data. The
developers' commands keep no state. Reloading git credentials while the operator
runs is left out: the models assume that the repository does not move. The functions
of `migrate.ts` that no change in `values-changes.yaml` names are dead code for a
migration; what a change does to the data of values, the merge of defaults and the
validation of schemas are data, not control. The wrappers of helmfile, kubectl and
Helm are the calls that fail in every module.

## Plan

All modules of the first plan are done. Left:

1. Reloading of git credentials (`reloadConfig`) with a repository that moves.
2. The installation as an abstract specification of three states, with `Installer`
   shown to implement it.
3. Proofs with a weaker hypothesis than the absence of conflicts: that none was
   left half cleaned up.
