--------------------------- MODULE RuntimeUpgrade ---------------------------
(***************************************************************************)
(* The platform apply over versions: applyAll (src/cmd/apply.ts), the      *)
(* upgrade operations it runs before and after the Applications            *)
(* (src/common/runtime-upgrade.ts), the deployment status they are chosen  *)
(* by (src/common/k8s.ts), and the replacement of the operator itself by   *)
(* Argo CD, which follows the revision of the operator's own Application.  *)
(*                                                                         *)
(* A version is a number: 2n for a release candidate of release n, 2n + 1  *)
(* for release n, so that the order is semver's and dropping what follows  *)
(* the release number is \div 2.  APPS_REVISION is taken to be unset, as   *)
(* it is outside development: the expected revision is the values' tag.    *)
(*                                                                         *)
(* A definition named Broken... is a plausible mistake in the definition   *)
(* that follows it; no action uses it.                                     *)
(***************************************************************************)
EXTENDS Naturals

CONSTANTS
    MaxRelease,  \* bound: releases are 1..MaxRelease
    Upgrades,    \* the releases that have an entry in runtimeUpgrades
    MaxChanges,  \* bound: changes of the version in the values
    Faults,      \* the kinds of fault that may happen
    MaxFaults    \* bound: faults of a behaviour

\* "throw": a step throws; "swallow": an error that is only logged;
\* "statusWrite", "statusRead": kubectl on the deployment status fails unnoticed.
Silent == {"swallow", "statusWrite", "statusRead"}

FaultKinds == {"throw", "crash"} \cup Silent

ASSUME UpgradeAssumption ==
    /\ MaxRelease \in Nat \ {0}
    /\ Upgrades \subseteq 1..MaxRelease
    /\ MaxChanges \in Nat /\ MaxFaults \in Nat
    /\ Faults \subseteq FaultKinds

Versions == 2..(2 * MaxRelease + 1)

NoVersion == 0

VARIABLES
    tag,        \* otomi.version in the values
    revision,   \* of the operator's Application; NoVersion: there is none yet
    running,    \* the package version of the operator
    deployment, \* the ConfigMap of the deployment status
    apps,       \* the version of the Applications applied last
    pc,         \* where applyAll stands
    state,      \* its deploymentState
    handled,    \* entries this pass of runtimeUpgrade is done with
    ran,        \* operations run since another version was recorded last
    changes, faults,
    unnoticed   \* a silent fault happened

local == <<pc, state, handled>>
vars == <<tag, revision, running, deployment, apps, local, ran, changes, faults,
          unnoticed>>

Operations == [release : Upgrades, when : {"pre", "post"}, of : {"platform", "application"}]

\* A release candidate counts as its release: semver.coerce.
Coerced(v) == v \div 2

Unknown == [version |-> NoVersion, deployingVersion |-> NoVersion]

TypeOK ==
    /\ tag \in Versions /\ running \in Versions
    /\ revision \in Versions \cup {NoVersion}
    /\ apps \in Versions \cup {NoVersion}
    /\ {deployment, state} \subseteq
         [version : Versions \cup {NoVersion}, deployingVersion : Versions \cup {NoVersion}]
    /\ pc \in {"idle", "pre", "apply", "post", "record"}
    /\ handled \subseteq Upgrades
    /\ ran \subseteq Operations
    /\ changes \in Nat /\ faults \in Nat /\ unnoticed \in BOOLEAN

\* After an installation: installAll recorded its version, no Application exists.
Init ==
    /\ tag \in {2, 3}
    /\ running = tag
    /\ revision = NoVersion /\ apps = NoVersion
    /\ deployment = [version |-> tag, deployingVersion |-> tag]
    /\ pc = "idle" /\ state = Unknown /\ handled = {}
    /\ ran = {}
    /\ changes = 0 /\ faults = 0 /\ unnoticed = FALSE

Fault(kind) ==
    /\ kind \in Faults
    /\ faults < MaxFaults
    /\ faults' = faults + 1
    /\ unnoticed' = (unnoticed \/ kind \in Silent)

NoFault == UNCHANGED <<faults, unnoticed>>

\* applyAll returns or throws: its locals go out of scope.
EndApplyAll == pc' = "idle" /\ state' = Unknown /\ handled' = {}

-----------------------------------------------------------------------------
(* applyAll.                                                               *)

\* updateOperatorApplication: when the operator's Application is at another
\* revision it is moved, and the run ends.
OperatorMatches == revision \in {NoVersion, tag}

PauseForOperator ==
    /\ pc = "idle"
    /\ ~OperatorMatches
    /\ revision' = tag
    /\ NoFault
    /\ UNCHANGED <<tag, running, deployment, apps, local, ran, changes>>

\* setDeploymentState ignores a kubectl call that fails.
RecordDeployment(new) ==
    \/ deployment' = new /\ NoFault
    \/ Fault("statusWrite") /\ UNCHANGED deployment

\* Says deploying, then reads the status back; a failing read looks like an empty
\* status.
BeginApplyAll ==
    /\ pc = "idle"
    /\ OperatorMatches
    /\ pc' = "pre"
    /\ \/ /\ RecordDeployment([deployment EXCEPT !.deployingVersion = running])
          /\ state' = deployment'
       \/ /\ Fault("statusRead")
          /\ deployment' = [deployment EXCEPT !.deployingVersion = running]
          /\ state' = Unknown
    /\ UNCHANGED <<tag, revision, running, apps, handled, ran, changes>>

\* runtimeUpgrade does nothing at a first installation and unless the version rises.
Skips(s) ==
    \/ s.version = NoVersion \/ s.deployingVersion = NoVersion
    \/ s.deployingVersion <= s.version

BrokenSelectedShort(s) ==
    {u \in Upgrades : Coerced(s.version) < u /\ u < Coerced(s.deployingVersion)}

BrokenSelectedTwice(s) ==
    {u \in Upgrades : Coerced(s.version) <= u /\ u <= Coerced(s.deployingVersion)}

\* filterRuntimeUpgrades.
Selected(s) ==
    {u \in Upgrades : Coerced(s.version) < u /\ u <= Coerced(s.deployingVersion)}

ToHandle == IF Skips(state) THEN {} ELSE Selected(state) \ handled

Operation(u, when, of) == [release |-> u, when |-> when, of |-> of]

\* One entry, in the order of the list: its own operation, then the operations of
\* its applications, whose failures, waits that time out included, are ignored.
RunEntry(when) ==
    /\ pc = when
    /\ \E u \in ToHandle :
         /\ \A w \in ToHandle : u <= w
         /\ handled' = handled \cup {u}
         /\ \/ /\ ran' = ran \cup {Operation(u, when, "platform"),
                                   Operation(u, when, "application")}
               /\ NoFault
            \/ /\ ran' = ran \cup {Operation(u, when, "platform")}
               /\ Fault("swallow")
    /\ UNCHANGED <<tag, revision, running, deployment, apps, pc, state, changes>>

BrokenAfterEntries(when) == IF when = "pre" THEN "apply" ELSE "deployed"

AfterEntries(when) == IF when = "pre" THEN "apply" ELSE "record"

EntriesDone(when) ==
    /\ pc = when
    /\ ToHandle = {}
    /\ pc' = AfterEntries(when)
    /\ handled' = {}
    /\ NoFault
    /\ UNCHANGED <<tag, revision, running, deployment, apps, state, ran, changes>>

\* applyTeams and applyAsApps, which reads the version from the values once more.
\* The operator's Application is one of those applied.
ApplyAsApps ==
    /\ pc = "apply"
    /\ pc' = "post"
    /\ \/ apps' = tag /\ revision' = tag /\ NoFault
       \/ apps' = apps /\ revision' \in {revision, tag} /\ Fault("swallow")
    /\ UNCHANGED <<tag, running, deployment, state, handled, ran, changes>>

BrokenRecordedVersion == deployment.version

RecordedVersion == running

\* The commit, the GitOps Applications, then the version is recorded.
RecordDeployed ==
    /\ pc = "record"
    /\ RecordDeployment([deployment EXCEPT !.version = RecordedVersion])
    /\ ran' = IF deployment'.version # deployment.version THEN {} ELSE ran
    /\ EndApplyAll
    /\ UNCHANGED <<tag, revision, running, apps, changes>>

\* Any step throws; apply() and, after its retries, the reconcile loop start over.
ApplyAllThrows ==
    /\ pc # "idle"
    /\ Fault("throw")
    /\ EndApplyAll
    /\ UNCHANGED <<tag, revision, running, deployment, apps, ran, changes>>

ApplyAll ==
    \/ PauseForOperator \/ BeginApplyAll \/ ApplyAsApps \/ RecordDeployed
    \/ \E when \in {"pre", "post"} : RunEntry(when) \/ EntriesDone(when)

-----------------------------------------------------------------------------
(* The environment.                                                        *)

\* A user changes the version, up or down; the poll loop may bring the change in
\* while a run is under way.
ChangeTag ==
    /\ changes < MaxChanges
    /\ tag' \in Versions \ {tag}
    /\ changes' = changes + 1
    /\ NoFault
    /\ UNCHANGED <<revision, running, deployment, apps, local, ran>>

\* Argo CD replaces the operator's pod (strategy Recreate), whatever it is doing.
SyncOperator ==
    /\ revision # NoVersion /\ running # revision
    /\ running' = revision
    /\ EndApplyAll
    /\ NoFault
    /\ UNCHANGED <<tag, revision, deployment, apps, ran, changes>>

Crash ==
    /\ pc # "idle"
    /\ Fault("crash")
    /\ EndApplyAll
    /\ UNCHANGED <<tag, revision, running, deployment, apps, ran, changes>>

Next == ApplyAll \/ ApplyAllThrows \/ ChangeTag \/ SyncOperator \/ Crash

Spec == Init /\ [][Next]_vars

\* The reconcile loop runs for ever and Argo CD syncs in the end.
FairSpec == Spec /\ WF_vars(ApplyAll) /\ WF_vars(SyncOperator)

-----------------------------------------------------------------------------
(* Properties.                                                             *)

\* The operations on the way from one version to a later one.
Path(from, to) ==
    {op \in Operations : Coerced(from) < op.release /\ op.release <= Coerced(to)}

\* adr/2022-04-23: when the version in the values changes, the operations "will be
\* executed for the upgrade path".  A later version is recorded only after every
\* operation on the way has run, over crashes, retries, replacements of the operator
\* and changes of the version half-way, as long as no error goes unnoticed: once it is
\* recorded, they never run.
NoOperationSkipped ==
    [][~unnoticed' /\ deployment.version < deployment'.version
         => Path(deployment.version, deployment'.version) \subseteq ran]_vars

\* No operation runs on a platform whose recorded version includes it already.
NoOperationRepeated ==
    [][\A op \in ran' \ ran : Coerced(deployment.version) < op.release]_vars

\* When the version in the values stays and faults end, the operator, the
\* Applications and the recorded version get there.
Upgraded == <>[](running = tag /\ apps = tag /\ deployment.version = tag)

=============================================================================
