----------------------------- MODULE GitOpsApps -----------------------------
(***************************************************************************)
(* The Applications of Argo CD that an apply run adds, changes and removes *)
(* (src/cmd/apply-as-apps.ts): one per Helm release of the platform or of  *)
(* a team, one per directory of manifests of a namespace, and one for      *)
(* cluster resources.  Argo CD deploys what an Application says, and takes *)
(* it away before an Application that has the finalizer is gone.           *)
(*                                                                         *)
(* Failures of single calls are logged and swallowed: it is the next run   *)
(* that repairs what they left.                                            *)
(*                                                                         *)
(* A definition named Broken... is a plausible mistake in the definition   *)
(* that follows it; no action uses it.                                     *)
(***************************************************************************)
EXTENDS Naturals

CONSTANTS
    Releases,     \* the Helm releases
    Core,         \* those that cannot be disabled
    TeamReleases, \* those a run for teams only deals with
    Namespaces,   \* namespaces that may have a directory of manifests
    Global,       \* the Application for cluster resources
    Faults,       \* the kinds of fault that may happen
    MaxFaults,    \* bound: faults of a behaviour
    MaxChanges    \* bound: changes of values or directories by users

Swallowed == {"list", "apply", "remove", "restart"}
FaultKinds == Swallowed \cup {"call", "crash", "reset", "stuck"}

ASSUME GitOpsAssumption ==
    /\ Core \subseteq Releases /\ TeamReleases \subseteq Releases
    /\ Releases \cap Namespaces = {} /\ Global \notin Releases \cup Namespaces
    /\ Faults \subseteq FaultKinds
    /\ MaxFaults \in Nat /\ MaxChanges \in Nat

GitOps == Namespaces \cup {Global}
Names == Releases \cup GitOps

VARIABLES
    remote,    \* the releases enabled and the directories there, and their revision
    tree,      \* the same in ENV_DIR
    apps,      \* the Applications: whether they are there, and of which revision
    resources, \* what Argo CD has deployed of each: a revision, or nothing
    stuck,     \* its controller does not get on
    scope,     \* the releases this run deals with
    installed, \* those of them to install
    revision,  \* the revision of the values written for them
    current,   \* the Applications the run has listed
    todo,      \* those the present step has still to deal with
    required,  \* the Applications of the directories found
    pc,
    moved,     \* ENV_DIR was reset during the run; read by properties only
    changes, faults

run == <<scope, installed, revision, current, todo, required>>
argo == <<apps, resources, stuck>>
vars == <<remote, tree, argo, run, pc, moved, changes, faults>>

Revisions == 0..MaxChanges
Nothing == MaxChanges + 1

Wanted == [on : SUBSET Names, revision : Revisions]

\* bare: there, without the finalizer, as an earlier release may have left it.
Application == [state : {"absent", "live", "bare", "terminating"}, revision : Revisions]
Absent == [state |-> "absent", revision |-> 0]

Steps == {"prepare", "list", "values", "current", "check", "remove", "apply",
          "directories", "add", "removeGitOps"}

TypeOK ==
    /\ remote \in Wanted /\ tree \in Wanted
    /\ apps \in [Names -> Application]
    /\ resources \in [Names -> Revisions \cup {Nothing}]
    /\ stuck \in BOOLEAN
    /\ scope \subseteq Releases /\ installed \subseteq scope
    /\ revision \in Revisions
    /\ current \subseteq Names
    /\ todo \subseteq IF pc \in {"remove", "apply"} THEN scope ELSE GitOps
    /\ required \subseteq GitOps
    /\ pc \in {"idle"} \cup Steps
    /\ moved \in BOOLEAN
    /\ changes \in Nat /\ faults \in Nat

\* A new platform, or one with Applications of an earlier release; users want all of
\* it or, at first, nothing they can do without.
Init ==
    /\ remote \in [on : {Names, Core \cup {Global}}, revision : {0}] /\ tree = remote
    /\ \E old \in {{}, Names} : \E bare \in SUBSET (old \cap Releases) :
         /\ apps = [n \in Names |->
                      IF n \in bare THEN [state |-> "bare", revision |-> 0]
                      ELSE IF n \in old THEN [state |-> "live", revision |-> 0]
                      ELSE Absent]
         /\ resources = [n \in Names |-> IF n \in old THEN 0 ELSE Nothing]
    /\ stuck = FALSE
    /\ scope = {} /\ installed = {} /\ revision = 0
    /\ current = {} /\ todo = {} /\ required = {}
    /\ pc = "idle"
    /\ moved = FALSE
    /\ changes = 0 /\ faults = 0

Fault(kind) == kind \in Faults /\ faults < MaxFaults /\ faults' = faults + 1

NoFault == faults' = faults

Goto(label) == pc' = label

\* What a run has read is gone when it ends.
ToIdle ==
    /\ pc' = "idle"
    /\ scope' = {} /\ installed' = {} /\ revision' = 0
    /\ current' = {} /\ todo' = {} /\ required' = {}
    /\ moved' = FALSE

-----------------------------------------------------------------------------
(* applyAsApps, for all releases or for those of teams.                    *)

Begin(releases) ==
    /\ pc = "idle"
    /\ scope' = releases
    /\ Goto("prepare")
    /\ NoFault
    /\ UNCHANGED <<remote, tree, argo, installed, revision, current, todo, required, moved,
                   changes>>

\* ensureManifestDirectories makes the directory of cluster resources.
Prepare ==
    /\ pc = "prepare"
    /\ tree' = [tree EXCEPT !.on = @ \cup {Global}]
    /\ Goto("list")
    /\ NoFault
    /\ UNCHANGED <<remote, argo, run, moved, changes>>

\* The releases, and then their values, are read by two calls of helmfile.
ListReleases ==
    /\ pc = "list"
    /\ installed' = scope \cap tree.on
    /\ Goto("values")
    /\ NoFault
    /\ UNCHANGED <<remote, tree, argo, scope, revision, current, todo, required, moved, changes>>

WriteReleaseValues ==
    /\ pc = "values"
    /\ revision' = tree.revision
    /\ Goto("current")
    /\ NoFault
    /\ UNCHANGED <<remote, tree, argo, scope, installed, current, todo, required, moved, changes>>

There(names) == {n \in names : apps[n].state # "absent"}

\* An error is taken for an empty list.
GetApplications(names) ==
    \/ current' = There(names) /\ NoFault
    \/ current' = {} /\ Fault("list")

GetCurrent ==
    /\ pc = "current"
    /\ GetApplications(Releases)
    /\ Goto("check")
    /\ UNCHANGED <<remote, tree, argo, scope, installed, revision, todo, required, moved, changes>>

BrokenUnwanted == current \ installed

\* Releases not to be installed that have an Application.
Unwanted == (scope \ installed) \cap current

\* checkArgoCdController: restarted when an Application shows it does not get on; an
\* error is logged.
CheckController ==
    /\ pc = "check"
    /\ \/ stuck' = (stuck /\ current = {}) /\ NoFault
       \/ UNCHANGED stuck /\ Fault("restart")
    /\ todo' = Unwanted
    /\ Goto("remove")
    /\ UNCHANGED <<remote, tree, apps, resources, scope, installed, revision, current, required,
                   moved, changes>>

Deleted(app) ==
    IF app.state \in {"bare", "absent"} THEN Absent ELSE [app EXCEPT !.state = "terminating"]

BrokenRemoved(app) == Deleted(app)

\* removeApplication: where the finalizer is missing the call that adds it fails, as it
\* replaces a list that is not there; then nothing is deleted.
Removed(app) == IF app.state = "bare" THEN app ELSE Deleted(app)

RemoveRelease ==
    /\ pc = "remove"
    /\ \E n \in todo :
         /\ todo' = todo \ {n}
         /\ \/ apps' = [apps EXCEPT ![n] = Removed(@)] /\ NoFault
            \/ UNCHANGED apps /\ Fault("remove")
    /\ Goto(pc)
    /\ UNCHANGED <<remote, tree, resources, stuck, scope, installed, revision, current, required,
                   moved, changes>>

EndRemove ==
    /\ pc = "remove" /\ todo = {}
    /\ todo' = installed
    /\ Goto("apply")
    /\ NoFault
    /\ UNCHANGED <<remote, tree, argo, scope, installed, revision, current, required, moved,
                   changes>>

BrokenApplied(app, rev) == IF app = Absent THEN [state |-> "live", revision |-> rev] ELSE app

\* One that is being deleted is changed all the same, and goes.
Applied(app, rev) ==
    [state |-> IF app.state = "terminating" THEN "terminating" ELSE "live", revision |-> rev]

ApplyApp(rev) ==
    \E n \in todo :
      /\ todo' = todo \ {n}
      /\ \/ apps' = [apps EXCEPT ![n] = Applied(@, rev)] /\ NoFault
         \/ UNCHANGED apps /\ Fault("apply")

ApplyRelease ==
    /\ pc = "apply"
    /\ ApplyApp(revision)
    /\ Goto(pc)
    /\ UNCHANGED <<remote, tree, resources, stuck, scope, installed, revision, current, required,
                   moved, changes>>

EndApply ==
    /\ pc = "apply" /\ todo = {}
    /\ Goto("directories")
    /\ NoFault
    /\ UNCHANGED <<remote, tree, argo, run, moved, changes>>

-----------------------------------------------------------------------------
(* applyGitOpsApps.                                                        *)

\* The Applications of directories have no values: their revision stays 0.
ReadDirectories ==
    /\ pc = "directories"
    /\ required' = GitOps \cap tree.on
    /\ GetApplications(GitOps)
    /\ todo' = required'
    /\ Goto("add")
    /\ UNCHANGED <<remote, tree, argo, scope, installed, revision, moved, changes>>

AddGitOpsApp ==
    /\ pc = "add"
    /\ ApplyApp(0)
    /\ Goto(pc)
    /\ UNCHANGED <<remote, tree, resources, stuck, scope, installed, revision, current, required,
                   moved, changes>>

\* Never the one for cluster resources.
ToRemove == (current \ required) \ {Global}

EndAdd ==
    /\ pc = "add" /\ todo = {}
    /\ todo' = ToRemove
    /\ Goto("removeGitOps")
    /\ NoFault
    /\ UNCHANGED <<remote, tree, argo, scope, installed, revision, current, required, moved,
                   changes>>

RemoveGitOpsApp ==
    /\ pc = "removeGitOps"
    /\ \E n \in todo :
         /\ todo' = todo \ {n}
         /\ \/ apps' = [apps EXCEPT ![n] = Deleted(@)] /\ NoFault
            \/ UNCHANGED apps /\ Fault("remove")
    /\ Goto(pc)
    /\ UNCHANGED <<remote, tree, resources, stuck, scope, installed, revision, current, required,
                   moved, changes>>

EndRun ==
    /\ pc = "removeGitOps" /\ todo = {}
    /\ ToIdle
    /\ NoFault
    /\ UNCHANGED <<remote, tree, argo, changes>>

\* A call of helmfile, of git or for the repository's configuration fails.
RunFails ==
    /\ pc \in {"prepare", "list", "values", "directories", "add"}
    /\ Fault("call")
    /\ ToIdle
    /\ UNCHANGED <<remote, tree, argo, changes>>

-----------------------------------------------------------------------------
(* Everything else.                                                        *)

\* A user enables or disables a release, adds or removes a directory, or changes values.
UserChange ==
    /\ changes < MaxChanges
    /\ changes' = changes + 1
    /\ \E n \in Names \ Core : \E on \in {remote.on \cup {n}, remote.on \ {n}} :
         remote' = [on |-> on, revision |-> remote.revision + 1]
    /\ UNCHANGED <<tree, argo, run, pc, moved, faults>>

\* A poll cycle between runs ...
Pull ==
    /\ pc = "idle" /\ tree # remote
    /\ tree' = remote
    /\ NoFault
    /\ UNCHANGED <<remote, argo, run, pc, moved, changes>>

\* ... and one that was under way when the run began.
Reset ==
    /\ pc # "idle" /\ tree # remote
    /\ Fault("reset")
    /\ tree' = remote
    /\ moved' = TRUE
    /\ UNCHANGED <<remote, argo, run, pc, changes>>

\* The process starts over, in the same ENV_DIR or in a new one.
Crash ==
    /\ pc # "idle"
    /\ Fault("crash")
    /\ tree' \in {tree, remote}
    /\ ToIdle
    /\ UNCHANGED <<remote, argo, changes>>

\* Argo CD: the controller hangs, deploys, or takes away and lets the Application go.
Hang ==
    /\ ~stuck
    /\ Fault("stuck")
    /\ stuck' = TRUE
    /\ UNCHANGED <<remote, tree, apps, resources, run, pc, moved, changes>>

Sync(n) ==
    /\ ~stuck
    /\ apps[n].state \in {"live", "bare"} /\ resources[n] # apps[n].revision
    /\ resources' = [resources EXCEPT ![n] = apps[n].revision]
    /\ UNCHANGED <<remote, tree, apps, stuck, run, pc, moved, changes, faults>>

Finalize(n) ==
    /\ ~stuck
    /\ apps[n].state = "terminating"
    /\ resources' = [resources EXCEPT ![n] = Nothing]
    /\ apps' = [apps EXCEPT ![n] = Absent]
    /\ UNCHANGED <<remote, tree, stuck, run, pc, moved, changes, faults>>

Step ==
    \/ Prepare \/ ListReleases \/ WriteReleaseValues \/ GetCurrent \/ CheckController
    \/ RemoveRelease \/ EndRemove \/ ApplyRelease \/ EndApply
    \/ ReadDirectories \/ AddGitOpsApp \/ EndAdd \/ RemoveGitOpsApp \/ EndRun

Next ==
    \/ Begin(Releases) \/ Begin(TeamReleases) \/ Step \/ RunFails
    \/ UserChange \/ Pull \/ Reset \/ Crash
    \/ Hang \/ \E n \in Names : Sync(n) \/ Finalize(n)

Spec == Init /\ [][Next]_vars

\* The reconcile loop begins a full run again and again, a run goes on, the poll loop
\* pulls between runs, Argo CD works unless it hangs.
FairSpec ==
    /\ Spec
    /\ SF_vars(Begin(Releases)) /\ WF_vars(Step) /\ SF_vars(Pull)
    /\ \A n \in Names : WF_vars(Sync(n)) /\ WF_vars(Finalize(n))

-----------------------------------------------------------------------------
(* Properties.                                                             *)

\* Nothing Argo CD has deployed is left without an Application, which nobody would ever
\* take away: an Application without the finalizer is not deleted.
NoOrphans == \A n \in Names : apps[n].state = "absent" => resources[n] = Nothing

\* Whatever lists come back empty and whichever calls fail, no Application is deleted
\* that ENV_DIR asks for: its resources would go with it.  Only a reset of ENV_DIR
\* during the run can make it act on what is no longer so; the Application for cluster
\* resources is not deleted even then.
WantedKept ==
    [][\A n \in Names :
         apps[n].state = "live" /\ apps'[n].state # "live"
           => n # Global /\ (moved \/ n \notin tree.on)]_apps

\* When users and faults come to rest, Argo CD has deployed what the repository asks
\* for, in its last revision, and nothing else but what has no finalizer.
Converges ==
    <>[](\A n \in Names \ {Global} :
           IF n \in remote.on
           THEN apps[n].state = "live"
                /\ (n \in Releases => resources[n] = remote.revision)
           ELSE apps[n].state \in {"absent", "bare"})
=============================================================================
