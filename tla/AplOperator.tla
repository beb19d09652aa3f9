---------------------------- MODULE AplOperator ----------------------------
(***************************************************************************)
(* The running operator (src/operator/apl-operator.ts): one Node process   *)
(* in which a polling loop and a reconcile loop interleave at every await. *)
(* Both end in runApplyIfNotBusy, guarded by the flag isApplying, and both *)
(* work in the same clone of the values repository: the poll loop resets   *)
(* it to the remote branch (git-repository.ts), an apply run rewrites      *)
(* values in it, commits, rebases and pushes (cmd/commit.ts) and then      *)
(* hands what the working tree says to the cluster (cmd/apply.ts).         *)
(*                                                                         *)
(* An action is the code between two awaits whose interleaving matters.    *)
(* The sleeps between cycles take any time.  Each fault that may happen is *)
(* an action guarded by Fault(kind); MaxFaults bounds how many a behaviour *)
(* has.                                                                    *)
(*                                                                         *)
(* A definition named Broken... is a plausible mistake in the definition   *)
(* that follows it.  No action uses it: put in that definition's place it  *)
(* makes a property fail, which shows what the property is worth.          *)
(***************************************************************************)
EXTENDS GitHistory

CONSTANTS
    MaxUserCommits,  \* bound: commits users push
    UserCommitKinds, \* their <<scope, skip>>: what they touch, "[ci skip]" or not
    MaxWrites,       \* bound: operator commits in a history
    Faults,          \* the kinds of fault that may happen
    MaxFaults        \* bound: faults of a behaviour, conflicts not counted

FaultKinds == {"git", "apply", "swallow", "pause", "stateWrite",
               "conflict", "cleanup", "crash", "evict"}

ASSUME BoundsAssumption ==
    /\ MaxUserCommits \in Nat
    /\ MaxWrites \in Nat
    /\ MaxFaults \in Nat
    /\ Faults \subseteq FaultKinds
    /\ UserCommitKinds \subseteq Scopes \X BOOLEAN

ApplyTrigger == {"poll", "reconcile"}

VARIABLES
    remote,       \* the branch on the git server
    tracking,     \* origin/<branch> in the clone
    head,         \* HEAD of the clone; <<>>: no clone on this disk
    tree,         \* its working tree: clean, dirty or with unmerged entries
    rebaseFrom,   \* an unfinished rebase's original HEAD; <<>>: none
    lastRevision, \* GitRepository._lastRevision
    previousRevision, newRevision, \* locals of syncAndAnalyzeChanges
    isApplying,   \* AplOperator.isApplying
    pc,           \* where each loop stands
    applyTeamsOnly, commitHash, \* locals of each loop's runApplyIfNotBusy
    nextStage,    \* where each loop's commit() returns to
    applyState,   \* the apl-operator-state ConfigMap
    ready,        \* /tmp/ready exists
    deployed,     \* the revisions last handed to the cluster
    up,           \* the two loops are running
    faults        \* faults so far

repoVars  == <<remote, tracking, head, tree, rebaseFrom>>
syncVars  == <<lastRevision, previousRevision, newRevision>>
runVars   == <<applyTeamsOnly, commitHash, nextStage>>
stateVars == <<applyState, ready, deployed>>
vars == <<repoVars, syncVars, runVars, stateVars, isApplying, pc, up, faults>>

SyncSteps  == {"fetch", "reset", "head", "log", "diff"}
ApplySteps == {"prepare", "commit", "pull", "push", "abort", "drop",
               "teams", "apps", "done", "tail", "failed"}

Applying(t) == pc[t] \in ApplySteps

TypeOK ==
    /\ remote \in Histories /\ tracking \in Histories
    /\ head \in Histories /\ rebaseFrom \in Histories
    /\ tree \in {"clean", "dirty", "conflicted"}
    /\ lastRevision \in Histories
    /\ previousRevision \in Histories /\ newRevision \in Histories
    /\ isApplying \in BOOLEAN
    /\ pc \in [ApplyTrigger -> {"idle"} \cup SyncSteps \cup ApplySteps]
    /\ applyTeamsOnly \in [ApplyTrigger -> BOOLEAN]
    /\ commitHash \in [ApplyTrigger -> Histories]
    /\ nextStage \in [ApplyTrigger -> {"deploy", "finish"}]
    /\ applyState \in [status : {"none", "in-progress", "succeeded", "failed"},
                       commitHash : Histories, trigger : ApplyTrigger]
    /\ ready \in BOOLEAN
    /\ deployed \in [Scopes -> Histories]
    /\ up \in BOOLEAN
    /\ faults \in Nat

\* A container that starts after an installation: the remote holds the
\* installation's commit and nothing has been applied.
Init ==
    /\ remote = <<InstallCommit>> /\ tracking = <<>> /\ head = <<>>
    /\ tree = "clean" /\ rebaseFrom = <<>>
    /\ lastRevision = <<>> /\ previousRevision = <<>> /\ newRevision = <<>>
    /\ isApplying = FALSE
    /\ pc = [t \in ApplyTrigger |-> "idle"]
    /\ applyTeamsOnly = [t \in ApplyTrigger |-> FALSE]
    /\ commitHash = [t \in ApplyTrigger |-> <<>>]
    /\ nextStage = [t \in ApplyTrigger |-> "deploy"]
    /\ applyState = [status |-> "none", commitHash |-> <<>>, trigger |-> "reconcile"]
    /\ ready = FALSE
    /\ deployed = [s \in Scopes |-> <<>>]
    /\ up = FALSE
    /\ faults = 0

Fault(kind) ==
    /\ kind \in Faults
    /\ faults < MaxFaults
    /\ faults' = faults + 1

NoFault == faults' = faults

Goto(t, label) == pc' = [pc EXCEPT ![t] = label]

-----------------------------------------------------------------------------
(* start(): wait for the repository, clone it or keep the clone that is    *)
(* there, then enter both loops.                                           *)

ClonedHead == IF head = <<>> THEN remote ELSE head

Start ==
    /\ ~up
    /\ up' = TRUE
    /\ head' = ClonedHead
    /\ tracking' = IF head = <<>> THEN remote ELSE tracking
    /\ NoFault
    /\ UNCHANGED <<remote, tree, rebaseFrom, syncVars, runVars, stateVars,
                   isApplying, pc>>

-----------------------------------------------------------------------------
(* runApplyIfNotBusy up to its first await: the flag is tested and set, the *)
(* revision to report is read, and apl-operator-state says in-progress.    *)

BrokenMayApply == TRUE

MayApply == ~isApplying

BrokenReportedRevision == remote

ReportedRevision == lastRevision'

\* updateApplyState swallows its errors: the write may be lost.
RecordState(status, hash, trigger) ==
    \/ /\ applyState' = [status |-> status, commitHash |-> hash, trigger |-> trigger]
       /\ NoFault
    \/ /\ Fault("stateWrite")
       /\ UNCHANGED applyState

BeginApply(t, teamsOnly) ==
    /\ MayApply
    /\ isApplying' = TRUE
    /\ commitHash' = [commitHash EXCEPT ![t] = ReportedRevision]
    /\ applyTeamsOnly' = [applyTeamsOnly EXCEPT ![t] = teamsOnly]
    /\ nextStage' = [nextStage EXCEPT ![t] = "deploy"]
    /\ RecordState("in-progress", ReportedRevision, t)
    /\ Goto(t, "prepare")

\* What the poll cycle found is applied, or dropped if an apply is in progress.
TriggerPoll(teamsOnly) ==
    \/ BeginApply("poll", teamsOnly)
    \/ /\ ~MayApply
       /\ Goto("poll", "idle")
       /\ NoFault
       /\ UNCHANGED <<isApplying, runVars, applyState>>

\* reconcile(): every tick starts a full apply, unless one is running.
BrokenReconcileTeamsOnly == TRUE

ReconcileTeamsOnly == FALSE

ReconcileTick ==
    /\ up /\ pc["reconcile"] = "idle"
    /\ UNCHANGED syncVars
    /\ BeginApply("reconcile", ReconcileTeamsOnly)
    /\ UNCHANGED <<repoVars, ready, deployed, up>>

-----------------------------------------------------------------------------
(* One cycle of pollAndApplyGitChanges: the flag is tested once, before    *)
(* syncAndAnalyzeChanges, whose every git call is an await.                *)

PollWake ==
    /\ up /\ pc["poll"] = "idle"
    /\ MayApply
    /\ previousRevision' = lastRevision
    /\ Goto("poll", "fetch")
    /\ NoFault
    /\ UNCHANGED <<repoVars, lastRevision, newRevision, runVars, stateVars,
                   isApplying, up>>

\* A cycle of either loop that finds the flag set sleeps again.
CycleSkipped ==
    /\ up
    /\ \E t \in ApplyTrigger : pc[t] = "idle"
    /\ ~MayApply
    /\ UNCHANGED vars

PullFetch ==
    /\ pc["poll"] = "fetch"
    /\ tracking' = remote
    /\ Goto("poll", "reset")
    /\ NoFault
    /\ UNCHANGED <<remote, head, tree, rebaseFrom, syncVars, runVars, stateVars,
                   isApplying, up>>

\* git reset --hard keeps the untracked files a run has just written.
TreeAfterReset == IF tree = "dirty" THEN {"clean", "dirty"} ELSE {"clean"}

PulledHead == tracking

PullReset ==
    /\ pc["poll"] = "reset"
    /\ head' = PulledHead
    /\ tree' \in TreeAfterReset
    /\ Goto("poll", "head")
    /\ NoFault
    /\ UNCHANGED <<remote, tracking, rebaseFrom, syncVars, runVars, stateVars,
                   isApplying, up>>

\* syncAndAnalyzeChanges returns or throws: its locals go out of scope.
ForgetSync == previousRevision' = <<>> /\ newRevision' = <<>>

\* The end of a poll cycle that applies nothing.
EndCycle ==
    /\ Goto("poll", "idle")
    /\ NoFault
    /\ ForgetSync
    /\ UNCHANGED <<isApplying, runVars, applyState>>

\* The tail of pull() and the comparison with the previous revision: the new
\* revision is remembered before anything is done about it.  Without a previous
\* revision everything counts as changed.
CurrentRevision ==
    /\ pc["poll"] = "head"
    /\ UNCHANGED <<repoVars, ready, deployed, up>>
    /\ \/ /\ head = previousRevision
          /\ UNCHANGED lastRevision
          /\ EndCycle
       \/ /\ head # previousRevision
          /\ lastRevision' = head
          /\ IF previousRevision = <<>>
             THEN ForgetSync /\ TriggerPoll(FALSE)
             ELSE /\ newRevision' = head
                  /\ Goto("poll", "log")
                  /\ NoFault
                  /\ UNCHANGED <<previousRevision, isApplying, runVars, applyState>>

BrokenSkipCommits(from, to) == \E c \in LogBetween(from, to) : c.skip

ShouldSkipCommits(from, to) == \A c \in LogBetween(from, to) : c.skip

\* The log goes up to HEAD as it is now, not to the revision just compared.
SkipCheck ==
    /\ pc["poll"] = "log"
    /\ UNCHANGED <<repoVars, lastRevision, ready, deployed, up>>
    /\ IF ShouldSkipCommits(previousRevision, head)
       THEN EndCycle
       ELSE /\ Goto("poll", "diff")
            /\ NoFault
            /\ UNCHANGED <<previousRevision, newRevision, isApplying, runVars, applyState>>

BrokenIsTeamsOnlyChange(from, to) == "teams" \in ChangedScopes(from, to)

IsTeamsOnlyChange(from, to) == ChangedScopes(from, to) = {"teams"}

DiffCheck ==
    /\ pc["poll"] = "diff"
    /\ UNCHANGED <<repoVars, lastRevision, ready, deployed, up>>
    /\ ForgetSync
    /\ TriggerPoll(IsTeamsOnlyChange(previousRevision, newRevision))

\* Any git call of the cycle may throw; what was assigned before stays so.
SyncFails ==
    /\ pc["poll"] \in SyncSteps
    /\ Fault("git")
    /\ Goto("poll", "idle")
    /\ ForgetSync
    /\ UNCHANGED <<repoVars, lastRevision, runVars, stateVars, isApplying, up>>

PollSync == PullFetch \/ PullReset \/ CurrentRevision \/ SkipCheck \/ DiffCheck

-----------------------------------------------------------------------------
(* An apply run, after it began.                                           *)

OperatorWrites(h) == Cardinality({i \in 1..Len(h) : h[i].author = "operator"})

\* Default values, migration, generated directories: they may change files.
Prepare(t) ==
    /\ pc[t] = "prepare"
    /\ \/ UNCHANGED tree
       \/ /\ tree = "clean"
          /\ OperatorWrites(head) < MaxWrites
          /\ OperatorWrites(remote) < MaxWrites
          /\ tree' = "dirty"
    /\ Goto(t, "commit")
    /\ NoFault
    /\ UNCHANGED <<remote, tracking, head, rebaseFrom, syncVars, runVars,
                   stateVars, isApplying, up>>

BrokenAfterCommit(t) == nextStage[t]

AfterCommit(t) == IF nextStage[t] = "deploy" THEN "teams" ELSE "done"

\* commitAndPush up to git commit: with nothing to commit it returns at once,
\* without a pull and without pushing what an earlier run left behind.
Commit(t) ==
    /\ pc[t] = "commit"
    /\ \/ /\ tree = "clean"
          /\ Goto(t, AfterCommit(t))
          /\ UNCHANGED <<head, tree>>
       \/ /\ tree # "clean"
          /\ \E scope \in Scopes : head' = Append(head, OperatorCommit(scope))
          /\ tree' = "clean"
          /\ Goto(t, "pull")
    /\ NoFault
    /\ UNCHANGED <<remote, tracking, rebaseFrom, syncVars, runVars, stateVars,
                   isApplying, up>>

\* One attempt at checkout -B and pull --rebase.  Unmerged entries make the
\* checkout fail with the message isConflictError knows; an unfinished rebase
\* makes the pull fail with one it does not know, until the retries are spent.
Pull(t) ==
    /\ pc[t] = "pull"
    /\ \/ /\ tree = "conflicted"
          /\ Goto(t, "abort")
          /\ UNCHANGED <<tracking, head, tree, rebaseFrom>>
       \/ /\ tree # "conflicted" /\ rebaseFrom # <<>>
          /\ Goto(t, "failed")
          /\ UNCHANGED <<tracking, head, tree, rebaseFrom>>
       \/ /\ tree # "conflicted" /\ rebaseFrom = <<>>
          /\ tracking' = remote
          /\ \/ /\ head' = RebaseOnto(head, remote)
                /\ Goto(t, "push")
                /\ UNCHANGED <<tree, rebaseFrom>>
             \/ /\ "conflict" \in Faults
                /\ Diverged(head, remote)
                /\ rebaseFrom' = head
                /\ head' = remote
                /\ tree' = "conflicted"
                /\ UNCHANGED pc
    /\ NoFault
    /\ UNCHANGED <<remote, syncVars, runVars, stateVars, isApplying, up>>

BrokenMayPush == TRUE

\* The server takes a fast-forward only.
MayPush == IsPrefix(remote, head)

Push(t) ==
    /\ pc[t] = "push"
    /\ IF MayPush
       THEN /\ remote' = head
            /\ tracking' = head
            /\ Goto(t, AfterCommit(t))
       ELSE /\ Goto(t, "pull")
            /\ UNCHANGED <<remote, tracking>>
    /\ NoFault
    /\ UNCHANGED <<head, tree, rebaseFrom, syncVars, runVars, stateVars,
                   isApplying, up>>

AbortedHead == IF rebaseFrom = <<>> THEN head ELSE rebaseFrom

\* cleanupGitState: rebase --abort, whose failure is ignored, ...
AbortRebase(t) ==
    /\ pc[t] = "abort"
    /\ \/ head' = AbortedHead /\ tree' = "clean" /\ rebaseFrom' = <<>> /\ NoFault
       \/ Fault("cleanup") /\ UNCHANGED <<head, tree, rebaseFrom>>
    /\ Goto(t, "drop")
    /\ UNCHANGED <<remote, tracking, syncVars, runVars, stateVars, isApplying, up>>

BrokenDroppedHead(h) == IF Len(h) > 2 THEN Front(Front(h)) ELSE h

\* The parent of the commit; the root commit has none and stays.
DroppedHead(h) == IF Len(h) > 1 THEN Front(h) ELSE h

\* ... then reset --hard HEAD~1, whose failure is logged; the run goes on as if it had
\* committed.
DropCommit(t) ==
    /\ pc[t] = "drop"
    /\ \/ head' = DroppedHead(head) /\ tree' \in TreeAfterReset /\ NoFault
       \/ Fault("cleanup") /\ UNCHANGED <<head, tree>>
    /\ Goto(t, AfterCommit(t))
    /\ UNCHANGED <<remote, tracking, rebaseFrom, syncVars, runVars, stateVars,
                   isApplying, up>>

\* applyTeams, and applyAsAppsTeams for a teams-only run.  Of a failed manifest
\* or application only the log tells.
ApplyTeams(t) ==
    /\ pc[t] = "teams"
    /\ \/ deployed' = [deployed EXCEPT !["teams"] = head] /\ NoFault
       \/ Fault("swallow") /\ UNCHANGED deployed
    /\ Goto(t, IF applyTeamsOnly[t] THEN "done" ELSE "apps")
    /\ UNCHANGED <<repoVars, syncVars, runVars, applyState, ready, isApplying, up>>

\* applyAsApps for the platform, then applyAll's own commit.
ApplyApps(t) ==
    /\ pc[t] = "apps"
    /\ \/ deployed' = [deployed EXCEPT !["platform"] = head] /\ NoFault
       \/ Fault("swallow") /\ UNCHANGED deployed
    /\ nextStage' = [nextStage EXCEPT ![t] = "finish"]
    /\ Goto(t, "commit")
    /\ UNCHANGED <<repoVars, syncVars, applyTeamsOnly, commitHash, applyState,
                   ready, isApplying, up>>

\* applyAll returns early when the operator's own Application has just been moved
\* to another revision; runApplyIfNotBusy goes on as after a complete apply.
PauseForUpgrade(t) ==
    /\ pc[t] = "teams" /\ ~applyTeamsOnly[t]
    /\ Fault("pause")
    /\ Goto(t, "done")
    /\ UNCHANGED <<repoVars, syncVars, runVars, stateVars, isApplying, up>>

\* apply() retries applyAll from its start.
RetryApplyAll(t) ==
    /\ \/ pc[t] = "apps"
       \/ pc[t] \in {"commit", "pull", "push"} /\ nextStage[t] = "finish"
    /\ Fault("apply")
    /\ nextStage' = [nextStage EXCEPT ![t] = "deploy"]
    /\ Goto(t, "teams")
    /\ UNCHANGED <<repoVars, syncVars, applyTeamsOnly, commitHash, stateVars,
                   isApplying, up>>

\* A step throws, its retries included.
StepFails(t) ==
    /\ pc[t] \in {"prepare", "commit", "pull", "push", "teams", "apps"}
    /\ Fault("apply")
    /\ Goto(t, "failed")
    /\ UNCHANGED <<repoVars, syncVars, runVars, stateVars, isApplying, up>>

BrokenOutcome == "in-progress"

Outcome == "succeeded"

\* markOperatorReady, whose write may fail unnoticed, then apl-operator-state
\* says succeeded.
Finish(t) ==
    /\ pc[t] = "done"
    /\ ready' \in {TRUE, ready}
    /\ RecordState(Outcome, commitHash[t], t)
    /\ Goto(t, "tail")
    /\ UNCHANGED <<repoVars, syncVars, runVars, deployed, isApplying, up>>

\* The run's locals go out of scope.
ForgetRun(t) ==
    /\ applyTeamsOnly' = [applyTeamsOnly EXCEPT ![t] = FALSE]
    /\ commitHash' = [commitHash EXCEPT ![t] = <<>>]
    /\ nextStage' = [nextStage EXCEPT ![t] = "deploy"]

\* The finally block.  The restart of the platform-auth pods, which comes before it,
\* touches nothing modelled here.
Release(t) ==
    /\ pc[t] = "tail"
    /\ isApplying' = FALSE
    /\ ForgetRun(t)
    /\ Goto(t, "idle")
    /\ NoFault
    /\ UNCHANGED <<repoVars, syncVars, stateVars, up>>

ReleasedOnFailure == FALSE

ReportFailure(t) ==
    /\ pc[t] = "failed"
    /\ RecordState("failed", commitHash[t], t)
    /\ isApplying' = ReleasedOnFailure
    /\ ForgetRun(t)
    /\ Goto(t, "idle")
    /\ UNCHANGED <<repoVars, syncVars, ready, deployed, up>>

ApplyStep(t) ==
    \/ Prepare(t) \/ Commit(t) \/ Pull(t) \/ Push(t) \/ AbortRebase(t)
    \/ DropCommit(t) \/ ApplyTeams(t) \/ ApplyApps(t) \/ Finish(t)
    \/ Release(t) \/ ReportFailure(t)

ApplyTrouble(t) == PauseForUpgrade(t) \/ RetryApplyAll(t) \/ StepFails(t)

-----------------------------------------------------------------------------
(* The environment.                                                        *)

UserPush ==
    /\ Cardinality(Work(remote)) <= MaxUserCommits
    /\ \E kind \in UserCommitKinds :
         remote' = Append(remote,
                          UserCommit(Cardinality(Work(remote)), kind[1], kind[2]))
    /\ NoFault
    /\ UNCHANGED <<tracking, head, tree, rebaseFrom, syncVars, runVars,
                   stateVars, isApplying, pc, up>>

LoseMemory ==
    /\ up' = FALSE
    /\ lastRevision' = <<>> /\ previousRevision' = <<>> /\ newRevision' = <<>>
    /\ isApplying' = FALSE
    /\ pc' = [t \in ApplyTrigger |-> "idle"]
    /\ applyTeamsOnly' = [t \in ApplyTrigger |-> FALSE]
    /\ commitHash' = [t \in ApplyTrigger |-> <<>>]
    /\ nextStage' = [t \in ApplyTrigger |-> "deploy"]

\* The container restarts: the clone and /tmp/ready are on emptyDir volumes and stay.
Crash ==
    /\ up
    /\ Fault("crash")
    /\ LoseMemory
    /\ UNCHANGED <<repoVars, stateVars>>

\* The pod is replaced: its volumes go with it.
Evict ==
    /\ up
    /\ Fault("evict")
    /\ LoseMemory
    /\ ready' = FALSE
    /\ head' = <<>> /\ tracking' = <<>> /\ rebaseFrom' = <<>> /\ tree' = "clean"
    /\ UNCHANGED <<remote, applyState, deployed>>

Next ==
    \/ Start \/ ReconcileTick \/ PollWake \/ CycleSkipped \/ PollSync \/ SyncFails
    \/ \E t \in ApplyTrigger : ApplyStep(t) \/ ApplyTrouble(t)
    \/ UserPush \/ Crash \/ Evict

Spec == Init /\ [][Next]_vars

\* Both loops run for ever and every await returns.  PollWake needs strong
\* fairness: the loop wakes every pollInterval, and the flag is down for most of
\* the much longer reconcileInterval, but it does not stay down.
Fairness ==
    /\ WF_vars(Start)
    /\ WF_vars(ReconcileTick)
    /\ SF_vars(PollWake)
    /\ WF_vars(PollSync)
    /\ \A t \in ApplyTrigger : WF_vars(ApplyStep(t))

FairSpec == Spec /\ Fairness

-----------------------------------------------------------------------------
(* Properties.                                                             *)

\* EXECUTION_FLOW.md, "Apply Lock": only one apply runs at a time, whatever the
\* two loops, failures and restarts do; and the flag is up exactly while one runs.
OneApplyAtATime ==
    /\ isApplying <=> \E t \in ApplyTrigger : Applying(t)
    /\ ~(Applying("poll") /\ Applying("reconcile"))

\* The tree a run applies from holds the revision it will report as applied.
AppliesWhatItReports ==
    \A t \in ApplyTrigger :
        pc[t] \in {"teams", "apps"} => Work(commitHash[t]) \subseteq Work(head)

\* The cluster is never taken back to values older than those it runs, although
\* the clone is reset, rebased and reset again while runs are under way.
NoRollback ==
    [][\A s \in Scopes : Work(deployed[s]) \subseteq Work(deployed'[s])]_vars

\* Nothing the operator pushes drops a commit a user made.
UserWorkSurvives == [][Work(remote) \subseteq Work(remote')]_vars

\* The loop whose apply run is under way.
Busy == IF \E t \in ApplyTrigger : Applying(t) THEN CHOOSE t \in ApplyTrigger : Applying(t)
        ELSE "nobody"

Delivery == INSTANCE PlatformDelivery WITH
    Parts <- Scopes, Loops <- ApplyTrigger, Nobody <- "nobody", First <- InstallCommit,
    branch <- Work(remote), platform <- [s \in Scopes |-> Work(deployed[s])], busy <- Busy

\* The two loops over one clone implement the promise of PlatformDelivery: runs exclude
\* each other, only what is on the branch reaches the cluster, part by part and never an
\* older state of it, and no push takes a user's commit off the branch.
ImplementsDelivery == Delivery!Spec

\* A poll cycle drops new commits as "[ci skip]" only when every one carries the
\* marker.
SkipsOnlyMarked ==
    [][pc["poll"] = "log" /\ pc'["poll"] = "idle" /\ up' /\ faults' = faults
         => \A c \in LogBetween(previousRevision, newRevision) : c.skip]_vars

\* A poll cycle asks for a teams-only run only when that run leaves no platform
\* change of the new revision unapplied.
NoPlatformChangeMissed ==
    [][pc["poll"] = "diff" /\ pc'["poll"] = "prepare" /\ applyTeamsOnly'["poll"]
         => PlatformWork(newRevision) \subseteq PlatformWork(previousRevision)]_vars

\* When no more faults come, the cluster ends up running everything users pushed.
Convergence ==
    <>[](\A s \in Scopes : {c \in Work(remote) : c.scope = s} \subseteq Work(deployed[s]))

\* A run that reported in-progress gets an outcome, even if the container restarts.
OutcomeReported == applyState.status = "in-progress" ~> applyState.status # "in-progress"

\* EXECUTION_FLOW.md: succeeded at a commitHash answers "did the operator apply my
\* commit yet?".
SucceededMeansApplied ==
    applyState.status = "succeeded"
      => \A s \in Scopes :
           {c \in Work(applyState.commitHash) : c.scope = s} \subseteq Work(deployed[s])

=============================================================================
