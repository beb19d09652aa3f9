-------------------------- MODULE InstallerProofs --------------------------
(***************************************************************************)
(* What holds of the installation for any number of failures, restarts and *)
(* lost status writes.                                                     *)
(***************************************************************************)
EXTENDS Installer, TLAPS

\* The strengthening: what is in place follows from where the process stands.
IInv ==
    /\ TypeOK
    /\ PlaceInv
    /\ CompletedMeansInstalled
    /\ RunsOnInstalled

LEMMA IInvInit == Init => IInv
<1> SUFFICES ASSUME Init
             PROVE  IInv
  OBVIOUS
<1>1. request \in [mode : Modes, password : BOOLEAN] /\ mode \in Modes
  <2>1. [mode |-> "standard", password |-> TRUE] \in [mode : Modes, password : BOOLEAN]
    BY Zenon DEF Modes
  <2>2. request \in [mode : Modes, password : BOOLEAN]
    BY <2>1, Zenon DEF Init
  <2>3. QED
    BY <2>2 DEF Init
<1>2. status \in {"pending", "unset"} /\ release \in {"none", "deployed"} /\ setUp \in BOOLEAN
  BY DEF Init
<1>3. credentials \in BOOLEAN /\ branch \in BOOLEAN
  <2>1. request.password \in BOOLEAN
    BY <1>1
  <2>2. QED
    BY <2>1 DEF Init
<1>4. /\ gitServer = FALSE /\ envDir = "empty" /\ pc = "down" /\ faults = 0
      /\ status = "unset" => Installed
  BY DEF Init, Installed
<1>5. TypeOK
  BY <1>1, <1>2, <1>3, <1>4 DEF TypeOK, Statuses, Labels
<1>6. PlaceInv
  BY <1>4 DEF PlaceInv, BootstrapSteps, Attempting
<1>7. CompletedMeansInstalled /\ RunsOnInstalled
  BY <1>2, <1>4 DEF CompletedMeansInstalled, RunsOnInstalled, Running
<1>8. QED
  BY <1>5, <1>6, <1>7 DEF IInv

\* A status write records the status, or is lost and leaves the old one.
LEMMA StatusWrites ==
    ASSUME NEW new, RecordStatus(new), faults \in Nat
    PROVE  status' \in {status, new} /\ faults' \in Nat
  BY DEF RecordStatus, NoFault, Fault

LEMMA IInvNext == IInv /\ [Next]_vars => IInv'
<1> SUFFICES ASSUME IInv, [Next]_vars
             PROVE  IInv'
  OBVIOUS
<1> USE DEF IInv, TypeOK, PlaceInv, CompletedMeansInstalled, RunsOnInstalled, Running,
            Installed, Attempting, Labels, BootstrapSteps, InstallSteps, PlainSteps, Modes,
            Statuses, cluster, Goto, NoFault, Fault
<1>1. CASE UNCHANGED vars
  BY <1>1 DEF vars
<1>2. CASE Start
  BY <1>2 DEF Start
<1>3. CASE GetInstallationState
  <2>1. pc = "state" /\ UNCHANGED <<request, mode, cluster, envDir>>
    BY <1>3 DEF GetInstallationState
  <2>2. CASE status = "unset" /\ RecordStatus("completed") /\ pc' = "start"
    <3>1. status' \in {"unset", "completed"} /\ faults' \in Nat
      BY <2>2, StatusWrites
    <3>2. QED
      BY <2>1, <2>2, <3>1
  <2>3. CASE status = "completed" /\ pc' = "start" /\ NoFault /\ UNCHANGED status
    BY <2>1, <2>3
  <2>4. CASE /\ status \notin {"completed", "unset"}
             /\ pc' \in {"prerequisites", "gitConfig"} /\ NoFault /\ UNCHANGED status
    BY <2>1, <2>4
  <2>5. QED
    BY <1>3, <2>2, <2>3, <2>4 DEF GetInstallationState, IsInstalled
<1>4. CASE CheckPrerequisites \/ ApplyRecoveryManifests \/ RecoverFromGit
  BY <1>4 DEF CheckPrerequisites, ApplyRecoveryManifests, RecoverFromGit
<1>5. CASE ResetRecoveryModeToStandard
  BY <1>5 DEF ResetRecoveryModeToStandard
<1>6. CASE SetGitConfig \/ SetGitServerConfig
  <2>1. CASE SetGitConfig
    <3>1. /\ pc = "gitConfig" /\ pc' \in {"gitServer", "values"}
          /\ credentials' \in BOOLEAN
          /\ faults' = faults
          /\ UNCHANGED <<request, status, mode, gitServer, branch, release, setUp, envDir>>
      BY <2>1 DEF SetGitConfig
    <3>2. QED
      BY <3>1
  <2>2. CASE SetGitServerConfig
    BY <2>2 DEF SetGitServerConfig
  <2>3. QED
    BY <1>6, <2>1, <2>2
<1>7. CASE BootstrapValues \/ BootstrapGit
  BY <1>7 DEF BootstrapValues, BootstrapGit
<1>8. CASE BeginAttempt
  <2>1. status' \in {status, "in-progress"} /\ faults' \in Nat
    BY <1>8, StatusWrites DEF BeginAttempt
  <2>2. QED
    BY <1>8, <2>1 DEF BeginAttempt
<1>9. CASE Deploy
  BY <1>9 DEF Deploy
<1>10. CASE Deployed
  BY <1>10 DEF Deployed
<1>11. CASE Commit
  BY <1>11 DEF Commit, AfterRefusedPush
<1>12. CASE SetUp
  BY <1>12 DEF SetUp
<1>13. CASE Complete
  <2>1. status' \in {status, "completed"} /\ faults' \in Nat
    BY <1>13, StatusWrites DEF Complete
  <2>2. QED
    BY <1>13, <2>1 DEF Complete
<1>14. CASE ReportFailure
  <2>1. status' \in {status, "failed"} /\ faults' \in Nat
    BY <1>14, StatusWrites DEF ReportFailure
  <2>2. QED
    BY <1>14, <2>1 DEF ReportFailure
<1>15. CASE CleanUp
  BY <1>15 DEF CleanUp, CleanedRelease, AfterCleanUp
<1>16. CASE StartOperator
  BY <1>16 DEF StartOperator
<1>17. CASE RecoverRefused \/ Stay
  BY <1>1, <1>17 DEF RecoverRefused, Stay
<1>18. CASE InitializeFails
  BY <1>18 DEF InitializeFails
<1>19. CASE InstallFails
  BY <1>19 DEF InstallFails
<1>20. CASE Exit \/ Crash \/ Evict
  BY <1>20 DEF Exit, Crash, Evict
<1>21. QED
  BY <1>1, <1>2, <1>3, <1>4, <1>5, <1>6, <1>7, <1>8, <1>9, <1>10, <1>11, <1>12, <1>13,
     <1>14, <1>15, <1>16, <1>17, <1>18, <1>19, <1>20 DEF Next, Progress

LEMMA Invariance == Spec => []IInv
  BY IInvInit, IInvNext, PTL DEF Spec

\* The variables keep their types.
THEOREM InstallerTypes == Spec => []TypeOK
<1>1. IInv => TypeOK
  BY DEF IInv
<1>2. QED
  BY <1>1, Invariance, PTL

\* A recorded completion is true, whatever status writes were lost and wherever
\* attempts were cut short.
THEOREM CompletionIsTrue == Spec => []CompletedMeansInstalled
<1>1. IInv => CompletedMeansInstalled
  BY DEF IInv
<1>2. QED
  BY <1>1, Invariance, PTL

\* The GitOps phase runs only over an installed platform, from a clone.
THEOREM GitOpsAfterInstall == Spec => []RunsOnInstalled
<1>1. IInv => RunsOnInstalled
  BY DEF IInv
<1>2. QED
  BY <1>1, Invariance, PTL

\* A platform recorded as installed is never installed again.
THEOREM InstalledOnce == Spec => NeverReinstalled
<1>1. ASSUME IInv, [Next]_vars, status = "completed"
      PROVE  status' = "completed" /\ release' = release
  <2>1. pc \in {"down", "state", "complete", "start", "running"}
    BY <1>1 DEF IInv, TypeOK, PlaceInv, Labels, BootstrapSteps, InstallSteps, PlainSteps,
                Attempting
  <2>2. CASE UNCHANGED <<status, release>>
    BY <1>1, <2>2
  <2>3. CASE GetInstallationState
    BY <1>1, <2>3 DEF GetInstallationState, cluster
  <2>4. CASE Complete
    BY <1>1, <2>4 DEF Complete, RecordStatus, cluster
  <2>5. CASE Start \/ StartOperator \/ Exit \/ Crash \/ Evict \/ Stay \/ UNCHANGED vars
    BY <2>2, <2>5 DEF Start, StartOperator, Exit, Crash, Evict, Stay, cluster, vars
  <2>6. QED
    BY <1>1, <2>1, <2>3, <2>4, <2>5
       DEF Next, Progress, CheckPrerequisites, ApplyRecoveryManifests, RecoverFromGit,
           RecoverRefused, ResetRecoveryModeToStandard, SetGitConfig, SetGitServerConfig,
           BootstrapValues, BootstrapGit, BeginAttempt, Deploy, Deployed, Commit, SetUp,
           ReportFailure, CleanUp, InitializeFails, InstallFails, BootstrapSteps, InstallSteps
<1>2. IInv /\ [Next]_vars
        => [status = "completed" => status' = "completed" /\ release' = release]_vars
  BY <1>1
<1>3. QED
  BY <1>2, Invariance, PTL DEF Spec, NeverReinstalled

=============================================================================
