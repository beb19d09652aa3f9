------------------------ MODULE RuntimeUpgradeProofs ------------------------
(***************************************************************************)
(* Theorems about RuntimeUpgrade, for every set of releases and every      *)
(* number of changes and faults.                                           *)
(***************************************************************************)
EXTENDS RuntimeUpgrade, TLAPS

Statuses == [version : Versions \cup {NoVersion},
             deployingVersion : Versions \cup {NoVersion}]

LEMMA VersionFacts ==
    /\ NoVersion \notin Versions
    /\ Versions \subseteq Nat
    /\ Unknown \in Statuses
  BY UpgradeAssumption DEF Versions, NoVersion, Unknown, Statuses

LEMMA FaultTypes ==
    ASSUME TypeOK, NEW kind, Fault(kind) \/ NoFault
    PROVE  faults' \in Nat /\ unnoticed' \in BOOLEAN
  <1>1. faults' \in Nat
    BY DEF TypeOK, Fault, NoFault
  <1>2. unnoticed' \in BOOLEAN
    <2>1. CASE NoFault
      BY <2>1 DEF TypeOK, NoFault
    <2>2. CASE Fault(kind)
      BY <2>2, Zenon DEF Fault
    <2> QED
      BY <2>1, <2>2
  <1> QED
    BY <1>1, <1>2

LEMMA RecordTypes ==
    ASSUME TypeOK, NEW new \in Statuses, RecordDeployment(new)
    PROVE  deployment' \in Statuses
  BY DEF TypeOK, RecordDeployment, Fault, Statuses

LEMMA InitTypes == Init => TypeOK
  <1> SUFFICES ASSUME Init PROVE TypeOK
    OBVIOUS
  <1>1. tag \in Versions
    BY UpgradeAssumption DEF Init, Versions
  <1>2. {deployment, state} \subseteq Statuses
    BY <1>1, VersionFacts DEF Init, Statuses
  <1> QED
    BY <1>1, <1>2 DEF Init, TypeOK, Statuses

LEMMA NextTypes == TypeOK /\ [Next]_vars => TypeOK'
  <1> SUFFICES ASSUME TypeOK, [Next]_vars PROVE TypeOK'
    OBVIOUS
  <1> USE DEF TypeOK
  <1>0. {deployment, state} \subseteq Statuses
    BY DEF Statuses
  <1>a. ASSUME EndApplyAll
        PROVE  state' \in Statuses /\ pc' = "idle" /\ handled' = {}
    BY <1>a, VersionFacts DEF EndApplyAll
  <1>1. CASE PauseForOperator
    BY <1>1 DEF PauseForOperator, NoFault, local
  <1>2. CASE BeginApplyAll
    <2> DEFINE begun == [deployment EXCEPT !.deployingVersion = running]
    <2>1. begun \in Statuses
      BY <1>0 DEF Statuses
    <2>2. deployment' \in Statuses /\ state' \in Statuses
      BY <1>2, <2>1, RecordTypes, VersionFacts DEF BeginApplyAll
    <2>3. faults' \in Nat /\ unnoticed' \in BOOLEAN
      BY <1>2, FaultTypes DEF BeginApplyAll, RecordDeployment
    <2> HIDE DEF begun
    <2> QED
      BY <1>2, <2>2, <2>3 DEF BeginApplyAll, Statuses
  <1>3. ASSUME NEW when \in {"pre", "post"}, RunEntry(when)
        PROVE  TypeOK'
    <2> PICK u \in ToHandle :
             /\ handled' = handled \cup {u}
             /\ \/ /\ ran' = ran \cup {Operation(u, when, "platform"),
                                       Operation(u, when, "application")}
                   /\ NoFault
                \/ /\ ran' = ran \cup {Operation(u, when, "platform")}
                   /\ Fault("swallow")
      BY <1>3 DEF RunEntry
    <2>1. u \in Upgrades
      BY DEF ToHandle, Selected
    <2>2. ran' \subseteq Operations
      BY <2>1 DEF Operations, Operation
    <2>3. faults' \in Nat /\ unnoticed' \in BOOLEAN
      BY FaultTypes
    <2> QED
      BY <1>3, <2>1, <2>2, <2>3 DEF RunEntry
  <1>4. ASSUME NEW when \in {"pre", "post"}, EntriesDone(when)
        PROVE  TypeOK'
    BY <1>4 DEF EntriesDone, AfterEntries, NoFault
  <1>5. CASE ApplyAsApps
    BY <1>5, FaultTypes DEF ApplyAsApps
  <1>6. CASE RecordDeployed
    <2>1. [deployment EXCEPT !.version = RecordedVersion] \in Statuses
      BY <1>0 DEF Statuses, RecordedVersion
    <2>2. deployment' \in Statuses
      BY <1>6, <2>1, RecordTypes DEF RecordDeployed
    <2>3. faults' \in Nat /\ unnoticed' \in BOOLEAN
      BY <1>6, FaultTypes DEF RecordDeployed, RecordDeployment
    <2> QED
      BY <1>6, <1>a, <2>2, <2>3 DEF RecordDeployed, Statuses
  <1>7. CASE ApplyAllThrows
    BY <1>7, <1>a, FaultTypes DEF ApplyAllThrows, Statuses
  <1>8. CASE ChangeTag
    BY <1>8 DEF ChangeTag, NoFault, local
  <1>9. CASE SyncOperator
    BY <1>9, <1>a DEF SyncOperator, NoFault, Statuses
  <1>10. CASE Crash
    BY <1>10, <1>a, FaultTypes DEF Crash, Statuses
  <1>11. CASE UNCHANGED vars
    BY <1>11 DEF vars, local
  <1> QED
    BY <1>1, <1>2, <1>3, <1>4, <1>5, <1>6, <1>7, <1>8, <1>9, <1>10, <1>11
    DEF Next, ApplyAll

\* Every variable keeps its type.
THEOREM UpgradeTypes == Spec => []TypeOK
  BY InitTypes, NextTypes, PTL DEF Spec

-----------------------------------------------------------------------------
(* What is known between two steps of applyAll.                            *)

Due == IF Skips(state) THEN {} ELSE Selected(state)

HasRun(u, when) ==
    {Operation(u, when, "platform"), Operation(u, when, "application")} \subseteq ran

\* The status read at the beginning is the one recorded, or an empty one.
StatusInv ==
    /\ deployment.version \in Versions
    /\ pc # "idle" => state \in {deployment, Unknown}
    /\ pc \in {"idle", "apply", "record"} => handled = {}

\* Without silent faults: what the steps passed so far have run.
ProgressInv ==
    ~unnoticed /\ pc # "idle" =>
        /\ state = deployment
        /\ state.deployingVersion = running
        /\ \A u \in Due :
             /\ pc # "pre" \/ u \in handled => HasRun(u, "pre")
             /\ pc = "record" \/ (pc = "post" /\ u \in handled) => HasRun(u, "post")

UpgradeInv == TypeOK /\ StatusInv /\ ProgressInv

LEMMA FaultsNoticed ==
    ASSUME NEW kind, Fault(kind) \/ NoFault, ~unnoticed'
    PROVE  ~unnoticed /\ (NoFault \/ kind \notin Silent)
  <1>1. CASE NoFault
    BY <1>1 DEF NoFault
  <1>2. CASE Fault(kind)
    BY <1>2, Zenon DEF Fault
  <1> QED
    BY <1>1, <1>2

LEMMA SilentFaults ==
    ASSUME NEW kind \in Silent, Fault(kind)
    PROVE  unnoticed'
  BY Zenon DEF Fault

LEMMA Recorded ==
    ASSUME NEW new, RecordDeployment(new), ~unnoticed'
    PROVE  ~unnoticed /\ deployment' = new
  <1>1. ~Fault("statusWrite")
    BY SilentFaults DEF Silent
  <1> QED
    BY <1>1, FaultsNoticed DEF RecordDeployment

\* Where applyAll ends nothing has to be known of the run.
LEMMA EndKeeps ==
    ASSUME StatusInv, EndApplyAll, deployment'.version \in Versions
    PROVE  StatusInv' /\ ProgressInv'
  BY DEF StatusInv, ProgressInv, EndApplyAll

\* The members of a status.
LEMMA StatusFields ==
    ASSUME TypeOK
    PROVE  /\ {deployment, state} \subseteq Statuses
           /\ \A v : [deployment EXCEPT !.deployingVersion = v].version = deployment.version
           /\ \A v : [deployment EXCEPT !.deployingVersion = v].deployingVersion = v
           /\ \A v : [deployment EXCEPT !.version = v].version = v
  BY DEF TypeOK, Statuses

LEMMA BeginKeeps ==
    ASSUME UpgradeInv, BeginApplyAll
    PROVE  StatusInv' /\ ProgressInv'
  <1> DEFINE begun == [deployment EXCEPT !.deployingVersion = running]
  <1> USE DEF UpgradeInv
  <1>1. begun.version = deployment.version /\ begun.deployingVersion = running
    BY StatusFields
  <1>2. handled' = {} /\ pc' = "pre" /\ running' = running
    BY DEF BeginApplyAll, StatusInv
  <1>3. deployment' \in {begun, deployment}
    BY DEF BeginApplyAll, RecordDeployment
  <1>4. state' \in {deployment', Unknown}
    BY DEF BeginApplyAll
  <1> HIDE DEF begun
  <1>5. StatusInv'
    BY <1>1, <1>2, <1>3, <1>4 DEF StatusInv
  <1>6. ASSUME ~unnoticed'
        PROVE  state' = deployment' /\ state'.deployingVersion = running
    <2>1. ~Fault("statusRead")
      BY <1>6, FaultsNoticed DEF Silent, Fault, NoFault
    <2>2. RecordDeployment(begun) /\ state' = deployment'
      BY <2>1 DEF BeginApplyAll, begun
    <2> QED
      BY <1>1, <1>6, <2>2, Recorded
  <1> QED
    BY <1>2, <1>5, <1>6 DEF ProgressInv

LEMMA RunEntryKeeps ==
    ASSUME UpgradeInv, NEW when \in {"pre", "post"}, RunEntry(when)
    PROVE  StatusInv' /\ ProgressInv'
  <1> USE DEF UpgradeInv
  <1> PICK u \in ToHandle :
           /\ handled' = handled \cup {u}
           /\ \/ /\ ran' = ran \cup {Operation(u, when, "platform"),
                                     Operation(u, when, "application")}
                 /\ NoFault
              \/ /\ ran' = ran \cup {Operation(u, when, "platform")}
                 /\ Fault("swallow")
    BY DEF RunEntry
  <1>1. UNCHANGED <<running, deployment, pc, state>> /\ pc = when
    BY DEF RunEntry
  <1>2. StatusInv'
    BY <1>1 DEF StatusInv
  <1>3. ASSUME ~unnoticed'
        PROVE  /\ ~unnoticed
               /\ ran' = ran \cup {Operation(u, when, "platform"),
                                   Operation(u, when, "application")}
    <2>1. ~Fault("swallow")
      BY <1>3, SilentFaults DEF Silent
    <2> QED
      BY <1>3, <2>1, FaultsNoticed
  <1>4. ASSUME ~unnoticed', NEW w, NEW k, HasRun(w, k)
        PROVE  HasRun(w, k)'
    BY <1>3, <1>4 DEF HasRun, Operation
  <1>5. ASSUME ~unnoticed'
        PROVE  HasRun(u, when)'
    BY <1>3, <1>5 DEF HasRun, Operation
  <1>6. Due' = Due
    BY <1>1 DEF Due, Skips, Selected
  <1>7. ASSUME ~unnoticed', NEW w \in Due
        PROVE  /\ pc' # "pre" \/ w \in handled' => HasRun(w, "pre")'
               /\ pc' = "record" \/ (pc' = "post" /\ w \in handled')
                    => HasRun(w, "post")'
    <2>1. CASE w = u
      BY <1>1, <1>3, <1>4, <1>5, <1>7, <2>1 DEF ProgressInv
    <2>2. CASE w # u
      BY <1>1, <1>3, <1>4, <1>7, <2>2 DEF ProgressInv
    <2> QED
      BY <2>1, <2>2
  <1> QED
    BY <1>1, <1>2, <1>3, <1>6, <1>7 DEF ProgressInv

LEMMA EntriesDoneKeeps ==
    ASSUME UpgradeInv, NEW when \in {"pre", "post"}, EntriesDone(when)
    PROVE  StatusInv' /\ ProgressInv'
  <1> USE DEF UpgradeInv
  <1>1. /\ UNCHANGED <<running, deployment, state, ran, unnoticed>>
        /\ pc = when /\ pc' = AfterEntries(when) /\ handled' = {}
    BY DEF EntriesDone, NoFault
  <1>2. Due \subseteq handled
    BY DEF EntriesDone, ToHandle, Due
  <1>3. Due' = Due /\ \A w, k : HasRun(w, k)' = HasRun(w, k)
    BY <1>1 DEF Due, Skips, Selected, HasRun, Operation
  <1>4. StatusInv'
    BY <1>1 DEF StatusInv, AfterEntries
  <1> QED
    BY <1>1, <1>2, <1>3, <1>4 DEF ProgressInv, AfterEntries

\* Steps that leave the run, its status and what it has run alone.
LEMMA OthersKeep ==
    ASSUME UpgradeInv, NEW kind, Fault(kind) \/ NoFault,
           UNCHANGED <<running, deployment, state, handled, ran>>,
           pc' = pc \/ (pc = "apply" /\ pc' = "post")
    PROVE  StatusInv' /\ ProgressInv'
  <1> USE DEF UpgradeInv
  <1>1. Due' = Due /\ \A w, k : HasRun(w, k)' = HasRun(w, k)
    BY DEF Due, Skips, Selected, HasRun, Operation
  <1>2. ~unnoticed' => ~unnoticed
    BY FaultsNoticed
  <1> QED
    BY <1>1, <1>2 DEF StatusInv, ProgressInv

LEMMA NextKeeps == UpgradeInv /\ [Next]_vars => UpgradeInv'
  <1> SUFFICES ASSUME UpgradeInv, [Next]_vars PROVE StatusInv' /\ ProgressInv'
    BY NextTypes DEF UpgradeInv
  <1>0. deployment.version \in Versions /\ running \in Versions
    BY DEF UpgradeInv, StatusInv, TypeOK
  <1>1. CASE PauseForOperator
    BY <1>1, OthersKeep DEF PauseForOperator, local
  <1>2. CASE BeginApplyAll
    BY <1>2, BeginKeeps
  <1>3. ASSUME NEW when \in {"pre", "post"}, RunEntry(when)
        PROVE  StatusInv' /\ ProgressInv'
    BY <1>3, RunEntryKeeps
  <1>4. ASSUME NEW when \in {"pre", "post"}, EntriesDone(when)
        PROVE  StatusInv' /\ ProgressInv'
    BY <1>4, EntriesDoneKeeps
  <1>5. CASE ApplyAsApps
    BY <1>5, OthersKeep DEF ApplyAsApps
  <1>6. CASE RecordDeployed
    <2>1. deployment'.version \in Versions
      BY <1>0, <1>6, StatusFields
      DEF RecordDeployed, RecordDeployment, RecordedVersion, UpgradeInv
    <2> QED
      BY <1>6, <2>1, EndKeeps DEF RecordDeployed, UpgradeInv
  <1>7. CASE ApplyAllThrows
    BY <1>0, <1>7, EndKeeps DEF ApplyAllThrows, UpgradeInv
  <1>8. CASE ChangeTag
    BY <1>8, OthersKeep DEF ChangeTag, local
  <1>9. CASE SyncOperator
    BY <1>0, <1>9, EndKeeps DEF SyncOperator, UpgradeInv
  <1>10. CASE Crash
    BY <1>0, <1>10, EndKeeps DEF Crash, UpgradeInv
  <1>11. CASE UNCHANGED vars
    BY <1>11, OthersKeep DEF vars, local, NoFault
  <1> QED
    BY <1>1, <1>2, <1>3, <1>4, <1>5, <1>6, <1>7, <1>8, <1>9, <1>10, <1>11
    DEF Next, ApplyAll

LEMMA InitKeeps == Init => UpgradeInv
  <1> SUFFICES ASSUME Init PROVE UpgradeInv
    OBVIOUS
  <1>1. TypeOK
    BY InitTypes
  <1>2. StatusInv /\ ProgressInv
    BY <1>1 DEF Init, TypeOK, StatusInv, ProgressInv
  <1> QED
    BY <1>1, <1>2 DEF UpgradeInv

\* The status a run works with, and what the run has done so far, are as stated.
THEOREM UpgradeInvariant == Spec => []UpgradeInv
  BY InitKeeps, NextKeeps, PTL DEF Spec

-----------------------------------------------------------------------------
(* The two safety properties.                                              *)

\* One step runs only operations that the recorded version does not include.
LEMMA StepRunsNew ==
    ASSUME UpgradeInv, [Next]_vars, NEW op \in ran' \ ran
    PROVE  Coerced(deployment.version) < op.release
  <1>1. PICK when \in {"pre", "post"} : RunEntry(when)
    BY DEF Next, ApplyAll, PauseForOperator, BeginApplyAll, EntriesDone, ApplyAsApps,
           RecordDeployed, ApplyAllThrows, ChangeTag, SyncOperator, Crash, vars
  <1>2. PICK u \in ToHandle : op.release = u
    BY <1>1 DEF RunEntry, Operation
  <1>3. ~Skips(state) /\ u \in Selected(state)
    BY DEF ToHandle
  <1>4. state = deployment
    BY <1>1, <1>3 DEF RunEntry, UpgradeInv, StatusInv, Skips, Unknown
  <1> QED
    BY <1>2, <1>3, <1>4 DEF Selected

\* An upgrade operation never runs on a platform whose recorded version includes it.
THEOREM NothingTwice == Spec => NoOperationRepeated
  <1>1. UpgradeInv /\ [Next]_vars
          => [\A op \in ran' \ ran : Coerced(deployment.version) < op.release]_vars
    BY StepRunsNew
  <1> QED
    BY <1>1, UpgradeInvariant, PTL DEF Spec, NoOperationRepeated

\* One step records a later version only after everything on the way has run.
LEMMA StepSkipsNone ==
    ASSUME UpgradeInv, [Next]_vars, ~unnoticed',
           deployment.version < deployment'.version
    PROVE  Path(deployment.version, deployment'.version) \subseteq ran
  <1> USE DEF UpgradeInv
  <1>0. deployment.version \in Nat
    BY VersionFacts DEF StatusInv
  <1>a. ~(deployment.version < deployment.version)
    BY <1>0
  <1>1. RecordDeployed
    <2>1. ~BeginApplyAll
      BY <1>a, StatusFields DEF BeginApplyAll, RecordDeployment
    <2> QED
      BY <1>a, <2>1
      DEF Next, ApplyAll, PauseForOperator, RunEntry, EntriesDone, ApplyAsApps,
          ApplyAllThrows, ChangeTag, SyncOperator, Crash, vars
  <1>2. ~unnoticed /\ deployment' = [deployment EXCEPT !.version = RecordedVersion]
    BY <1>1, Recorded DEF RecordDeployed
  <1>3. deployment'.version = running
    BY <1>2, StatusFields DEF RecordedVersion
  <1>4. /\ state = deployment /\ state.deployingVersion = running
        /\ \A u \in Due : HasRun(u, "pre") /\ HasRun(u, "post")
    BY <1>1, <1>2 DEF ProgressInv, RecordDeployed
  <1>5. Due = Selected(state)
    <2>1. running \in Nat /\ running # NoVersion /\ deployment.version # NoVersion
      BY VersionFacts DEF TypeOK, StatusInv
    <2> QED
      BY <1>0, <1>3, <1>4, <2>1 DEF Due, Skips
  <1> SUFFICES ASSUME NEW op \in Path(deployment.version, deployment'.version)
               PROVE  op \in ran
    OBVIOUS
  <1>6. op.release \in Due
    BY <1>3, <1>4, <1>5 DEF Path, Selected, Operations
  <1>7. op = Operation(op.release, op.when, op.of)
    BY DEF Path, Operations, Operation
  <1>8. op.when \in {"pre", "post"} /\ op.of \in {"platform", "application"}
    BY DEF Path, Operations
  <1> QED
    BY <1>4, <1>6, <1>7, <1>8 DEF HasRun

\* Without silent faults no upgrade operation is left out: a later version is recorded
\* only after every operation on the way to it has run.
THEOREM NothingSkipped == Spec => NoOperationSkipped
  <1>1. UpgradeInv /\ [Next]_vars
          => [~unnoticed' /\ deployment.version < deployment'.version
                => Path(deployment.version, deployment'.version) \subseteq ran]_vars
    BY StepSkipsNone
  <1> QED
    BY <1>1, UpgradeInvariant, PTL DEF Spec, NoOperationSkipped

=============================================================================
