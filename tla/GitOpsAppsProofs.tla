-------------------------- MODULE GitOpsAppsProofs --------------------------
(***************************************************************************)
(* Proofs about GitOpsApps: types, no orphaned resources, and no deletion  *)
(* of an Application that is wanted.                                       *)
(***************************************************************************)
EXTENDS GitOpsApps, TLAPS

\* What a run knows at each step, and what the Applications of directories are not:
\* the strengthening that makes the properties inductive.
RunInv ==
    /\ remote.revision = changes
    /\ \A n \in GitOps : apps[n].state # "bare"
    /\ pc \in {"values", "current", "check", "remove"} /\ ~moved
         => installed = scope \cap tree.on
    /\ pc = "idle" => installed = {}
    /\ pc = "remove" => todo \cap installed = {}
    /\ pc = "add" => current \subseteq GitOps
    /\ pc \in {"add", "removeGitOps"} /\ ~moved => required = GitOps \cap tree.on
    /\ pc = "removeGitOps" => todo \cap required = {} /\ Global \notin todo

\* What a release or directory has become of an Application is an Application.
LEMMA ApplicationTypes ==
    ASSUME NEW app \in Application, NEW rev \in Revisions
    PROVE  /\ Absent \in Application /\ Absent.state = "absent"
           /\ Deleted(app) \in Application /\ Removed(app) \in Application
           /\ Applied(app, rev) \in Application
  <1>1. 0 \in Revisions
    BY GitOpsAssumption DEF Revisions
  <1>2. QED
    BY <1>1 DEF Absent, Deleted, Removed, Applied, Application

\* The sets of names are disjoint where it matters.
LEMMA NameFacts ==
    /\ Releases \subseteq Names /\ GitOps \subseteq Names
    /\ Global \in GitOps /\ Global \notin Releases
    /\ Releases \cap GitOps = {}
    /\ 0 \in Revisions
  BY GitOpsAssumption DEF Names, GitOps, Revisions

-----------------------------------------------------------------------------
(* Types.                                                                  *)

LEMMA TypeInit == Init => TypeOK
  <1> SUFFICES ASSUME Init PROVE TypeOK
    OBVIOUS
  <1>1. PICK old \in {{}, Names} : \E bare \in SUBSET (old \cap Releases) :
          /\ apps = [n \in Names |->
                       IF n \in bare THEN [state |-> "bare", revision |-> 0]
                       ELSE IF n \in old THEN [state |-> "live", revision |-> 0]
                       ELSE Absent]
          /\ resources = [n \in Names |-> IF n \in old THEN 0 ELSE Nothing]
    BY DEF Init
  <1>2. apps \in [Names -> Application]
    BY <1>1, NameFacts DEF Application, Absent
  <1>3. resources \in [Names -> Revisions \cup {Nothing}]
    BY <1>1, NameFacts
  <1>4. remote \in Wanted /\ tree \in Wanted
    <2>1. Core \cup {Global} \subseteq Names
      BY NameFacts, GitOpsAssumption
    <2>2. QED
      BY <2>1, NameFacts DEF Init, Wanted
  <1>5. QED
    BY <1>2, <1>3, <1>4, NameFacts DEF Init, TypeOK

LEMMA TypeNext == TypeOK /\ RunInv /\ [Next]_vars => TypeOK'
  <1> SUFFICES ASSUME TypeOK, RunInv, [Next]_vars PROVE TypeOK'
    OBVIOUS
  <1> USE DEF TypeOK, Goto, NoFault, Fault, Steps
  <1> USE NameFacts
  <1>a. ASSUME ToIdle, remote' \in Wanted, tree' \in Wanted, UNCHANGED argo,
               changes' \in Nat, faults' \in Nat
        PROVE  TypeOK'
    BY <1>a DEF ToIdle, argo
  <1>1. ASSUME NEW releases \in {Releases, TeamReleases}, Begin(releases)
        PROVE  TypeOK'
    <2>1. releases \subseteq Releases
      BY GitOpsAssumption
    <2>2. todo' \subseteq GitOps /\ installed' \subseteq scope'
      BY <1>1 DEF Begin, RunInv
    <2> QED
      BY <1>1, <2>1, <2>2 DEF Begin, argo
  <1>2. CASE Prepare
    BY <1>2 DEF Prepare, argo, run, Wanted
  <1>3. CASE ListReleases
    BY <1>3 DEF ListReleases, argo
  <1>4. CASE WriteReleaseValues
    BY <1>4 DEF WriteReleaseValues, argo, Wanted
  <1>5. CASE GetCurrent
    BY <1>5 DEF GetCurrent, GetApplications, There, argo
  <1>6. CASE CheckController
    <2>1. stuck' \in BOOLEAN
      BY <1>6, Zenon DEF CheckController
    <2>2. faults' \in Nat
      BY <1>6 DEF CheckController
    <2> QED
      BY <1>6, <2>1, <2>2 DEF CheckController, Unwanted
  <1>7. CASE RemoveRelease
    <2>1. apps' \in [Names -> Application]
      BY <1>7, ApplicationTypes DEF RemoveRelease
    <2> QED
      BY <1>7, <2>1 DEF RemoveRelease
  <1>8. CASE EndRemove
    BY <1>8 DEF EndRemove, argo
  <1>9. CASE ApplyRelease
    <2>1. apps' \in [Names -> Application]
      BY <1>9, ApplicationTypes DEF ApplyRelease, ApplyApp
    <2> QED
      BY <1>9, <2>1 DEF ApplyRelease, ApplyApp
  <1>10. CASE EndApply
    BY <1>10 DEF EndApply, argo, run
  <1>11. CASE ReadDirectories
    BY <1>11 DEF ReadDirectories, GetApplications, There, argo
  <1>12. CASE AddGitOpsApp
    <2>1. apps' \in [Names -> Application]
      BY <1>12, ApplicationTypes DEF AddGitOpsApp, ApplyApp
    <2> QED
      BY <1>12, <2>1 DEF AddGitOpsApp, ApplyApp
  <1>13. CASE EndAdd
    <2>1. ToRemove \subseteq GitOps
      BY <1>13 DEF EndAdd, ToRemove, RunInv
    <2> QED
      BY <1>13, <2>1 DEF EndAdd, argo
  <1>14. CASE RemoveGitOpsApp
    <2>1. apps' \in [Names -> Application]
      BY <1>14, ApplicationTypes DEF RemoveGitOpsApp
    <2> QED
      BY <1>14, <2>1 DEF RemoveGitOpsApp
  <1>15. CASE EndRun
    BY <1>15, <1>a DEF EndRun
  <1>16. CASE RunFails
    BY <1>16, <1>a DEF RunFails
  <1>17. CASE UserChange
    <2>1. /\ changes' \in Nat /\ changes' \in Revisions
          /\ remote'.on \subseteq Names /\ remote' = [on |-> remote'.on, revision |-> changes']
      BY <1>17, GitOpsAssumption DEF UserChange, RunInv, Revisions, Wanted
    <2>2. remote' \in Wanted
      BY <2>1 DEF Wanted
    <2> QED
      BY <1>17, <2>1, <2>2 DEF UserChange, argo, run
  <1>18. CASE Pull
    BY <1>18 DEF Pull, argo, run
  <1>19. CASE Reset
    BY <1>19 DEF Reset, argo, run
  <1>20. CASE Crash
    BY <1>20, <1>a DEF Crash
  <1>21. CASE Hang
    BY <1>21 DEF Hang, run
  <1>22. ASSUME NEW n \in Names, Sync(n) PROVE TypeOK'
    BY <1>22 DEF Sync, run, Application
  <1>23. ASSUME NEW n \in Names, Finalize(n) PROVE TypeOK'
    <2>1. Absent \in Application
      BY ApplicationTypes DEF Absent, Application
    <2> QED
      BY <1>23, <2>1 DEF Finalize, run
  <1>24. CASE UNCHANGED vars
    BY <1>24 DEF vars, run, argo
  <1> QED
    BY <1>1, <1>2, <1>3, <1>4, <1>5, <1>6, <1>7, <1>8, <1>9, <1>10, <1>11, <1>12, <1>13,
       <1>14, <1>15, <1>16, <1>17, <1>18, <1>19, <1>20, <1>21, <1>22, <1>23, <1>24
    DEF Next, Step

-----------------------------------------------------------------------------
(* What a run knows.                                                       *)

LEMMA RunInit == Init => RunInv
  <1> SUFFICES ASSUME Init PROVE RunInv
    OBVIOUS
  <1>1. \A n \in GitOps : apps[n].state # "bare"
    BY NameFacts DEF Init, Absent
  <1> QED
    BY <1>1 DEF Init, RunInv

LEMMA RunNext == TypeOK /\ RunInv /\ [Next]_vars => RunInv'
  <1> SUFFICES ASSUME TypeOK, RunInv, [Next]_vars PROVE RunInv'
    OBVIOUS
  <1> USE NameFacts
  <1> USE DEF TypeOK, RunInv, Goto, NoFault, Fault
  <1>1. ASSUME NEW releases \in {Releases, TeamReleases}, Begin(releases)
        PROVE  RunInv'
    BY <1>1 DEF Begin, argo
  <1>2. CASE Prepare
    BY <1>2 DEF Prepare, run, argo
  <1>3. CASE ListReleases
    BY <1>3 DEF ListReleases, argo
  <1>4. CASE WriteReleaseValues
    BY <1>4 DEF WriteReleaseValues, argo
  <1>5. CASE GetCurrent
    BY <1>5 DEF GetCurrent, argo
  <1>6. CASE CheckController
    BY <1>6 DEF CheckController, Unwanted
  <1>7. CASE RemoveRelease
    BY <1>7 DEF RemoveRelease, Removed, Deleted
  <1>8. CASE EndRemove
    BY <1>8 DEF EndRemove, argo
  <1>9. CASE ApplyRelease
    BY <1>9 DEF ApplyRelease, ApplyApp, Applied
  <1>10. CASE EndApply
    BY <1>10 DEF EndApply, argo, run
  <1>11. CASE ReadDirectories
    BY <1>11 DEF ReadDirectories, argo, GetApplications, There
  <1>12. CASE AddGitOpsApp
    BY <1>12 DEF AddGitOpsApp, ApplyApp, Applied
  <1>13. CASE EndAdd
    BY <1>13 DEF EndAdd, argo, ToRemove
  <1>14. CASE RemoveGitOpsApp
    <2>1. \A n \in GitOps : apps'[n].state # "bare"
      <3>1. CASE UNCHANGED apps
        BY <3>1
      <3>2. ASSUME NEW m \in todo, apps' = [apps EXCEPT ![m] = Deleted(@)]
            PROVE  \A n \in GitOps : apps'[n].state # "bare"
        <4>1. Deleted(apps[m]).state # "bare"
          <5>1. apps[m] \in Application
            BY <1>14 DEF RemoveGitOpsApp
          <5> QED
            BY <5>1 DEF Deleted, Absent, Application
        <4> QED
          BY <3>2, <4>1
      <3> QED
        BY <1>14, <3>1, <3>2 DEF RemoveGitOpsApp
    <2>2. todo' \subseteq todo /\ UNCHANGED <<remote, tree, installed, scope, required, current,
                                            pc, moved, changes>>
      BY <1>14 DEF RemoveGitOpsApp
    <2> QED
      BY <2>1, <2>2
  <1>15. CASE EndRun
    BY <1>15 DEF EndRun, argo, ToIdle
  <1>16. CASE RunFails
    BY <1>16 DEF RunFails, argo, ToIdle
  <1>17. CASE UserChange
    BY <1>17 DEF UserChange, argo, run
  <1>18. CASE Pull
    BY <1>18 DEF Pull, argo, run
  <1>19. CASE Reset
    BY <1>19 DEF Reset, argo, run
  <1>20. CASE Crash
    BY <1>20 DEF Crash, argo, ToIdle
  <1>21. CASE Hang
    BY <1>21 DEF Hang, run
  <1>22. ASSUME NEW n \in Names, Sync(n) PROVE RunInv'
    BY <1>22 DEF Sync, run
  <1>23. ASSUME NEW n \in Names, Finalize(n) PROVE RunInv'
    BY <1>23 DEF Finalize, run, Absent
  <1>24. CASE UNCHANGED vars
    BY <1>24 DEF vars, run, argo
  <1> QED
    BY <1>1, <1>2, <1>3, <1>4, <1>5, <1>6, <1>7, <1>8, <1>9, <1>10, <1>11, <1>12,
       <1>13, <1>14, <1>15, <1>16, <1>17, <1>18, <1>19, <1>20, <1>21, <1>22, <1>23, <1>24
    DEF Next, Step

-----------------------------------------------------------------------------
(* Properties.                                                             *)

\* Every variable keeps its type, for all bounds, sets of names and faults.
THEOREM GitOpsTypes == Spec => []TypeOK
<1>1. TypeOK /\ RunInv /\ [Next]_vars => TypeOK' /\ RunInv'
  BY TypeNext, RunNext
<1> QED
  BY <1>1, TypeInit, RunInit, PTL DEF Spec

THEOREM RunKnows == Spec => [](TypeOK /\ RunInv)
<1>1. TypeOK /\ RunInv /\ [Next]_vars => TypeOK' /\ RunInv'
  BY TypeNext, RunNext
<1> QED
  BY <1>1, TypeInit, RunInit, PTL DEF Spec

LEMMA OrphansInit == Init => NoOrphans
  BY DEF Init, NoOrphans, Absent

LEMMA OrphansNext ==
    TypeOK /\ RunInv /\ NoOrphans /\ [Next]_vars => NoOrphans'
  <1> SUFFICES ASSUME TypeOK, RunInv, NoOrphans, [Next]_vars PROVE NoOrphans'
    OBVIOUS
  <1> USE NameFacts
  <1>1. CASE UNCHANGED <<apps, resources>>
    BY <1>1 DEF NoOrphans
  <1>2. CASE RemoveRelease
    <2>1. \A n \in Names : apps'[n].state = "absent" => apps[n].state = "absent"
      BY <1>2 DEF RemoveRelease, Removed, Deleted, Absent, TypeOK, Application
    <2> QED
      BY <1>2, <2>1 DEF RemoveRelease, NoOrphans
  <1>3. CASE ApplyRelease \/ AddGitOpsApp
    <2>1. \A n \in Names : apps'[n].state = "absent" => apps[n].state = "absent"
      BY <1>3 DEF ApplyRelease, AddGitOpsApp, ApplyApp, Applied, TypeOK, Application
    <2> QED
      BY <1>3, <2>1 DEF ApplyRelease, AddGitOpsApp, NoOrphans
  <1>4. CASE RemoveGitOpsApp
    <2>1. todo \subseteq GitOps
      BY <1>4 DEF RemoveGitOpsApp, TypeOK
    <2>2. \A n \in Names : apps'[n].state = "absent" => apps[n].state = "absent"
      BY <1>4, <2>1 DEF RemoveGitOpsApp, Deleted, Absent, RunInv, TypeOK, Application
    <2> QED
      BY <1>4, <2>2 DEF RemoveGitOpsApp, NoOrphans
  <1>5. ASSUME NEW n \in Names, Sync(n) PROVE NoOrphans'
    BY <1>5 DEF Sync, NoOrphans, TypeOK
  <1>6. ASSUME NEW n \in Names, Finalize(n) PROVE NoOrphans'
    BY <1>6 DEF Finalize, NoOrphans, TypeOK, Absent
  <1> QED
    <2>1. ASSUME NEW releases \in {Releases, TeamReleases}, Begin(releases)
          PROVE  UNCHANGED <<apps, resources>>
      BY <2>1 DEF Begin, argo
    <2>2. CASE \/ Prepare \/ ListReleases \/ WriteReleaseValues \/ GetCurrent
               \/ CheckController \/ EndRemove \/ EndApply \/ ReadDirectories \/ EndAdd
               \/ EndRun
      BY <2>2, <1>1 DEF Prepare, ListReleases, WriteReleaseValues, GetCurrent,
         CheckController, EndRemove, EndApply, ReadDirectories, EndAdd, EndRun, argo
    <2>3. CASE RunFails \/ UserChange \/ Pull \/ Reset \/ Crash \/ Hang \/ UNCHANGED vars
      BY <2>3, <1>1 DEF RunFails, UserChange, Pull, Reset, Crash, Hang, argo, vars
    <2> QED
      BY <1>1, <1>2, <1>3, <1>4, <1>5, <1>6, <2>1, <2>2, <2>3 DEF Next, Step

\* Nothing that Argo CD has deployed is left without an Application: removal passes over
\* an Application of a release that lacks the finalizer, and those of directories have
\* it from the start.
THEOREM NothingOrphaned == Spec => []NoOrphans
<1>1. TypeOK /\ RunInv /\ NoOrphans /\ [Next]_vars => NoOrphans'
  BY OrphansNext
<1> QED
  BY <1>1, OrphansInit, RunKnows, PTL DEF Spec

\* The step from which WantedKept follows: an Application that is there stops being so
\* only by a removal of what is not wanted.
LEMMA KeptNext ==
    ASSUME TypeOK, RunInv, [Next]_vars, NEW n \in Names,
           apps[n].state = "live", apps'[n].state # "live"
    PROVE  n # Global /\ (moved \/ n \notin tree.on)
  <1> USE NameFacts
  <1>1. CASE UNCHANGED apps
    BY <1>1
  <1>2. CASE RemoveRelease
    <2>1. n \in todo /\ pc = "remove"
      BY <1>2 DEF RemoveRelease, TypeOK
    <2> QED
      BY <2>1 DEF TypeOK, RunInv
  <1>3. CASE ApplyRelease \/ AddGitOpsApp
    BY <1>3 DEF ApplyRelease, AddGitOpsApp, ApplyApp, Applied, TypeOK, Application
  <1>4. CASE RemoveGitOpsApp
    <2>1. n \in todo /\ pc = "removeGitOps"
      BY <1>4 DEF RemoveGitOpsApp, TypeOK
    <2> QED
      BY <2>1 DEF TypeOK, RunInv
  <1>5. ASSUME NEW m \in Names, Sync(m) PROVE UNCHANGED apps
    BY <1>5 DEF Sync
  <1>6. ASSUME NEW m \in Names, Finalize(m) PROVE FALSE
    BY <1>6 DEF Finalize, TypeOK
  <1> QED
    <2>1. ASSUME NEW releases \in {Releases, TeamReleases}, Begin(releases)
          PROVE  UNCHANGED apps
      BY <2>1 DEF Begin, argo
    <2>2. CASE \/ Prepare \/ ListReleases \/ WriteReleaseValues \/ GetCurrent
               \/ CheckController \/ EndRemove \/ EndApply \/ ReadDirectories \/ EndAdd
               \/ EndRun
      BY <2>2, <1>1 DEF Prepare, ListReleases, WriteReleaseValues, GetCurrent,
         CheckController, EndRemove, EndApply, ReadDirectories, EndAdd, EndRun, argo
    <2>3. CASE RunFails \/ UserChange \/ Pull \/ Reset \/ Crash \/ Hang \/ UNCHANGED vars
      BY <2>3, <1>1 DEF RunFails, UserChange, Pull, Reset, Crash, Hang, argo, vars
    <2> QED
      BY <1>1, <1>2, <1>3, <1>4, <1>5, <1>6, <2>1, <2>2, <2>3 DEF Next, Step

\* No Application that ENV_DIR asks for is deleted, whatever lists come back empty and
\* whichever calls fail, nor ever the one for cluster resources.
THEOREM WantedStay == Spec => WantedKept
<1>1. TypeOK /\ RunInv /\ [Next]_vars
        => [\A n \in Names : apps[n].state = "live" /\ apps'[n].state # "live"
              => n # Global /\ (moved \/ n \notin tree.on)]_apps
  BY KeptNext
<1> QED
  BY <1>1, RunKnows, PTL DEF Spec, WantedKept
=============================================================================
