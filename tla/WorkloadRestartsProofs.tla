----------------------- MODULE WorkloadRestartsProofs -----------------------
(***************************************************************************)
(* Proofs about WorkloadRestarts, for all sets of workloads, any number of *)
(* pods and all faults: a job restarts a workload once, the marker means   *)
(* that pods have the keys, a recorded upgrade that proxies are current.   *)
(***************************************************************************)
EXTENDS WorkloadRestarts, TLAPS

LEMMA PodFacts ==
    /\ \A p \in Pods : p[1] \in Workloads
    /\ \A w \in Workloads \ Standalone : \A i \in 1..Replicas :
         <<w, i>> \in Pods /\ <<w, i>>[1] = w
    /\ \A w \in Deployments : w \in Workloads \ Standalone
    /\ 1 \in 1..Replicas
  BY RestartsAssumption DEF Pods, Workloads

\* Where a job is, what it was started for and what it waited for: no upgrade recorded,
\* no marker written, Keycloak up.
JobInv ==
    /\ pc = "wait" => job = "istio"
    /\ pc \in {"health", "mark"} => job = "auth"
    /\ pc = "record" => job = "istio"
    /\ job = "istio" /\ pc \in {"wait", "list", "restart", "record"} => due
    /\ job = "auth" /\ pc \in {"health", "list", "restart", "mark"} => ~marker
    /\ oauth => keycloak
    /\ job = "auth" /\ pc \in {"list", "restart", "mark"} => keycloak
    /\ marker => keycloak
    /\ pc = "mark" => Workloads \ Standalone \subseteq done

\* A workload that a job may still restart was restarted by attempts only whose end was
\* not recorded.
CountInv ==
    \A w \in Workloads :
        /\ restarts["istio"][w] <= 1 + unrecorded["istio"]
        /\ restarts["auth"][w] <= 1 + unrecorded["auth"]
        /\ due /\ pc # "record" /\ ~(pc = "restart" /\ job = "istio" /\ w \in done)
             => restarts["istio"][w] <= unrecorded["istio"]
        /\ ~marker /\ ~(pc \in {"restart", "mark"} /\ job = "auth" /\ w \in done)
             => restarts["auth"][w] <= unrecorded["auth"]

LEMMA TypeInit == Init => TypeOK
  <1> SUFFICES ASSUME Init PROVE TypeOK
    OBVIOUS
  <1>1. keys \in [Pods -> BOOLEAN] /\ proxy \in [Pods -> 1..2]
    BY DEF Init
  <1>2. restarts \in [Jobs -> [Workloads -> Nat]]
    BY DEF Init
  <1>3. keycloak \in BOOLEAN /\ oauth \in BOOLEAN /\ due \in BOOLEAN /\ marker \in BOOLEAN
    BY Zenon DEF Init
  <1>4. istiod \in 1..2 /\ injector \in 1..2 /\ expected \in 1..2
    BY DEF Init
  <1> QED
    BY <1>1, <1>2, <1>3, <1>4 DEF Init, TypeOK, Jobs

LEMMA RepeatedTypes == ASSUME TypeOK, Repeated PROVE unrecorded' \in [Jobs -> Nat]
  BY DEF TypeOK, Repeated

LEMMA ThrowTypes ==
    ASSUME TypeOK, Throw
    PROVE  /\ outdated' = {} /\ replaced' = {} /\ done' = {} /\ pc' \in {"idle", "record"}
           /\ missed' \subseteq Jobs \X Workloads /\ unrecorded' \in [Jobs -> Nat]
           /\ UNCHANGED <<due, job, expected, restarts>>
  <1>1. missed' \subseteq Jobs \X Workloads
    BY DEF TypeOK, Throw, Jobs
  <1>2. unrecorded' \in [Jobs -> Nat]
    BY RepeatedTypes DEF TypeOK, Throw
  <1> QED
    BY <1>1, <1>2 DEF Throw, EndJob, Forget

LEMMA TypeNext == TypeOK /\ [Next]_vars => TypeOK'
  <1> SUFFICES ASSUME TypeOK, [Next]_vars PROVE TypeOK'
    OBVIOUS
  <1> USE PodFacts
  <1> USE DEF TypeOK, Jobs, Fault, NoFault
  <1>1. CASE KeycloakUp
    BY <1>1 DEF KeycloakUp, cluster, pods, locals, history
  <1>2. CASE OauthHealthy
    BY <1>2 DEF OauthHealthy, cluster, pods, locals, history
  <1>3. CASE SyncIstiod
    BY <1>3 DEF SyncIstiod, cluster, pods, locals, history
  <1>4. CASE RollIstiod
    BY <1>4 DEF RollIstiod, cluster, pods, locals, history
  <1>5. CASE EndApply
    BY <1>5 DEF EndApply, cluster, pods, locals, history, StartJob, EndJob, Throw, Forget
  <1>6. CASE WaitForIstiod
    <2>1. CASE Throw
      BY <1>6, <2>1, ThrowTypes DEF WaitForIstiod, cluster, pods
    <2>2. CASE ~Throw
      <3>1. missed' \subseteq Jobs \X Workloads /\ faults' \in Nat
        BY <1>6, <2>2 DEF WaitForIstiod
      <3> QED
        BY <1>6, <2>2, <3>1 DEF WaitForIstiod, cluster, pods
    <2> QED
      BY <2>1, <2>2
  <1>7. CASE ListPods
    <2>1. CASE Throw
      BY <1>7, <2>1, ThrowTypes DEF ListPods, cluster, pods
    <2>2. CASE ~Throw
      BY <1>7, <2>2 DEF ListPods, cluster, pods, history
    <2> QED
      BY <2>1, <2>2
  <1>8. CASE EndPods
    BY <1>8 DEF EndPods, cluster, pods, locals, history, StartJob, EndJob, Throw, Forget
  <1>9. CASE SkipRestart
    BY <1>9 DEF SkipRestart, cluster, pods, locals, history
  <1>10. CASE NeedRestart
    BY <1>10 DEF NeedRestart, cluster, pods, locals, history, StartJob, EndJob, Throw, Forget
  <1>11. CASE CheckHealth
    BY <1>11 DEF CheckHealth, cluster, pods, locals, history
  <1>12. CASE MarkRestarted
    <2>1. faults' \in Nat
      <3>1. faults' = faults \/ faults' = faults + 1
        BY <1>12 DEF MarkRestarted
      <3> QED
        BY <3>1
    <2>2. unrecorded' \in [Jobs -> Nat]
      BY <1>12, RepeatedTypes DEF MarkRestarted, history
    <2>3. marker' \in BOOLEAN
      <3>1. marker' = TRUE \/ marker' \in {marker, TRUE}
        BY <1>12 DEF MarkRestarted
      <3>2. marker \in BOOLEAN
        OBVIOUS
      <3> QED
        BY <3>1, <3>2, Zenon
    <2>4. UNCHANGED <<restarts, missed, cluster, pods>>
      BY <1>12 DEF MarkRestarted, history
    <2>5. /\ outdated' = {} /\ replaced' = {} /\ done' = {} /\ pc' \in {"idle", "record"}
          /\ UNCHANGED <<due, job, expected>>
      BY <1>12 DEF MarkRestarted, EndJob, Forget
    <2> QED
      BY <2>1, <2>2, <2>3, <2>4, <2>5 DEF cluster, pods
  <1>13. CASE Crash
    BY <1>13, RepeatedTypes DEF Crash, cluster, pods, Forget
  <1>18. CASE RecordUpgrade
    <2>1. due' \in BOOLEAN
      BY <1>18, Zenon DEF RecordUpgrade
    <2>2. unrecorded' \in [Jobs -> Nat] /\ faults' \in Nat /\ pc' \in {"idle", "marker"}
      BY <1>18, RepeatedTypes DEF RecordUpgrade
    <2> QED
      BY <1>18, <2>1, <2>2 DEF RecordUpgrade, cluster, pods, locals
  <1>14. CASE \E p \in Pending : pc = "restart" /\ RestartOwner(p)
    <2>1. PICK p \in Pending : pc = "restart" /\ RestartOwner(p)
      BY <1>14
    <2>2. p[1] \in Workloads
      BY <2>1, PodFacts DEF Pending
    <2>3. restarts' \in [Jobs -> [Workloads -> Nat]]
      BY <2>1, <2>2 DEF RestartOwner
    <2>4. rolling' \subseteq Pods /\ missed' \subseteq Jobs \X Workloads /\ faults' \in Nat
      BY <2>1, <2>2 DEF RestartOwner
    <2>5. done' \subseteq Workloads /\ pc' = "restart"
      BY <2>1, <2>2 DEF RestartOwner, Key
    <2> QED
      BY <2>1, <2>3, <2>4, <2>5 DEF RestartOwner, cluster
  <1>15. CASE \E p \in Pending : pc = "restart" /\ DeletePod(p)
    <2>1. PICK p \in Pending : pc = "restart" /\ DeletePod(p)
      BY <1>15
    <2>2. p \in Pods /\ p[1] \in Workloads
      BY <2>1, PodFacts DEF Pending
    <2>3. CASE Throw
      BY <2>1, <2>3, ThrowTypes DEF DeletePod, cluster
    <2>4. CASE ~Throw
      BY <2>1, <2>2, <2>4 DEF DeletePod, cluster, history, Key
    <2> QED
      BY <2>3, <2>4
  <1>16. CASE \E p \in Pods : Replace(p)
    <2>1. PICK p \in Pods : Replace(p)
      BY <1>16
    <2>2. /\ keys' \in [Pods -> BOOLEAN] /\ proxy' \in [Pods -> 1..2]
          /\ rolling' \subseteq Pods /\ faults' \in Nat
      BY <2>1 DEF Replace
    <2>3. replaced' \subseteq Pods /\ (pc \notin {"restart", "mark"} => replaced' = {})
      BY <2>1 DEF Replace
    <2> QED
      BY <2>1, <2>2, <2>3 DEF Replace, cluster, history
  <1>17. CASE UNCHANGED vars
    BY <1>17 DEF vars, cluster, pods, locals, history
  <1> QED
    BY <1>1, <1>2, <1>3, <1>4, <1>5, <1>6, <1>7, <1>8, <1>9, <1>10,
       <1>11, <1>12, <1>13, <1>14, <1>15, <1>16, <1>17, <1>18
       DEF Next, Step, Settle, RestartPod

LEMMA JobNext == TypeOK /\ JobInv /\ [Next]_vars => JobInv'
  <1> SUFFICES ASSUME TypeOK, JobInv, [Next]_vars PROVE JobInv'
    OBVIOUS
  <1> USE PodFacts
  <1> USE DEF JobInv, TypeOK, Jobs
  <1>1. CASE KeycloakUp
    BY <1>1 DEF KeycloakUp, cluster, pods, locals, history
  <1>2. CASE OauthHealthy
    BY <1>2 DEF OauthHealthy, cluster, pods, locals, history
  <1>3. CASE SyncIstiod
    BY <1>3 DEF SyncIstiod, cluster, pods, locals, history
  <1>4. CASE RollIstiod
    BY <1>4 DEF RollIstiod, cluster, pods, locals, history
  <1>5. CASE EndApply
    BY <1>5 DEF EndApply, cluster, pods, locals, history, StartJob, EndJob, Throw, Forget
  <1>6. CASE WaitForIstiod
    BY <1>6 DEF WaitForIstiod, cluster, pods, locals, history, StartJob, EndJob, Throw, Forget
  <1>7. CASE ListPods
    BY <1>7 DEF ListPods, cluster, pods, locals, history, StartJob, EndJob, Throw, Forget
  <1>8. CASE EndPods
    <2>1. CASE job = "istio"
      BY <1>8, <2>1 DEF EndPods, EndJob, cluster, Forget
    <2>2. CASE job = "auth"
      <3>1. ASSUME NEW w \in Workloads \ Standalone PROVE w \in done
        <4>1. <<w, 1>> \in Pods /\ <<w, 1>>[1] = w
          OBVIOUS
        <4>2. Skips(<<w, 1>>)
          BY <1>8, <4>1 DEF EndPods, Pending
        <4> QED
          BY <2>2, <4>1, <4>2 DEF Skips, Key
      <3> QED
        BY <1>8, <2>2, <3>1 DEF EndPods, cluster, locals
    <2> QED
      BY <2>1, <2>2
  <1>9. CASE SkipRestart
    BY <1>9 DEF SkipRestart, cluster, pods, locals, history
  <1>10. CASE NeedRestart
    BY <1>10 DEF NeedRestart, HasRestarted, cluster, pods, locals, history, StartJob, EndJob, Throw, Forget
  <1>11. CASE CheckHealth
    BY <1>11 DEF CheckHealth, Healthy, cluster, pods, locals, history
  <1>12. CASE MarkRestarted
    BY <1>12 DEF MarkRestarted, cluster, pods, locals, history, StartJob, EndJob, Throw, Forget
  <1>13. CASE Crash
    BY <1>13 DEF Crash, cluster, pods, locals, history, StartJob, EndJob, Throw, Forget
  <1>18. CASE RecordUpgrade
    BY <1>18 DEF RecordUpgrade, cluster, pods, locals
  <1>14. CASE \E p \in Pending : pc = "restart" /\ RestartOwner(p)
    <2>1. PICK p \in Pending : pc = "restart" /\ RestartOwner(p)
      BY <1>14
    <2> QED
      BY <2>1 DEF RestartOwner, cluster, pods, locals, history, StartJob, EndJob, Throw, Forget, Pending, Key, Skips
  <1>15. CASE \E p \in Pending : pc = "restart" /\ DeletePod(p)
    <2>1. PICK p \in Pending : pc = "restart" /\ DeletePod(p)
      BY <1>15
    <2> QED
      BY <2>1 DEF DeletePod, cluster, pods, locals, history, StartJob, EndJob, Throw, Forget, Pending, Key, Skips
  <1>16. CASE \E p \in Pods : Replace(p)
    <2>1. PICK p \in Pods : Replace(p)
      BY <1>16
    <2> QED
      BY <2>1 DEF Replace, cluster, pods, locals, history, StartJob, EndJob, Throw, Forget, Pending, Key, Skips
  <1>17. CASE UNCHANGED vars
    BY <1>17 DEF vars, cluster, pods, locals, history
  <1> QED
    BY <1>1, <1>2, <1>3, <1>4, <1>5, <1>6, <1>7, <1>8, <1>9, <1>10,
       <1>11, <1>12, <1>13, <1>14, <1>15, <1>16, <1>17, <1>18
       DEF Next, Step, Settle, RestartPod

LEMMA CountNext == TypeOK /\ JobInv /\ CountInv /\ [Next]_vars => CountInv'
  <1> SUFFICES ASSUME TypeOK, JobInv, CountInv, [Next]_vars PROVE CountInv'
    OBVIOUS
  <1> USE PodFacts
  <1> USE DEF CountInv, TypeOK, Jobs
  <1>1. CASE KeycloakUp
    BY <1>1 DEF KeycloakUp, cluster, pods, locals, history
  <1>2. CASE OauthHealthy
    BY <1>2 DEF OauthHealthy, cluster, pods, locals, history
  <1>3. CASE SyncIstiod
    BY <1>3 DEF SyncIstiod, cluster, pods, locals, history
  <1>4. CASE RollIstiod
    BY <1>4 DEF RollIstiod, cluster, pods, locals, history
  <1>5. CASE EndApply
    BY <1>5 DEF EndApply, JobInv, cluster, pods, locals, history, StartJob, EndJob, Throw, Repeated, Forget
  <1>6. CASE WaitForIstiod
    <2>1. CASE Throw
      BY <1>6, <2>1 DEF WaitForIstiod, Throw, Repeated, EndJob, Forget, JobInv
    <2>2. CASE ~Throw
      BY <1>6, <2>2 DEF WaitForIstiod, JobInv
    <2> QED
      BY <2>1, <2>2
  <1>7. CASE ListPods
    BY <1>7 DEF ListPods, JobInv, cluster, pods, locals, history, StartJob, EndJob, Throw, Repeated, Forget
  <1>8. CASE EndPods
    BY <1>8 DEF EndPods, JobInv, cluster, pods, locals, history, StartJob, EndJob, Throw, Repeated, Forget
  <1>9. CASE SkipRestart
    BY <1>9 DEF SkipRestart, cluster, pods, locals, history
  <1>10. CASE NeedRestart
    BY <1>10 DEF NeedRestart, JobInv, cluster, pods, locals, history, StartJob, EndJob, Throw, Repeated, Forget
  <1>11. CASE CheckHealth
    BY <1>11 DEF CheckHealth, cluster, pods, locals, history
  <1>12. CASE MarkRestarted
    <2>1. /\ job = "auth" /\ pc = "mark" /\ pc' = "idle" /\ due' = due
          /\ restarts' = restarts
      BY <1>12 DEF MarkRestarted, EndJob, JobInv, history
    <2>2. \/ marker' = TRUE /\ unrecorded' = unrecorded
          \/ unrecorded' = [unrecorded EXCEPT !["auth"] = @ + 1]
      BY <1>12, <2>1 DEF MarkRestarted, Repeated, history
    <2>3. marker' = marker \/ marker' = TRUE
      BY <1>12 DEF MarkRestarted
    <2> QED
      BY <2>1, <2>2, <2>3
  <1>13. CASE Crash
    BY <1>13 DEF Crash, Repeated, JobInv, cluster, pods, Forget
  <1>18. CASE RecordUpgrade
    <2>1. /\ job = "istio" /\ pc = "record" /\ due /\ UNCHANGED <<marker, restarts, done, job>>
      BY <1>18 DEF RecordUpgrade, JobInv, locals
    <2>2. \/ ~due' /\ pc' = "marker" /\ unrecorded' = unrecorded
          \/ /\ pc' \in {"idle", "marker"}
             /\ unrecorded' = [unrecorded EXCEPT !["istio"] = @ + 1]
      BY <1>18, <2>1 DEF RecordUpgrade, Repeated
    <2> QED
      BY <2>1, <2>2
  <1>14. CASE \E p \in Pending : pc = "restart" /\ RestartOwner(p)
    <2>1. PICK p \in Pending : pc = "restart" /\ RestartOwner(p)
      BY <1>14
    <2>2. p[1] \in Workloads /\ p[1] \notin done /\ done' = done \cup {p[1]}
      BY <2>1, PodFacts DEF Pending, Skips, Key, RestartOwner
    <2>3. UNCHANGED <<due, marker, pc, job, unrecorded>>
      BY <2>1 DEF RestartOwner
    <2>4. CASE UNCHANGED restarts
      BY <2>1, <2>2, <2>3, <2>4
    <2>5. CASE restarts' = [restarts EXCEPT ![job][p[1]] = @ + 1]
      <3>1. restarts[job][p[1]] <= unrecorded[job]
        BY <2>1, <2>2 DEF JobInv
      <3>2. \A j \in Jobs, w \in Workloads :
              restarts'[j][w] = IF j = job /\ w = p[1] THEN restarts[j][w] + 1 ELSE restarts[j][w]
        BY <2>2, <2>5
      <3> QED
        BY <2>1, <2>2, <2>3, <3>1, <3>2
    <2> QED
      BY <2>1, <2>4, <2>5 DEF RestartOwner
  <1>15. CASE \E p \in Pending : pc = "restart" /\ DeletePod(p)
    <2>1. PICK p \in Pending : pc = "restart" /\ DeletePod(p)
      BY <1>15
    <2> QED
      BY <2>1 DEF DeletePod, JobInv, cluster, pods, locals, history, StartJob, EndJob, Throw, Repeated, Forget, Pending, Key, Skips
  <1>16. CASE \E p \in Pods : Replace(p)
    <2>1. PICK p \in Pods : Replace(p)
      BY <1>16
    <2> QED
      BY <2>1 DEF Replace, cluster, pods, locals, history, StartJob, EndJob, Throw, Repeated, Forget, Pending, Key, Skips
  <1>17. CASE UNCHANGED vars
    BY <1>17 DEF vars, cluster, pods, locals, history
  <1> QED
    BY <1>1, <1>2, <1>3, <1>4, <1>5, <1>6, <1>7, <1>8, <1>9, <1>10,
       <1>11, <1>12, <1>13, <1>14, <1>15, <1>16, <1>17, <1>18
       DEF Next, Step, Settle, RestartPod

LEMMA RestartsTyped == Spec => [](TypeOK /\ JobInv)
  <1>1. Init => JobInv
    BY DEF Init, JobInv
  <1> QED
    BY <1>1, TypeInit, TypeNext, JobNext, PTL DEF Spec

\* The types hold in every reachable state, and the sets of a job are forgotten with it.
THEOREM RestartsTypes == Spec => []TypeOK
  BY RestartsTyped, PTL

\* A job patches a workload once, and once more for every attempt whose end was not
\* recorded, whether the job broke off, a later step of the apply failed or the record was
\* lost: for any number of workloads and pods and all faults.
THEOREM RestartedOnce == Spec => []OncePerJob
  <1>1. Init => CountInv
    BY DEF Init, CountInv, Jobs
  <1>2. CountInv => OncePerJob
    BY DEF CountInv, OncePerJob, Jobs
  <1> QED
    BY <1>1, <1>2, CountNext, RestartsTyped, PTL DEF Spec

-----------------------------------------------------------------------------
(* What restarts achieve.                                                  *)

\* A pod has the keys or is about to get them.
Fresh(p) == keys[p] \/ p \in rolling

\* A workload the job has restarted gets the keys, and keeps them after the marker.
KeysInv ==
    \A w \in Workloads \ Standalone :
        /\ marker \/ (job = "auth" /\ pc \in {"restart", "mark"} /\ w \in done)
        /\ <<"auth", w>> \notin missed
        => /\ \E i \in 1..Replicas : Fresh(<<w, i>>)
           /\ w \in Deployments => \A i \in 1..Replicas : Fresh(<<w, i>>)

\* The wait for istiod was not in vain, the pods not listed are current, and those of a
\* workload that was restarted are, or are about to be.
ProxyInv ==
    \A w \in Deployments :
        /\ ~due \/ (job = "istio" /\ pc \in {"list", "restart", "record"})
        /\ <<"istio", w>> \notin missed
        => /\ istiod = 2 /\ injector = 2
           /\ due /\ pc # "record" => expected = 2
           /\ due /\ pc = "restart" =>
                \A i \in 1..Replicas : <<w, i>> \in outdated \/ proxy[<<w, i>>] = 2
           /\ ~due \/ pc = "record" \/ w \in done =>
                \A i \in 1..Replicas : proxy[<<w, i>>] = 2 \/ <<w, i>> \in rolling

LEMMA KeysNext == TypeOK /\ JobInv /\ KeysInv /\ [Next]_vars => KeysInv'
  <1> SUFFICES ASSUME TypeOK, JobInv, KeysInv, [Next]_vars PROVE KeysInv'
    OBVIOUS
  <1> USE PodFacts
  <1> USE DEF KeysInv, TypeOK, Jobs
  <1>1. CASE KeycloakUp
    BY <1>1 DEF KeycloakUp, Fresh, JobInv, cluster, pods, locals, history
  <1>2. CASE OauthHealthy
    BY <1>2 DEF OauthHealthy, Fresh, JobInv, cluster, pods, locals, history
  <1>3. CASE SyncIstiod
    BY <1>3 DEF SyncIstiod, Fresh, JobInv, cluster, pods, locals, history
  <1>4. CASE RollIstiod
    BY <1>4 DEF RollIstiod, Fresh, JobInv, cluster, pods, locals, history
  <1>5. CASE EndApply
    BY <1>5 DEF EndApply, Fresh, JobInv, cluster, pods, locals, history, StartJob, EndJob, Throw, Forget
  <1>6. CASE WaitForIstiod
    BY <1>6 DEF WaitForIstiod, Fresh, JobInv, cluster, pods, locals, history, StartJob, EndJob, Throw, Forget
  <1>7. CASE ListPods
    BY <1>7 DEF ListPods, Fresh, JobInv, cluster, pods, locals, history, StartJob, EndJob, Throw, Forget
  <1>8. CASE EndPods
    BY <1>8 DEF EndPods, Fresh, JobInv, cluster, pods, locals, history, StartJob, EndJob, Throw, Forget
  <1>9. CASE SkipRestart
    BY <1>9 DEF SkipRestart, Fresh, JobInv, cluster, pods, locals, history
  <1>10. CASE NeedRestart
    BY <1>10 DEF NeedRestart, Fresh, JobInv, HasRestarted, cluster, pods, locals, history, StartJob, EndJob, Throw, Forget
  <1>11. CASE CheckHealth
    BY <1>11 DEF CheckHealth, Fresh, JobInv, cluster, pods, locals, history
  <1>12. CASE MarkRestarted
    BY <1>12 DEF MarkRestarted, Fresh, JobInv, cluster, pods, locals, history, StartJob, EndJob, Throw, Forget
  <1>18. CASE RecordUpgrade
    BY <1>18 DEF RecordUpgrade, Fresh, JobInv, cluster, pods, locals
  <1>13. CASE Crash
    BY <1>13 DEF Crash, Fresh, JobInv, cluster, pods, locals, history, StartJob, EndJob, Throw, Forget
  <1>14. CASE \E p \in Pending : pc = "restart" /\ RestartOwner(p)
    <2>1. PICK p \in Pending : pc = "restart" /\ RestartOwner(p)
      BY <1>14
    <2>2. /\ done' = done \cup {p[1]} /\ UNCHANGED <<marker, job, pc, keys>>
          /\ rolling \subseteq rolling' /\ missed \subseteq missed'
      BY <2>1 DEF RestartOwner, Key
    <2>3. \A q \in Pods : Fresh(q) => Fresh(q)'
      BY <2>2 DEF Fresh
    <2>4. ASSUME job = "auth", <<"auth", p[1]>> \notin missed', NEW i \in 1..Replicas
          PROVE  p[1] \in Workloads \ Standalone => Fresh(<<p[1], i>>)'
      BY <2>1, <2>4 DEF RestartOwner, Fresh
    <2>5. ~marker \/ job # "auth"
      BY <2>1 DEF JobInv
    <2>6. ASSUME NEW w \in Workloads \ Standalone, <<"auth", w>> \notin missed',
                 (marker \/ (job = "auth" /\ pc \in {"restart", "mark"} /\ w \in done))'
          PROVE  /\ \E i \in 1..Replicas : Fresh(<<w, i>>)'
                 /\ w \in Deployments => \A i \in 1..Replicas : Fresh(<<w, i>>)'
      <3>1. CASE w = p[1] /\ job = "auth"
        BY <2>4, <2>6, <3>1
      <3>2. CASE marker \/ w \in done
        BY <2>2, <2>3, <2>5, <2>6, <3>2
      <3> QED
        BY <2>2, <2>6, <3>1, <3>2
    <2> QED
      BY <2>6
  <1>15. CASE \E p \in Pending : pc = "restart" /\ DeletePod(p)
    <2>1. PICK p \in Pending : pc = "restart" /\ DeletePod(p)
      BY <1>15
    <2>2. rolling \subseteq rolling' /\ missed \subseteq missed' /\ UNCHANGED <<marker, keys>>
      BY <2>1 DEF DeletePod, Throw, history
    <2>3. \A q \in Pods : Fresh(q) => Fresh(q)'
      BY <2>2 DEF Fresh
    <2>4. CASE Throw
      BY <2>1, <2>2, <2>3, <2>4 DEF Throw, EndJob, Forget
    <2>5. CASE ~Throw
      <3>1. /\ done' = done \cup {p[1]} /\ rolling' = rolling \cup {p}
            /\ UNCHANGED <<job, pc>> /\ p[1] \in Tekton
        BY <2>1, <2>5 DEF DeletePod, Key
      <3>2. PICK i \in 1..Replicas : p = <<p[1], i>>
        BY <2>1, <3>1, RestartsAssumption DEF Pending, Pods
      <3>3. Fresh(<<p[1], i>>)' /\ p[1] \notin Deployments
        BY <3>1, <3>2, RestartsAssumption DEF Fresh
      <3> QED
        BY <2>1, <2>2, <2>3, <3>1, <3>3
    <2> QED
      BY <2>4, <2>5
  <1>16. CASE \E p \in Pods : Replace(p)
    <2>1. PICK p \in Pods : Replace(p)
      BY <1>16
    <2>2. UNCHANGED <<marker, job, pc, done, missed, keycloak>>
      BY <2>1 DEF Replace, cluster, history
    <2>3. ASSUME keycloak, NEW q \in Pods, Fresh(q) PROVE Fresh(q)'
      BY <2>1, <2>3 DEF Replace, Fresh
    <2>4. marker \/ (job = "auth" /\ pc \in {"restart", "mark"}) => keycloak
      BY DEF JobInv
    <2> QED
      BY <2>2, <2>3, <2>4
  <1>17. CASE UNCHANGED vars
    BY <1>17 DEF vars, Fresh, JobInv, cluster, pods, locals, history
  <1> QED
    BY <1>1, <1>2, <1>3, <1>4, <1>5, <1>6, <1>7, <1>8, <1>9, <1>10,
       <1>11, <1>12, <1>13, <1>14, <1>15, <1>16, <1>17, <1>18
       DEF Next, Step, Settle, RestartPod

LEMMA ProxyNext == TypeOK /\ JobInv /\ ProxyInv /\ [Next]_vars => ProxyInv'
  <1> SUFFICES ASSUME TypeOK, JobInv, ProxyInv, [Next]_vars PROVE ProxyInv'
    OBVIOUS
  <1> USE PodFacts
  <1> USE DEF ProxyInv, TypeOK, Jobs
  <1>1. CASE KeycloakUp
    BY <1>1 DEF KeycloakUp, JobInv, cluster, pods, locals, history
  <1>2. CASE OauthHealthy
    BY <1>2 DEF OauthHealthy, JobInv, cluster, pods, locals, history
  <1>3. CASE SyncIstiod
    BY <1>3 DEF SyncIstiod, JobInv, cluster, pods, locals, history
  <1>4. CASE RollIstiod
    BY <1>4 DEF RollIstiod, JobInv, cluster, pods, locals, history
  <1>5. CASE EndApply
    BY <1>5 DEF EndApply, JobInv, cluster, pods, locals, history, StartJob, EndJob, Throw, Forget
  <1>6. CASE WaitForIstiod
    <2>1. CASE Throw
      <3>1. job = "istio" /\ UNCHANGED <<istiod, injector, proxy, rolling>>
        BY <1>6 DEF WaitForIstiod, JobInv, cluster, pods
      <3>2. {"istio"} \X Workloads \subseteq missed'
        BY <2>1, <3>1 DEF Throw
      <3> QED
        BY <3>2
    <2>2. CASE ~Throw
      <3>1. \/ IstiodReady /\ UNCHANGED missed
            \/ {"istio"} \X Workloads \subseteq missed'
        BY <1>6, <2>2 DEF WaitForIstiod
      <3>2. /\ pc' = "list" /\ expected' = istiod
            /\ UNCHANGED <<due, job, istiod, injector, proxy, rolling, done>>
            /\ pc = "wait" /\ job = "istio" /\ due
        BY <1>6, <2>2 DEF WaitForIstiod, JobInv, cluster, pods
      <3> QED
        BY <3>1, <3>2 DEF IstiodReady
    <2> QED
      BY <2>1, <2>2
  <1>7. CASE ListPods
    <2>1. CASE Throw
      BY <1>7, <2>1 DEF ListPods, Throw, EndJob, cluster, pods, JobInv
    <2>2. CASE ~Throw
      BY <1>7, <2>2 DEF ListPods, cluster, pods, history, JobInv
    <2> QED
      BY <2>1, <2>2
  <1>8. CASE EndPods
    <2>1. CASE job = "istio"
      <3>1. due /\ pc = "restart" /\ UNCHANGED <<istiod, injector, proxy, rolling, missed>>
        BY <1>8, <2>1 DEF EndPods, JobInv, cluster, pods, history
      <3>2. pc' = "record" /\ due' = due
        BY <1>8, <2>1 DEF EndPods, EndJob
      <3>3. ASSUME NEW w \in Deployments, NEW i \in 1..Replicas, w \notin done
            PROVE  <<w, i>> \notin outdated
        BY <1>8, <2>1, <3>3 DEF EndPods, Pending, Skips, Key
      <3> QED
        BY <2>1, <3>1, <3>2, <3>3
    <2>2. CASE job = "auth"
      BY <1>8, <2>2 DEF EndPods, cluster, pods, history, locals, JobInv
    <2> QED
      BY <2>1, <2>2
  <1>9. CASE SkipRestart
    BY <1>9 DEF SkipRestart, JobInv, cluster, pods, locals, history
  <1>10. CASE NeedRestart
    BY <1>10 DEF NeedRestart, JobInv, cluster, pods, locals, history, StartJob, EndJob, Throw, Forget
  <1>11. CASE CheckHealth
    BY <1>11 DEF CheckHealth, JobInv, cluster, pods, locals, history
  <1>12. CASE MarkRestarted
    BY <1>12 DEF MarkRestarted, JobInv, cluster, pods, locals, history, StartJob, EndJob, Throw, Forget
  <1>18. CASE RecordUpgrade
    BY <1>18 DEF RecordUpgrade, JobInv, cluster, pods, locals
  <1>13. CASE Crash
    BY <1>13 DEF Crash, JobInv, cluster, pods, locals, history, StartJob, EndJob, Throw, Forget
  <1>14. CASE \E p \in Pending : pc = "restart" /\ RestartOwner(p)
    <2>1. PICK p \in Pending : pc = "restart" /\ RestartOwner(p)
      BY <1>14
    <2>2. /\ done' = done \cup {p[1]} /\ rolling \subseteq rolling' /\ missed \subseteq missed'
          /\ UNCHANGED <<due, job, pc, istiod, injector, expected, outdated, proxy>>
      BY <2>1 DEF RestartOwner, Key, cluster
    <2>3. ASSUME NEW w \in Deployments, w = p[1], job = "istio", <<"istio", w>> \notin missed',
                 NEW i \in 1..Replicas
          PROVE  <<w, i>> \in rolling'
      BY <2>1, <2>3 DEF RestartOwner
    <2>4. ~due => job # "istio"
      BY <2>1 DEF JobInv
    <2> QED
      BY <2>1, <2>2, <2>3, <2>4
  <1>15. CASE \E p \in Pending : pc = "restart" /\ DeletePod(p)
    <2>1. PICK p \in Pending : pc = "restart" /\ DeletePod(p)
      BY <1>15
    <2>2. /\ rolling \subseteq rolling' /\ missed \subseteq missed'
          /\ UNCHANGED <<istiod, injector, expected, proxy, job>>
      BY <2>1 DEF DeletePod, Throw, EndJob, history, cluster
    <2>3. CASE Throw
      <3>1. CASE job = "istio"
        BY <2>3, <3>1, PodFacts DEF Throw
      <3>2. CASE job = "auth"
        BY <2>1, <2>2, <2>3, <3>2 DEF Throw, EndJob
      <3> QED
        BY <3>1, <3>2
    <2>4. CASE ~Throw
      <3>1. done' = done \cup {p[1]} /\ p[1] \notin Deployments /\ UNCHANGED <<due, pc, outdated>>
        BY <2>1, <2>4, RestartsAssumption DEF DeletePod, Key
      <3> QED
        BY <2>1, <2>2, <3>1
    <2> QED
      BY <2>3, <2>4
  <1>16. CASE \E p \in Pods : Replace(p)
    <2>1. PICK p \in Pods : Replace(p)
      BY <1>16
    <2>2. UNCHANGED <<due, job, pc, done, missed, istiod, injector, expected, outdated>>
      BY <2>1 DEF Replace, cluster, history
    <2>3. ASSUME injector = 2, NEW q \in Pods
          PROVE  /\ proxy[q] = 2 => proxy'[q] = 2
                 /\ proxy[q] = 2 \/ q \in rolling => proxy'[q] = 2 \/ q \in rolling'
      BY <2>1, <2>3 DEF Replace
    <2> QED
      BY <2>2, <2>3
  <1>17. CASE UNCHANGED vars
    BY <1>17 DEF vars, JobInv, cluster, pods, locals, history
  <1> QED
    BY <1>1, <1>2, <1>3, <1>4, <1>5, <1>6, <1>7, <1>8, <1>9, <1>10,
       <1>11, <1>12, <1>13, <1>14, <1>15, <1>16, <1>17, <1>18
       DEF Next, Step, Settle, RestartPod

\* The only restart behind platform authentication is not used up in vain: with the marker
\* there and pods replaced, workloads have the keys, for any number of workloads and pods.
THEOREM MarkerIsTrue == Spec => []MarkedHaveKeys
  <1>1. Init => KeysInv
    BY DEF Init, KeysInv
  <1>2. KeysInv => MarkedHaveKeys
    BY DEF KeysInv, MarkedHaveKeys, Fresh
  <1> QED
    BY <1>1, <1>2, KeysNext, RestartsTyped, PTL DEF Spec

\* A recorded upgrade of Istio means current proxies wherever no failure was passed over,
\* for any number of workloads and pods and all faults.
THEOREM UpgradeIsTrue == Spec => []ProxiesCurrent
  <1>1. Init => ProxyInv
    BY PodFacts DEF Init, ProxyInv
  <1>2. ProxyInv => ProxiesCurrent
    BY DEF ProxyInv, ProxiesCurrent
  <1> QED
    BY <1>1, <1>2, ProxyNext, RestartsTyped, PTL DEF Spec

=============================================================================
