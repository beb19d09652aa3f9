-------------------------- MODULE WorkloadRestarts --------------------------
(***************************************************************************)
(* The two jobs that restart workloads because of their sidecars.  One,    *)
(* after an upgrade of Istio, restarts what runs an outdated proxy         *)
(* (restart-istio-sidecars.ts).  The other restarts, once, what is behind  *)
(* platform authentication, when Keycloak can be asked for its keys        *)
(* (restart-platform-auth-pods.ts); it is run after an apply until a       *)
(* marker says that it was done (apl-operator.ts).                         *)
(*                                                                         *)
(* A pod gets the proxy of the running istiod, and the keys if Keycloak is *)
(* up, when it is created.  The version of Istio is 1 before the upgrade   *)
(* and 2 after it.                                                         *)
(*                                                                         *)
(* A definition named Broken... is a plausible mistake in the definition   *)
(* that follows it; no action uses it.                                     *)
(***************************************************************************)
EXTENDS Naturals

CONSTANTS
    Deployments, \* workloads restarted by a patch: Deployment, StatefulSet, Cluster
    Tekton,      \* workloads whose pods are deleted instead
    Standalone,  \* pods nothing owns
    Replicas,    \* pods of any other workload
    Faults,      \* the kinds of fault that may happen
    MaxFaults    \* bound: faults of a behaviour

FaultKinds == {"read", "patch", "delete", "mark", "crash", "wait", "stale", "replace",
               "apply", "record"}

ASSUME RestartsAssumption ==
    /\ Deployments \cap Tekton = {} /\ Deployments \cap Standalone = {}
    /\ Tekton \cap Standalone = {}
    /\ Replicas \in Nat \ {0}
    /\ Faults \subseteq FaultKinds
    /\ MaxFaults \in Nat

Workloads == Deployments \cup Tekton \cup Standalone
Pods == ((Deployments \cup Tekton) \X (1..Replicas)) \cup (Standalone \X {1})
Jobs == {"istio", "auth"}

VARIABLES
    keycloak,    \* Keycloak serves its keys
    oauth,       \* the Application of oauth2-proxy is Healthy
    istiod,      \* the version the Deployment of istiod asks for
    injector,    \* the version of the istiod that runs
    keys,        \* whether the proxy of a pod has the keys
    proxy,       \* the version of the proxy of a pod
    rolling,     \* pods about to be replaced
    marker,      \* the ConfigMap of the restart
    due,         \* the upgrade of Istio is not recorded
    pc, job,
    expected,    \* the version the job compares with
    outdated,    \* pods listed with another version
    replaced,    \* pods of Tekton replaced since they were listed
    done,        \* keys of the workloads the job has restarted
    restarts,    \* patches of a workload by a job; read by properties only
    missed,      \* restarts that did not happen; read by properties only
    unrecorded,  \* attempts of a job that may have restarted something and
                 \* whose end was not recorded; the same
    faults

cluster == <<keycloak, oauth, istiod, injector>>
pods == <<keys, proxy, rolling>>
locals == <<job, expected, outdated, replaced, done>>
history == <<restarts, missed, unrecorded>>
vars == <<cluster, pods, marker, due, pc, locals, history, faults>>

TypeOK ==
    /\ keycloak \in BOOLEAN /\ oauth \in BOOLEAN
    /\ istiod \in 1..2 /\ injector \in 1..2
    /\ keys \in [Pods -> BOOLEAN] /\ proxy \in [Pods -> 1..2]
    /\ rolling \subseteq Pods
    /\ marker \in BOOLEAN /\ due \in BOOLEAN
    /\ pc \in {"idle", "wait", "list", "restart", "record", "marker", "health", "mark"}
    /\ job \in Jobs
    /\ expected \in 1..2
    /\ outdated \subseteq Pods /\ replaced \subseteq Pods /\ done \subseteq Workloads
    /\ pc \notin {"restart", "mark"} => outdated = {} /\ replaced = {} /\ done = {}
    /\ restarts \in [Jobs -> [Workloads -> Nat]]
    /\ missed \subseteq Jobs \X Workloads
    /\ unrecorded \in [Jobs -> Nat] /\ faults \in Nat

\* A new platform, whose pods come up with Keycloak, or one to be upgraded that has
\* not had this restart yet.
Init ==
    /\ due \in BOOLEAN
    /\ keycloak = due /\ oauth = due
    /\ istiod = (IF due THEN 1 ELSE 2) /\ injector = istiod
    /\ keys = [p \in Pods |-> FALSE] /\ proxy = [p \in Pods |-> istiod]
    /\ rolling = {}
    /\ marker = FALSE
    /\ pc = "idle" /\ job = "auth" /\ expected = 1
    /\ outdated = {} /\ replaced = {} /\ done = {}
    /\ restarts = [j \in Jobs |-> [w \in Workloads |-> 0]]
    /\ missed = {} /\ unrecorded = [j \in Jobs |-> 0]
    /\ faults = 0

Fault(kind) == kind \in Faults /\ faults < MaxFaults /\ faults' = faults + 1

NoFault == faults' = faults

-----------------------------------------------------------------------------
(* The cluster.                                                            *)

KeycloakUp ==
    /\ ~keycloak /\ keycloak' = TRUE
    /\ NoFault
    /\ UNCHANGED <<oauth, istiod, injector, pods, marker, due, pc, locals, history>>

\* oauth2-proxy does not start before Keycloak answers.
OauthHealthy ==
    /\ keycloak /\ ~oauth /\ oauth' = TRUE
    /\ NoFault
    /\ UNCHANGED <<keycloak, istiod, injector, pods, marker, due, pc, locals, history>>

\* Argo CD deploys the istiod that an apply has asked for, this one or one that failed.
SyncIstiod ==
    /\ istiod = 1 /\ istiod' = 2
    /\ NoFault
    /\ UNCHANGED <<keycloak, oauth, injector, pods, marker, due, pc, locals, history>>

RollIstiod ==
    /\ injector # istiod /\ injector' = istiod
    /\ NoFault
    /\ UNCHANGED <<keycloak, oauth, istiod, pods, marker, due, pc, locals, history>>

\* A pod is replaced because of a restart, or for a reason of its own if it has an owner.
Replace(p) ==
    /\ \/ p \in rolling /\ NoFault
       \/ p \notin rolling /\ p[1] \notin Standalone /\ Fault("replace")
    /\ rolling' = rolling \ {p}
    /\ keys' = [keys EXCEPT ![p] = keycloak]
    /\ proxy' = [proxy EXCEPT ![p] = injector]
    /\ replaced' = IF pc = "restart" /\ p[1] \in Tekton THEN replaced \cup {p}
                                                       ELSE replaced
    /\ UNCHANGED <<cluster, marker, due, pc, job, expected, outdated, done, history>>

-----------------------------------------------------------------------------
(* The end of an apply: operations after an upgrade, then the restart      *)
(* behind platform authentication.                                         *)

Forget == outdated' = {} /\ replaced' = {} /\ done' = {}

\* The pods are dealt with; a failure is logged.  The upgrade of Istio has still to be
\* recorded by the apply the job belongs to.
EndJob ==
    /\ Forget
    /\ pc' = IF job = "istio" THEN "record" ELSE "idle"
    /\ UNCHANGED <<due, job, expected>>

\* What the job may have done will be done again.
Repeated ==
    unrecorded' = IF pc \in {"restart", "record", "mark"}
                  THEN [unrecorded EXCEPT ![job] = @ + 1] ELSE unrecorded

\* An error ends the job.  That of an upgrade counts as done all the same.
Throw ==
    /\ EndJob
    /\ IF job = "istio" THEN missed' = missed \cup ({"istio"} \X Workloads) /\ UNCHANGED unrecorded
                        ELSE Repeated /\ UNCHANGED missed
    /\ UNCHANGED restarts

StartJob(name) ==
    /\ job' = name
    /\ missed' = missed \ ({name} \X Workloads)
    /\ UNCHANGED <<expected, outdated, replaced, done, restarts, unrecorded>>

\* An apply gets to its operations after an upgrade; one of teams only has none.
EndApply ==
    /\ pc = "idle"
    /\ \/ due /\ pc' = "wait" /\ StartJob("istio")
       \/ pc' = "marker" /\ UNCHANGED <<locals, history>>
    /\ NoFault
    /\ UNCHANGED <<cluster, pods, marker, due>>

\* applyAll commits, applies the GitOps Applications and only then records the upgrade.
\* If one of the first two fails, the apply is tried again, operations and all; if the
\* last fails, nobody notices, and the next apply finds the upgrade not recorded.
RecordUpgrade ==
    /\ pc = "record"
    /\ \/ due' = FALSE /\ pc' = "marker" /\ NoFault /\ UNCHANGED unrecorded
       \/ UNCHANGED due /\ pc' = "idle" /\ Fault("apply") /\ Repeated
       \/ UNCHANGED due /\ pc' = "marker" /\ Fault("record") /\ Repeated
    /\ UNCHANGED <<cluster, pods, marker, locals, restarts, missed>>

BrokenIstiodReady == istiod = 2

\* The Application of istiod is Synced and Healthy.
IstiodReady == istiod = 2 /\ injector = 2

\* waitForArgoCDAppSync and ...Healthy, then getIstioVersionFromDeployment.  Argo CD may
\* not have looked at the changed Application yet, so that its status is an old one; the
\* wait may also end without success, or the version not be found.
WaitForIstiod ==
    /\ pc = "wait"
    /\ \/ /\ \/ IstiodReady /\ NoFault /\ UNCHANGED missed
             \/ /\ Fault("stale")
                /\ missed' = missed \cup ({"istio"} \X Workloads)
          /\ expected' = istiod
          /\ pc' = "list"
          /\ UNCHANGED <<due, job, outdated, replaced, done, restarts, unrecorded>>
       \/ Fault("wait") /\ Throw
    /\ UNCHANGED <<cluster, pods, marker>>

ListPods ==
    /\ pc = "list"
    /\ \/ /\ NoFault
          /\ outdated' = {p \in Pods : proxy[p] # expected}
          /\ replaced' = {} /\ done' = {}
          /\ pc' = "restart"
          /\ UNCHANGED <<due, job, expected, history>>
       \/ Fault("read") /\ Throw
    /\ UNCHANGED <<cluster, pods, marker>>

-----------------------------------------------------------------------------
(* The pods, in the order of the list.                                     *)

\* getWorkloadKeyFromPod: namespace and name of the workload.  The kind is not in the key
\* and the hash of a ReplicaSet has to be recognized: here a Deployment, a StatefulSet and
\* a Cluster of a namespace have different names, and the key is found.
Key(p) == p[1]

BrokenSkips(p) == job = "istio" /\ p \notin outdated

\* The workload was restarted for another pod, or the proxy is not outdated.
Skips(p) ==
    \/ Key(p) \in done
    \/ job = "istio" /\ p \notin outdated

\* The pods the job has still to do something for; without an owner there is nothing it
\* can do.
Pending == {p \in Pods : p[1] \notin Standalone /\ ~Skips(p)}

\* restartDeployment, restartStatefulSet, restartCluster; a failure is logged, and the
\* workload counts as restarted.
RestartOwner(p) ==
    /\ p[1] \in Deployments
    /\ done' = done \cup {Key(p)}
    /\ \/ /\ NoFault
          /\ rolling' = rolling \cup {q \in Pods : q[1] = p[1]}
          /\ restarts' = [restarts EXCEPT ![job][p[1]] = @ + 1]
          /\ UNCHANGED missed
       \/ /\ Fault("patch")
          /\ missed' = missed \cup {<<job, p[1]>>}
          /\ UNCHANGED <<rolling, restarts>>
    /\ UNCHANGED <<cluster, keys, proxy, marker, due, pc, job, expected, outdated, replaced,
                   unrecorded>>

\* deletePod: the pod is named, so that nothing is found when it was replaced since.
DeletePod(p) ==
    /\ p[1] \in Tekton
    /\ \/ /\ p \notin replaced
          /\ NoFault
          /\ rolling' = rolling \cup {p}
          /\ done' = done \cup {Key(p)}
          /\ UNCHANGED <<due, pc, job, expected, outdated, replaced, history>>
       \/ /\ \/ p \in replaced /\ NoFault
             \/ p \notin replaced /\ Fault("delete")
          /\ Throw
          /\ UNCHANGED rolling
    /\ UNCHANGED <<cluster, keys, proxy, marker>>

EndPods ==
    /\ pc = "restart" /\ Pending = {}
    /\ IF job = "istio" THEN EndJob
                        ELSE pc' = "mark" /\ UNCHANGED <<due, locals>>
    /\ NoFault
    /\ UNCHANGED <<cluster, pods, marker, history>>

-----------------------------------------------------------------------------
(* needsPlatformAuthPodsRestart and restartPlatformAuthPods.               *)

BrokenHasRestarted == TRUE

HasRestarted == marker

\* Nothing to do, or not known.
SkipRestart ==
    /\ pc = "marker"
    /\ \/ HasRestarted /\ NoFault
       \/ Fault("read")
    /\ pc' = "idle"
    /\ UNCHANGED <<cluster, pods, marker, due, locals, history>>

NeedRestart ==
    /\ pc = "marker" /\ ~HasRestarted
    /\ pc' = "health" /\ StartJob("auth")
    /\ NoFault
    /\ UNCHANGED <<cluster, pods, marker, due>>

BrokenHealthy == TRUE

Healthy == oauth

CheckHealth ==
    /\ pc = "health"
    /\ \/ Healthy /\ pc' = "list" /\ NoFault
       \/ ~Healthy /\ pc' = "idle" /\ NoFault
       \/ pc' = "idle" /\ Fault("read")
    /\ UNCHANGED <<cluster, pods, marker, due, locals, history>>

\* The answer to a successful write may be lost; a marker that is there is no error.
MarkRestarted ==
    /\ pc = "mark"
    /\ EndJob
    /\ \/ /\ NoFault
          /\ marker' = TRUE
          /\ UNCHANGED history
       \/ /\ Fault("mark")
          /\ marker' \in {marker, TRUE}
          /\ IF marker' THEN UNCHANGED unrecorded ELSE Repeated
          /\ UNCHANGED <<restarts, missed>>
    /\ UNCHANGED <<cluster, pods>>

Crash ==
    /\ pc # "idle" /\ Fault("crash")
    /\ pc' = "idle"
    /\ Forget
    /\ Repeated
    /\ UNCHANGED <<cluster, pods, marker, due, job, expected, restarts, missed>>

RestartPod(p) == pc = "restart" /\ (RestartOwner(p) \/ DeletePod(p))

Step ==
    \/ EndApply \/ WaitForIstiod \/ ListPods \/ EndPods \/ RecordUpgrade
    \/ SkipRestart \/ NeedRestart \/ CheckHealth \/ MarkRestarted
    \/ \E p \in Pending : RestartPod(p)

Settle == KeycloakUp \/ OauthHealthy \/ SyncIstiod \/ RollIstiod

Next ==
    \/ Step \/ Crash \/ Settle
    \/ \E p \in Pods : Replace(p)

Spec == Init /\ [][Next]_vars

\* The operator applies again at least every five minutes, Keycloak and oauth2-proxy come
\* up, and Argo CD finishes what it has begun; pods need not be replaced.
FairSpec == Spec /\ WF_vars(Step) /\ WF_vars(Settle)

-----------------------------------------------------------------------------
(* Properties.                                                             *)

\* Each job patches a workload once, whatever the number of its pods, and once more only
\* for an attempt of this job that got to its pods and whose end was not recorded: it was
\* broken off, or for the upgrade of Istio a later step of the apply failed, or the record
\* was lost (the sets of restarted workloads, the marker, and the deployment state).
OncePerJob ==
    \A j \in Jobs, w \in Workloads : restarts[j][w] <= 1 + unrecorded[j]

\* With the marker written and the pods replaced, every workload that can be patched has
\* the keys in all its pods, and every one of Tekton in a pod at least, unless a failure
\* was passed over: the only restart is not used up before Keycloak serves its keys, nor
\* on some of the workloads.
MarkedHaveKeys ==
    marker /\ rolling = {} =>
        \A w \in Workloads \ Standalone : <<"auth", w>> \notin missed =>
            /\ \E i \in 1..Replicas : keys[<<w, i>>]
            /\ w \in Deployments => \A i \in 1..Replicas : keys[<<w, i>>]

\* With the upgrade recorded and the pods replaced, no workload that can be patched has
\* an outdated proxy, unless a failure was passed over
\* (detectAndRestartOutdatedIstioSidecars after the wait for istiod).
ProxiesCurrent ==
    ~due /\ rolling = {} =>
        \A w \in Deployments, i \in 1..Replicas :
            <<"istio", w>> \notin missed => proxy[<<w, i>>] = 2

\* The restart is carried out in the end: every apply tries again until the marker is
\* there.
MarkedInTheEnd == <>[]marker
=============================================================================
