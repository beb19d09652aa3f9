---------------------------- MODULE SealedSecrets ----------------------------
(***************************************************************************)
(* The secrets of an installation: bootstrap generates a CA and passwords, *)
(* seals them with the public key of a key pair kept in the Secret         *)
(* sealed-secrets-key and writes the manifests to ENV_DIR; the install     *)
(* applies them, has the controller of Sealed Secrets open them and waits; *)
(* then values and manifests are committed and the administrator is told   *)
(* a password (src/common/sealed-secrets.ts, src/cmd/bootstrap.ts,         *)
(* install.ts, commit.ts).                                                 *)
(*                                                                         *)
(* A bootstrap that is repeated draws everything anew: its number stands   *)
(* for the passwords, the CA, the key pair and the random names of users   *)
(* it generates.                                                           *)
(*                                                                         *)
(* A definition named Broken... is a plausible mistake in the definition   *)
(* that follows it; no action uses it.                                     *)
(***************************************************************************)
EXTENDS Naturals

CONSTANTS
    Users,          \* the users in the values
    Admin,          \* the platform administrator, one of them
    Faults,         \* the kinds of fault that may happen
    MaxFaults,      \* bound: faults of a behaviour
    MaxBootstraps   \* bound: bootstraps of a behaviour

\* Noticed: an error that is thrown, a container restart, a replaced pod.  The
\* others are logged and swallowed where they occur.
Noticed == {"call", "crash", "evict"}
Swallowed == {"readKey", "createKey", "apply", "restart", "list"}

ASSUME SecretsAssumption ==
    /\ Admin \in Users /\ "cert-manager-secrets" \notin Users
    /\ Faults \subseteq Noticed \cup Swallowed
    /\ MaxFaults \in Nat /\ MaxBootstraps \in Nat

VARIABLES
    run,        \* the number of the last bootstrap
    caCert,     \* the CA certificate in the values of ENV_DIR, by bootstrap
    disk,       \* the manifests in ENV_DIR
    repo,       \* ENV_DIR is a git repository
    committed,  \* the manifests and the certificate on the git server
    keySecret,  \* the key pair in sealed-secrets-key
    loaded,     \* the key pairs the controller uses; none before it is deployed
    resources,  \* the SealedSecret resources
    secrets,    \* the Secrets the controller made of them
    shown,      \* the password in the initial credentials
    pem,        \* the public key of this bootstrap
    todo,       \* the manifests still to be written or applied
    applied,    \* those an installation waits for
    pc,
    swallowed,  \* the errors nothing was told of; read by properties only
    faults

local == <<pem, todo, applied>>
envDir == <<caCert, disk, repo>>
cluster == <<keySecret, loaded, resources, secrets, shown>>
vars == <<run, envDir, committed, cluster, local, pc, swallowed, faults>>

\* 0 stands for a key or a secret that does not exist.
Runs == 1..MaxBootstraps
None == 0
Generation == 0..MaxBootstraps

\* The key the controller makes when it starts without one.
OwnKey == MaxBootstraps + 1

\* Secrets of the platform have fixed names, the group of their path in the values;
\* one of them holds the private key of the CA.
CA == <<"cert-manager-secrets", 0>>

\* A user without a name gets a random one in each bootstrap.
UserNames(r) == Users \X {r}

Names == {CA} \cup UNION {UserNames(r) : r \in Runs}

Manifest == [key : Generation, secret : Generation]
NoManifest == [key |-> None, secret |-> None]

BootstrapSteps == {"values", "key", "create", "write", "git"}
InstallSteps == {"deploy", "apply", "check", "restart", "wait", "commit", "setup"}

TypeOK ==
    /\ run \in Generation
    /\ caCert \in Generation
    /\ disk \in [Names -> Manifest]
    /\ repo \in BOOLEAN
    /\ committed \in [manifests : [Names -> Manifest], caCert : Generation]
    /\ keySecret \in Generation
    /\ loaded \subseteq Runs \cup {OwnKey}
    /\ resources \in [Names -> Manifest]
    /\ secrets \in [Names -> Generation]
    /\ shown \in Generation
    /\ pem \in Generation
    /\ todo \subseteq Names /\ applied \subseteq Names
    /\ pc \in {"bootstrap", "done"} \cup BootstrapSteps \cup InstallSteps
    /\ swallowed \subseteq Swallowed
    /\ faults \in Nat

Init ==
    /\ run = 0 /\ caCert = None
    /\ disk = [n \in Names |-> NoManifest]
    /\ repo = FALSE
    /\ committed = [manifests |-> disk, caCert |-> None]
    /\ keySecret = None /\ loaded = {}
    /\ resources = disk
    /\ secrets = [n \in Names |-> None]
    /\ shown = None
    /\ pem = None /\ todo = {} /\ applied = {}
    /\ pc = "bootstrap"
    /\ swallowed = {}
    /\ faults = 0

Fault(kind) == kind \in Faults /\ faults < MaxFaults /\ faults' = faults + 1

Swallow(kind) == Fault(kind) /\ swallowed' = swallowed \cup {kind}

NoFault == UNCHANGED <<faults, swallowed>>

Goto(label) == pc' = label

On(manifests) == {n \in Names : manifests[n] # NoManifest}

-----------------------------------------------------------------------------
(* bootstrap(), which initialize() repeats until it succeeds.              *)

Begin ==
    /\ pc = "bootstrap"
    /\ run < MaxBootstraps
    /\ run' = run + 1
    /\ Goto("values")
    /\ NoFault
    /\ UNCHANGED <<envDir, committed, cluster, local>>

\* The certificate of a new CA goes to the values; its key and the users, with
\* new passwords, to the secrets.
ProcessValues ==
    /\ pc = "values"
    /\ caCert' = run
    /\ Goto("key")
    /\ NoFault
    /\ UNCHANGED <<run, disk, repo, committed, cluster, local>>

BrokenUseKey == FALSE

\* An existing certificate is used ...
UseKey == keySecret # None

ExistingCert ==
    /\ pc = "key"
    /\ UseKey
    /\ pem' = keySecret
    /\ todo' = {CA} \cup UserNames(run)
    /\ Goto("write")
    /\ NoFault
    /\ UNCHANGED <<run, envDir, committed, cluster, applied>>

\* ... and when there is none, or any error came back, a key pair is generated.
GenerateKeyPair ==
    /\ pc = "key"
    /\ \/ ~UseKey /\ NoFault
       \/ Swallow("readKey")
    /\ pem' = run
    /\ Goto("create")
    /\ UNCHANGED <<run, envDir, committed, cluster, todo, applied>>

BrokenStoredKey == pem

\* Only created, never replaced.
StoredKey == IF keySecret = None THEN pem ELSE keySecret

\* The public key is used whether or not the pair was stored.
CreateKeySecret ==
    /\ pc = "create"
    /\ \/ keySecret' = StoredKey /\ NoFault
       \/ Swallow("createKey") /\ UNCHANGED keySecret
    /\ todo' = {CA} \cup UserNames(run)
    /\ Goto("write")
    /\ UNCHANGED <<run, envDir, committed, loaded, resources, secrets, shown, pem, applied>>

Sealed == [key |-> pem, secret |-> run]

BrokenWritten(n) == IF disk[n] = NoManifest THEN Sealed ELSE disk[n]

Written(n) == Sealed

\* File by file, those of the platform first.  Files of earlier bootstraps stay.
WriteManifest ==
    /\ pc = "write"
    /\ \E n \in todo :
         /\ CA \in todo => n = CA
         /\ disk' = [disk EXCEPT ![n] = Written(n)]
         /\ todo' = todo \ {n}
    /\ Goto(IF todo' = {} THEN "git" ELSE "write")
    /\ NoFault
    /\ UNCHANGED <<run, caCert, repo, committed, cluster, pem, applied>>

\* bootstrapGit: the files are laid over those of a branch that exists.
BootstrapGit ==
    /\ pc = "git"
    /\ disk' = IF repo THEN disk
               ELSE [n \in Names |-> IF disk[n] = NoManifest THEN committed.manifests[n]
                                     ELSE disk[n]]
    /\ repo' = TRUE
    /\ Goto("deploy")
    /\ NoFault
    /\ UNCHANGED <<run, caCert, committed, cluster, local>>

BootstrapFails ==
    /\ pc \in BootstrapSteps
    /\ Fault("call")
    /\ Goto("bootstrap")
    /\ UNCHANGED <<run, envDir, committed, cluster, local, swallowed>>

-----------------------------------------------------------------------------
(* installAll(), which reconcileInstall() repeats until it succeeds.       *)

BrokenControllerKeys == {keySecret}

ControllerKeys == IF keySecret = None THEN {OwnKey} ELSE {keySecret}

BrokenRestartedKeys == loaded

RestartedKeys == loaded \cup ControllerKeys

\* The release is left alone when it is deployed already.
DeployController ==
    /\ pc = "deploy"
    /\ loaded' = IF loaded = {} THEN ControllerKeys ELSE loaded
    /\ todo' = On(disk) /\ applied' = {}
    /\ Goto("apply")
    /\ NoFault
    /\ UNCHANGED <<run, envDir, committed, keySecret, resources, secrets, shown, pem>>

\* A manifest that cannot be applied is passed over, and not waited for.
ApplyManifest ==
    /\ pc = "apply"
    /\ \E n \in todo :
         /\ todo' = todo \ {n}
         /\ \/ /\ resources' = [resources EXCEPT ![n] = disk[n]]
               /\ applied' = applied \cup {n}
               /\ NoFault
            \/ Swallow("apply") /\ UNCHANGED <<resources, applied>>
    /\ Goto(IF todo' = {} THEN "check" ELSE "apply")
    /\ UNCHANGED <<run, envDir, committed, keySecret, loaded, secrets, shown, pem>>

BrokenAllExist == \E n \in applied : secrets[n] # None

AllExist == \A n \in applied : secrets[n] # None

CheckSecrets ==
    /\ pc = "check"
    /\ Goto(IF AllExist THEN "commit" ELSE "restart")
    /\ NoFault
    /\ UNCHANGED <<run, envDir, committed, cluster, local>>

\* A controller that started before the key existed made one of its own.
RestartController ==
    /\ pc = "restart"
    /\ \/ loaded' = RestartedKeys /\ NoFault
       \/ Swallow("restart") /\ UNCHANGED loaded
    /\ Goto("wait")
    /\ UNCHANGED <<run, envDir, committed, keySecret, resources, secrets, shown, local>>

WaitForSecrets ==
    /\ pc = "wait"
    /\ AllExist
    /\ Goto("commit")
    /\ NoFault
    /\ UNCHANGED <<run, envDir, committed, cluster, local>>

\* The wait gives up, installAll throws, and is tried again.
WaitTimesOut ==
    /\ pc = "wait"
    /\ ~AllExist
    /\ Goto("deploy")
    /\ NoFault
    /\ UNCHANGED <<run, envDir, committed, cluster, local>>

Commit ==
    /\ pc = "commit"
    /\ committed' = [manifests |-> disk, caCert |-> caCert]
    /\ Goto("setup")
    /\ NoFault
    /\ UNCHANGED <<run, envDir, cluster, local>>

AdminSecrets == {n \in Names : n[1] = Admin /\ secrets[n] # None}

\* The first Secret in apl-users with the administrator's mail address, in the order
\* of the random names.
SetUp ==
    /\ pc = "setup"
    /\ \/ /\ shown' \in IF AdminSecrets = {} THEN {None} ELSE {secrets[n] : n \in AdminSecrets}
          /\ NoFault
       \/ Swallow("list") /\ shown' = None
    /\ Goto("done")
    /\ UNCHANGED <<run, envDir, committed, keySecret, loaded, resources, secrets, local>>

InstallFails ==
    /\ pc \in InstallSteps
    /\ Fault("call")
    /\ Goto("deploy")
    /\ UNCHANGED <<run, envDir, committed, cluster, local, swallowed>>

-----------------------------------------------------------------------------
(* The controller, and what happens to the process.                        *)

Opens(manifest) == manifest.key \in loaded

\* An existing Secret is updated when its manifest changed.
Unseal(n) ==
    /\ resources[n] # NoManifest /\ Opens(resources[n])
    /\ secrets[n] # resources[n].secret
    /\ secrets' = [secrets EXCEPT ![n] = resources[n].secret]
    /\ UNCHANGED <<run, envDir, committed, keySecret, loaded, resources, shown, local, pc,
                   swallowed, faults>>

UnsealAny == \E n \in Names : Unseal(n)

\* The process starts over, on the disk it had ...
Crash ==
    /\ pc \in BootstrapSteps \cup InstallSteps
    /\ Fault("crash")
    /\ Goto("bootstrap")
    /\ UNCHANGED <<run, envDir, committed, cluster, local, swallowed>>

\* ... or on an empty one.
Evict ==
    /\ pc \in BootstrapSteps \cup InstallSteps
    /\ Fault("evict")
    /\ disk' = [n \in Names |-> NoManifest]
    /\ caCert' = None /\ repo' = FALSE
    /\ Goto("bootstrap")
    /\ UNCHANGED <<run, committed, cluster, local, swallowed>>

Progress ==
    \/ Begin \/ ProcessValues \/ ExistingCert \/ GenerateKeyPair \/ CreateKeySecret
    \/ WriteManifest \/ BootstrapGit
    \/ DeployController \/ ApplyManifest \/ CheckSecrets \/ RestartController
    \/ WaitForSecrets \/ WaitTimesOut \/ Commit \/ SetUp

\* The operator goes on to the GitOps phase.
Stay == pc = "done" /\ UNCHANGED vars

Next == Progress \/ UnsealAny \/ Stay \/ BootstrapFails \/ InstallFails \/ Crash \/ Evict

Spec == Init /\ [][Next]_vars

\* The process is restarted when it ends, and every call returns or times out; the
\* controller opens what it can.
FairSpec == Spec /\ WF_vars(Progress) /\ \A n \in Names : WF_vars(Unseal(n))

-----------------------------------------------------------------------------
(* Properties.                                                             *)

\* Whatever fails and however often the installation starts over, the key pair that
\* is stored is never replaced: everything sealed before would be lost.
StoredKeyKept == [][keySecret # None => keySecret' = keySecret]_keySecret

\* A manifest of ENV_DIR or of the git server can be opened with the stored key, also
\* when bootstraps were repeated over files of earlier ones - unless one of the two
\* errors of the key pair that are only logged occurred.
SealedWithStoredKey ==
    swallowed \cap {"readKey", "createKey"} = {} =>
      \A n \in Names : \A m \in {disk[n], committed.manifests[n]} :
        m # NoManifest => m.key = keySecret

\* What is committed and installed from then on has its Secrets, whatever key it was
\* sealed with: the wait holds back manifests that cannot be opened, unless their
\* apply failed and was passed over.
SecretsReady ==
    pc \in {"commit", "setup", "done"} /\ "apply" \notin swallowed
      => \A n \in On(disk) : secrets[n] # None

\* The administrator is shown a password, and one that a user's Secret really holds.
PasswordShown ==
    pc = "done" /\ swallowed \cap {"apply", "list"} = {}
      => shown # None /\ \E n \in AdminSecrets : secrets[n] = shown

\* The installation ends with a CA key in the cluster that is the partner of the
\* certificate in the committed values, although a repeated bootstrap makes a new
\* pair and the wait is content with a Secret of the old one.
CAConverges ==
    <>[](swallowed # {} \/ (pc = "done" /\ secrets[CA] = committed.caCert))

\* Errors that are swallowed included, the installation succeeds, or ENV_DIR holds
\* for good a manifest that the stored key does not open.
SucceedsUnlessLostKey ==
    <>[](pc = "done") \/ <>[](\E n \in On(disk) : disk[n].key # keySecret)
=============================================================================
