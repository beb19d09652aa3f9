------------------------ MODULE SealedSecretsProofs ------------------------
(***************************************************************************)
(* Proofs about SealedSecrets, for every set of users, every number of     *)
(* bootstraps and all faults: types, the stored key is kept and manifests  *)
(* are sealed with it, what is installed has its Secrets, and the password *)
(* shown is one of a user's Secret.                                        *)
(***************************************************************************)
EXTENDS SealedSecrets, TLAPS

LEMMA SecretsFacts ==
    /\ None \in Generation /\ Runs \subseteq Generation /\ None \notin Runs
    /\ Generation \subseteq Nat /\ Generation = Runs \cup {None}
    /\ NoManifest \in Manifest
    /\ CA \in Names
    /\ \A r \in Runs : UserNames(r) \subseteq Names
  BY SecretsAssumption DEF None, Generation, Runs, NoManifest, Manifest, Names

LEMMA NameFacts ==
    /\ \A n \in Names : n # CA => n[1] \in Users /\ n[2] \in Runs
    /\ \A r \in Runs : <<Admin, r>> \in Names /\ <<Admin, r>> # CA
    /\ CA[1] # Admin
  BY SecretsAssumption DEF CA, Names, UserNames, Runs

\* A bootstrap has a number, and a key; it writes its own manifests.
RunInv ==
    /\ pc \in BootstrapSteps \cup InstallSteps => run \in Runs
    /\ pc \in {"create", "write"} => pem \in Runs
    /\ pc = "write" => todo \subseteq {CA} \cup UserNames(run)

LEMMA TypeInit == Init => TypeOK
  <1> SUFFICES ASSUME Init PROVE TypeOK
    OBVIOUS
  <1>1. disk \in [Names -> Manifest] /\ resources \in [Names -> Manifest]
    BY SecretsFacts DEF Init
  <1>2. committed \in [manifests : [Names -> Manifest], caCert : Generation]
    BY <1>1, SecretsFacts DEF Init
  <1>3. secrets \in [Names -> Generation]
    BY SecretsFacts DEF Init
  <1>4. /\ None \in Generation /\ {} \subseteq Runs \cup {OwnKey} /\ 0 \in Nat
        /\ {} \subseteq Names /\ {} \subseteq Swallowed
    BY SecretsFacts
  <1> QED
    BY <1>1, <1>2, <1>3, <1>4 DEF Init, TypeOK, None

LEMMA SwallowedStay == ASSUME TypeOK, [Next]_vars PROVE swallowed \subseteq swallowed' /\ swallowed' \subseteq Swallowed
  <1> USE DEF NoFault, Swallow, TypeOK
  <1>1. CASE Begin
    BY <1>1 DEF Begin, Swallowed
  <1>2. CASE ProcessValues
    BY <1>2 DEF ProcessValues, Swallowed
  <1>3. CASE ExistingCert
    BY <1>3 DEF ExistingCert, Swallowed
  <1>4. CASE GenerateKeyPair
    BY <1>4 DEF GenerateKeyPair, Swallowed
  <1>5. CASE CreateKeySecret
    BY <1>5 DEF CreateKeySecret, Swallowed
  <1>6. CASE WriteManifest
    BY <1>6 DEF WriteManifest, Swallowed
  <1>7. CASE BootstrapGit
    BY <1>7 DEF BootstrapGit, Swallowed
  <1>8. CASE DeployController
    BY <1>8 DEF DeployController, Swallowed
  <1>9. CASE ApplyManifest
    BY <1>9 DEF ApplyManifest, Swallowed
  <1>10. CASE CheckSecrets
    BY <1>10 DEF CheckSecrets, Swallowed
  <1>11. CASE RestartController
    BY <1>11 DEF RestartController, Swallowed
  <1>12. CASE WaitForSecrets
    BY <1>12 DEF WaitForSecrets, Swallowed
  <1>13. CASE WaitTimesOut
    BY <1>13 DEF WaitTimesOut, Swallowed
  <1>14. CASE Commit
    BY <1>14 DEF Commit, Swallowed
  <1>15. CASE SetUp
    BY <1>15 DEF SetUp, Swallowed
  <1>16. CASE UnsealAny
    BY <1>16 DEF UnsealAny, Swallowed, Unseal
  <1>17. CASE BootstrapFails
    BY <1>17 DEF BootstrapFails, Swallowed
  <1>18. CASE InstallFails
    BY <1>18 DEF InstallFails, Swallowed
  <1>19. CASE Crash
    BY <1>19 DEF Crash, Swallowed
  <1>20. CASE Evict
    BY <1>20 DEF Evict, Swallowed
  <1>21. CASE UNCHANGED vars
    BY <1>21 DEF vars
  <1> QED
    BY <1>1, <1>2, <1>3, <1>4, <1>5, <1>6, <1>7, <1>8, <1>9, <1>10, <1>11,
       <1>12, <1>13, <1>14, <1>15, <1>16, <1>17, <1>18, <1>19, <1>20, <1>21 DEF Next, Progress, Stay

LEMMA TypeNext == TypeOK /\ RunInv /\ [Next]_vars => TypeOK'
  <1> SUFFICES ASSUME TypeOK, RunInv, [Next]_vars PROVE TypeOK'
    OBVIOUS
  <1> USE SecretsFacts, SwallowedStay
  <1> USE DEF Goto, NoFault, Fault, Swallow, BootstrapSteps, InstallSteps, TypeOK, RunInv
  <1>1. CASE Begin
    BY <1>1, SecretsAssumption DEF Begin, envDir, cluster, local, Generation, Runs
  <1>2. CASE ProcessValues
    BY <1>2 DEF ProcessValues, envDir, cluster, local
  <1>3. CASE ExistingCert
    BY <1>3 DEF ExistingCert, envDir, cluster, local
  <1>4. CASE GenerateKeyPair
    BY <1>4 DEF GenerateKeyPair, envDir, cluster, local
  <1>5. CASE CreateKeySecret
    BY <1>5 DEF CreateKeySecret, StoredKey, envDir
  <1>6. CASE WriteManifest
    <2>1. PICK n \in todo : disk' = [disk EXCEPT ![n] = Written(n)] /\ todo' = todo \ {n}
      BY <1>6 DEF WriteManifest
    <2>2. Written(n) \in Manifest
      BY <1>6 DEF WriteManifest, Written, Sealed, Manifest
    <2>3. disk' \in [Names -> Manifest] /\ todo' \subseteq Names
      BY <2>1, <2>2
    <2> QED
      BY <1>6, <2>3 DEF WriteManifest, cluster
  <1>7. CASE BootstrapGit
    <2>1. disk' \in [Names -> Manifest]
      BY <1>7 DEF BootstrapGit
    <2> QED
      BY <1>7, <2>1 DEF BootstrapGit, cluster, local
  <1>8. CASE DeployController
    BY <1>8 DEF DeployController, ControllerKeys, OwnKey, On, envDir
  <1>9. CASE ApplyManifest
    <2>1. PICK n \in todo : /\ todo' = todo \ {n}
                          /\ \/ /\ resources' = [resources EXCEPT ![n] = disk[n]]
                                /\ applied' = applied \cup {n}
                             \/ UNCHANGED <<resources, applied>>
      BY <1>9 DEF ApplyManifest
    <2>2. resources' \in [Names -> Manifest] /\ applied' \subseteq Names /\ todo' \subseteq Names
      BY <2>1
    <2> QED
      BY <1>9, <2>2 DEF ApplyManifest, envDir
  <1>10. CASE CheckSecrets
    BY <1>10 DEF CheckSecrets, envDir, cluster, local
  <1>11. CASE RestartController
    <2>1. loaded' \subseteq Runs \cup {OwnKey}
      BY <1>11 DEF RestartController, RestartedKeys, ControllerKeys
    <2>2. faults' \in Nat /\ pc' = "wait"
      BY <1>11 DEF RestartController
    <2> QED
      BY <1>11, <2>1, <2>2 DEF RestartController, envDir, local
  <1>12. CASE WaitForSecrets
    BY <1>12 DEF WaitForSecrets, envDir, cluster, local
  <1>13. CASE WaitTimesOut
    BY <1>13 DEF WaitTimesOut, envDir, cluster, local
  <1>14. CASE Commit
    BY <1>14 DEF Commit, envDir, cluster, local
  <1>15. CASE SetUp
    <2>1. shown' \in Generation
      <3>1. CASE shown' = None
        BY <3>1
      <3>2. CASE shown' \in {secrets[n] : n \in AdminSecrets}
        BY <3>2 DEF AdminSecrets
      <3> QED
        BY <1>15, <3>1, <3>2 DEF SetUp
    <2> QED
      BY <1>15, <2>1 DEF SetUp, envDir, local
  <1>16. CASE UnsealAny
    <2>1. PICK n \in Names : Unseal(n)
      BY <1>16 DEF UnsealAny
    <2>2. secrets' \in [Names -> Generation]
      BY <2>1 DEF Unseal, Manifest
    <2> QED
      BY <2>1, <2>2 DEF Unseal, envDir, local
  <1>17. CASE BootstrapFails
    BY <1>17 DEF BootstrapFails, envDir, cluster, local
  <1>18. CASE InstallFails
    BY <1>18 DEF InstallFails, envDir, cluster, local
  <1>19. CASE Crash
    BY <1>19 DEF Crash, envDir, cluster, local
  <1>20. CASE Evict
    <2>1. disk' \in [Names -> Manifest]
      BY <1>20 DEF Evict
    <2>2. UNCHANGED <<run, committed, cluster, local, swallowed>>
      BY <1>20 DEF Evict
    <2>3. /\ caCert' \in Generation /\ repo' \in BOOLEAN /\ faults' \in Nat
          /\ pc' = "bootstrap"
      <3>1. caCert' = None /\ repo' = FALSE /\ pc' = "bootstrap" /\ faults' = faults + 1
        BY <1>20 DEF Evict
      <3>2. caCert' \in Generation /\ faults' \in Nat
        BY <3>1
      <3>3. repo' \in BOOLEAN
        BY <3>1, Zenon
      <3> QED
        BY <3>1, <3>2, <3>3
    <2> QED
      BY <2>1, <2>2, <2>3 DEF cluster, local
  <1>21. CASE UNCHANGED vars
    BY <1>21 DEF vars, envDir, cluster, local
  <1> QED
    BY <1>1, <1>2, <1>3, <1>4, <1>5, <1>6, <1>7, <1>8, <1>9, <1>10, <1>11,
       <1>12, <1>13, <1>14, <1>15, <1>16, <1>17, <1>18, <1>19, <1>20, <1>21 DEF Next, Progress, Stay

LEMMA RunNext == TypeOK /\ RunInv /\ [Next]_vars => RunInv'
  <1> SUFFICES ASSUME TypeOK, RunInv, [Next]_vars PROVE RunInv'
    OBVIOUS
  <1> USE SecretsFacts
  <1> USE DEF Goto, NoFault, Fault, Swallow, BootstrapSteps, InstallSteps, TypeOK, RunInv
  <1>1. CASE Begin
    BY <1>1, SecretsAssumption DEF Begin, envDir, cluster, local, Generation, Runs
  <1>2. CASE ProcessValues
    BY <1>2 DEF ProcessValues, envDir, cluster, local
  <1>3. CASE ExistingCert
    BY <1>3 DEF ExistingCert, UseKey, envDir, cluster
  <1>4. CASE GenerateKeyPair
    BY <1>4 DEF GenerateKeyPair, envDir, cluster, local
  <1>5. CASE CreateKeySecret
    BY <1>5 DEF CreateKeySecret, envDir, cluster, local
  <1>6. CASE WriteManifest
    <2>1. todo' \subseteq todo
      BY <1>6 DEF WriteManifest
    <2> QED
      BY <1>6, <2>1 DEF WriteManifest, envDir, cluster
  <1>7. CASE BootstrapGit
    BY <1>7 DEF BootstrapGit, envDir, cluster, local
  <1>8. CASE DeployController
    BY <1>8 DEF DeployController, envDir, cluster, local
  <1>9. CASE ApplyManifest
    BY <1>9 DEF ApplyManifest, envDir, cluster, local
  <1>10. CASE CheckSecrets
    BY <1>10 DEF CheckSecrets, envDir, cluster, local
  <1>11. CASE RestartController
    BY <1>11 DEF RestartController, envDir, cluster, local
  <1>12. CASE WaitForSecrets
    BY <1>12 DEF WaitForSecrets, envDir, cluster, local
  <1>13. CASE WaitTimesOut
    BY <1>13 DEF WaitTimesOut, envDir, cluster, local
  <1>14. CASE Commit
    BY <1>14 DEF Commit, envDir, cluster, local
  <1>15. CASE SetUp
    BY <1>15 DEF SetUp, envDir, cluster, local
  <1>16. CASE UnsealAny
    BY <1>16 DEF UnsealAny, Unseal, envDir, local
  <1>17. CASE BootstrapFails
    BY <1>17 DEF BootstrapFails, envDir, cluster, local
  <1>18. CASE InstallFails
    BY <1>18 DEF InstallFails, envDir, cluster, local
  <1>19. CASE Crash
    BY <1>19 DEF Crash, envDir, cluster, local
  <1>20. CASE Evict
    BY <1>20 DEF Evict, envDir, cluster, local
  <1>21. CASE UNCHANGED vars
    BY <1>21 DEF vars, envDir, cluster, local
  <1> QED
    BY <1>1, <1>2, <1>3, <1>4, <1>5, <1>6, <1>7, <1>8, <1>9, <1>10, <1>11,
       <1>12, <1>13, <1>14, <1>15, <1>16, <1>17, <1>18, <1>19, <1>20, <1>21 DEF Next, Progress, Stay

\* The types hold in every reachable state: of manifests, Secrets and key pairs, whatever
\* bootstraps and installations are repeated.
THEOREM SecretsTypes == Spec => []TypeOK
  <1>1. Init => TypeOK /\ RunInv
    BY TypeInit DEF Init, RunInv, BootstrapSteps, InstallSteps
  <1>2. TypeOK /\ RunInv /\ [Next]_vars => TypeOK' /\ RunInv'
    BY TypeNext, RunNext
  <1> QED
    BY <1>1, <1>2, PTL DEF Spec

LEMMA RunKnown == Spec => []RunInv
  <1>1. Init => TypeOK /\ RunInv
    BY TypeInit DEF Init, RunInv, BootstrapSteps, InstallSteps
  <1>2. TypeOK /\ RunInv /\ [Next]_vars => TypeOK' /\ RunInv'
    BY TypeNext, RunNext
  <1> QED
    BY <1>1, <1>2, PTL DEF Spec

-----------------------------------------------------------------------------
(* The key pair.                                                           *)

LEMMA KeyKeptNext == TypeOK /\ [Next]_vars => (keySecret # None => keySecret' = keySecret)
  <1> SUFFICES ASSUME TypeOK, [Next]_vars PROVE (keySecret # None => keySecret' = keySecret)
    OBVIOUS
  <1> USE SecretsFacts
  <1> USE DEF Goto, NoFault, Fault, Swallow, BootstrapSteps, InstallSteps
  <1>1. CASE Begin
    BY <1>1 DEF Begin, envDir, cluster, local
  <1>2. CASE ProcessValues
    BY <1>2 DEF ProcessValues, envDir, cluster, local
  <1>3. CASE ExistingCert
    BY <1>3 DEF ExistingCert, envDir, cluster, local
  <1>4. CASE GenerateKeyPair
    BY <1>4 DEF GenerateKeyPair, envDir, cluster, local
  <1>5. CASE CreateKeySecret
    BY <1>5 DEF CreateKeySecret, StoredKey, envDir, local
  <1>6. CASE WriteManifest
    BY <1>6 DEF WriteManifest, envDir, cluster, local
  <1>7. CASE BootstrapGit
    BY <1>7 DEF BootstrapGit, envDir, cluster, local
  <1>8. CASE DeployController
    BY <1>8 DEF DeployController, envDir, cluster, local
  <1>9. CASE ApplyManifest
    BY <1>9 DEF ApplyManifest, envDir, cluster, local
  <1>10. CASE CheckSecrets
    BY <1>10 DEF CheckSecrets, envDir, cluster, local
  <1>11. CASE RestartController
    BY <1>11 DEF RestartController, envDir, cluster, local
  <1>12. CASE WaitForSecrets
    BY <1>12 DEF WaitForSecrets, envDir, cluster, local
  <1>13. CASE WaitTimesOut
    BY <1>13 DEF WaitTimesOut, envDir, cluster, local
  <1>14. CASE Commit
    BY <1>14 DEF Commit, envDir, cluster, local
  <1>15. CASE SetUp
    BY <1>15 DEF SetUp, envDir, cluster, local
  <1>16. CASE UnsealAny
    BY <1>16 DEF UnsealAny, Unseal, envDir, local
  <1>17. CASE BootstrapFails
    BY <1>17 DEF BootstrapFails, envDir, cluster, local
  <1>18. CASE InstallFails
    BY <1>18 DEF InstallFails, envDir, cluster, local
  <1>19. CASE Crash
    BY <1>19 DEF Crash, envDir, cluster, local
  <1>20. CASE Evict
    BY <1>20 DEF Evict, envDir, cluster, local
  <1>21. CASE UNCHANGED vars
    BY <1>21 DEF vars, envDir, cluster, local
  <1> QED
    BY <1>1, <1>2, <1>3, <1>4, <1>5, <1>6, <1>7, <1>8, <1>9, <1>10, <1>11,
       <1>12, <1>13, <1>14, <1>15, <1>16, <1>17, <1>18, <1>19, <1>20, <1>21 DEF Next, Progress, Stay

\* A stored key pair is never replaced, for every number of bootstraps and all faults:
\* createSealedSecretsKeySecret creates, and passes over the conflict.
THEOREM KeyKept == Spec => StoredKeyKept
  <1>1. TypeOK /\ [Next]_vars => [keySecret # None => keySecret' = keySecret]_keySecret
    BY KeyKeptNext
  <1> QED
    BY <1>1, SecretsTypes, PTL DEF Spec, StoredKeyKept

KeyErrors == {"readKey", "createKey"}

\* Whatever is sealed is sealed with the key of some bootstrap.
KeyedInv ==
    \A n \in Names :
        /\ disk[n] # NoManifest => disk[n].key \in Runs
        /\ committed.manifests[n] # NoManifest => committed.manifests[n].key \in Runs

\* Without an error of the key pair, a new pair is made only where none is stored, and
\* the public key in use is the stored one.
KeyInv ==
    swallowed \cap KeyErrors = {} =>
        /\ pc = "create" => keySecret = None
        /\ pc = "write" => pem = keySecret
        /\ \A n \in Names :
             /\ disk[n] # NoManifest => disk[n].key = keySecret
             /\ committed.manifests[n] # NoManifest => committed.manifests[n].key = keySecret

LEMMA KeyedNext == TypeOK /\ RunInv /\ KeyedInv /\ [Next]_vars => KeyedInv'
  <1> SUFFICES ASSUME TypeOK, RunInv, KeyedInv, [Next]_vars PROVE KeyedInv'
    OBVIOUS
  <1> USE SecretsFacts
  <1> USE DEF KeyedInv
  <1>1. CASE Begin
    BY <1>1 DEF Begin, envDir, cluster, local
  <1>2. CASE ProcessValues
    BY <1>2 DEF ProcessValues, envDir, cluster, local
  <1>3. CASE ExistingCert
    BY <1>3 DEF ExistingCert, envDir, cluster, local
  <1>4. CASE GenerateKeyPair
    BY <1>4 DEF GenerateKeyPair, envDir, cluster, local
  <1>5. CASE CreateKeySecret
    BY <1>5 DEF CreateKeySecret, envDir, cluster, local
  <1>6. CASE WriteManifest
    <2>1. PICK n \in todo : disk' = [disk EXCEPT ![n] = Written(n)]
      BY <1>6 DEF WriteManifest
    <2>2. \A k \in Names : disk'[k] = disk[k] \/ disk'[k].key = pem
      BY <2>1 DEF TypeOK, Written, Sealed
    <2>3. pem \in Runs /\ UNCHANGED committed
      BY <1>6 DEF WriteManifest, RunInv
    <2> QED
      BY <2>2, <2>3
  <1>7. CASE BootstrapGit
    <2>1. \A n \in Names : disk'[n] = disk[n] \/ disk'[n] = committed.manifests[n]
      BY <1>7 DEF BootstrapGit, TypeOK
    <2>2. UNCHANGED committed
      BY <1>7 DEF BootstrapGit
    <2> QED
      BY <2>1, <2>2
  <1>8. CASE DeployController
    BY <1>8 DEF DeployController, envDir, cluster, local
  <1>9. CASE ApplyManifest
    BY <1>9 DEF ApplyManifest, envDir, cluster, local
  <1>10. CASE CheckSecrets
    BY <1>10 DEF CheckSecrets, envDir, cluster, local
  <1>11. CASE RestartController
    BY <1>11 DEF RestartController, envDir, cluster, local
  <1>12. CASE WaitForSecrets
    BY <1>12 DEF WaitForSecrets, envDir, cluster, local
  <1>13. CASE WaitTimesOut
    BY <1>13 DEF WaitTimesOut, envDir, cluster, local
  <1>14. CASE Commit
    <2>1. committed'.manifests = disk /\ UNCHANGED disk
      BY <1>14 DEF Commit, envDir
    <2> QED
      BY <2>1
  <1>15. CASE SetUp
    BY <1>15 DEF SetUp, envDir, cluster, local
  <1>16. CASE UnsealAny
    BY <1>16 DEF UnsealAny, Unseal, envDir
  <1>17. CASE BootstrapFails
    BY <1>17 DEF BootstrapFails, envDir, cluster, local
  <1>18. CASE InstallFails
    BY <1>18 DEF InstallFails, envDir, cluster, local
  <1>19. CASE Crash
    BY <1>19 DEF Crash, envDir, cluster, local
  <1>20. CASE Evict
    <2>1. \A n \in Names : disk'[n] = NoManifest
      BY <1>20 DEF Evict
    <2>2. UNCHANGED committed
      BY <1>20 DEF Evict
    <2> QED
      BY <2>1, <2>2
  <1>21. CASE UNCHANGED vars
    BY <1>21 DEF vars, envDir, cluster, local
  <1> QED
    BY <1>1, <1>2, <1>3, <1>4, <1>5, <1>6, <1>7, <1>8, <1>9, <1>10, <1>11,
       <1>12, <1>13, <1>14, <1>15, <1>16, <1>17, <1>18, <1>19, <1>20, <1>21 DEF Next, Progress, Stay

LEMMA KeyNext == TypeOK /\ RunInv /\ KeyedInv /\ KeyInv /\ [Next]_vars => KeyInv'
  <1> SUFFICES ASSUME TypeOK, RunInv, KeyedInv, KeyInv, [Next]_vars PROVE KeyInv'
    OBVIOUS
  <1> USE SecretsFacts, SwallowedStay
  <1> USE DEF Goto
  <1>1. CASE Begin
    BY <1>1 DEF Begin, KeyInv, envDir, cluster, local
  <1>2. CASE ProcessValues
    BY <1>2 DEF ProcessValues, KeyInv, envDir, cluster, local
  <1>3. CASE ExistingCert
    BY <1>3 DEF ExistingCert, KeyInv, envDir, cluster, local
  <1>4. CASE GenerateKeyPair
    <2> SUFFICES ASSUME swallowed' \cap KeyErrors = {} PROVE KeyInv'
      BY DEF KeyInv
    <2>1. swallowed \cap KeyErrors = {} /\ "readKey" \notin swallowed'
      BY DEF KeyErrors
    <2>2. keySecret = None
      BY <1>4, <2>1 DEF GenerateKeyPair, UseKey, Swallow
    <2>3. UNCHANGED <<disk, committed, keySecret>> /\ pc' = "create"
      BY <1>4 DEF GenerateKeyPair, envDir, cluster, Goto
    <2> QED
      BY <2>1, <2>2, <2>3 DEF KeyInv
  <1>5. CASE CreateKeySecret
    <2> SUFFICES ASSUME swallowed' \cap KeyErrors = {} PROVE KeyInv'
      BY DEF KeyInv
    <2>1. swallowed \cap KeyErrors = {}
      OBVIOUS
    <2>2. "createKey" \notin swallowed'
      BY DEF KeyErrors
    <2>3. keySecret = None /\ keySecret' = pem /\ pem' = pem /\ pem \in Runs
      BY <1>5, <2>1, <2>2 DEF CreateKeySecret, StoredKey, Swallow, KeyInv, RunInv
    <2>4. \A n \in Names : disk[n] = NoManifest /\ committed.manifests[n] = NoManifest
      BY <2>1, <2>3 DEF KeyInv, KeyedInv
    <2>5. UNCHANGED <<disk, committed>> /\ pc' = "write"
      BY <1>5 DEF CreateKeySecret, envDir, Goto
    <2> QED
      BY <2>3, <2>4, <2>5 DEF KeyInv
  <1>6. CASE WriteManifest
    <2>1. PICK n \in todo : disk' = [disk EXCEPT ![n] = Written(n)]
      BY <1>6 DEF WriteManifest
    <2>2. \A k \in Names : disk'[k] = disk[k] \/ disk'[k].key = pem
      BY <2>1 DEF TypeOK, Written, Sealed
    <2>3. UNCHANGED <<committed, keySecret, pem>> /\ pc = "write" /\ pc' # "create"
      BY <1>6 DEF WriteManifest, cluster, Goto
    <2> QED
      BY <2>2, <2>3 DEF KeyInv
  <1>7. CASE BootstrapGit
    <2>1. \A n \in Names : disk'[n] = disk[n] \/ disk'[n] = committed.manifests[n]
      BY <1>7 DEF BootstrapGit, TypeOK
    <2>2. UNCHANGED <<committed, keySecret>> /\ pc' = "deploy"
      BY <1>7 DEF BootstrapGit, cluster, Goto
    <2> QED
      BY <2>1, <2>2 DEF KeyInv
  <1>8. CASE DeployController
    BY <1>8 DEF DeployController, KeyInv, envDir, cluster, local
  <1>9. CASE ApplyManifest
    BY <1>9 DEF ApplyManifest, KeyInv, envDir, cluster, local
  <1>10. CASE CheckSecrets
    BY <1>10 DEF CheckSecrets, KeyInv, envDir, cluster, local
  <1>11. CASE RestartController
    BY <1>11 DEF RestartController, KeyInv, envDir, cluster, local
  <1>12. CASE WaitForSecrets
    BY <1>12 DEF WaitForSecrets, KeyInv, envDir, cluster, local
  <1>13. CASE WaitTimesOut
    BY <1>13 DEF WaitTimesOut, KeyInv, envDir, cluster, local
  <1>14. CASE Commit
    <2>1. committed'.manifests = disk /\ UNCHANGED <<disk, keySecret>> /\ pc' = "setup"
      BY <1>14 DEF Commit, envDir, cluster, Goto
    <2> QED
      BY <2>1 DEF KeyInv
  <1>15. CASE SetUp
    BY <1>15 DEF SetUp, KeyInv, envDir, cluster, local
  <1>16. CASE UnsealAny
    BY <1>16 DEF UnsealAny, KeyInv, envDir, cluster, local, Unseal
  <1>17. CASE BootstrapFails
    BY <1>17 DEF BootstrapFails, KeyInv, envDir, cluster, local
  <1>18. CASE InstallFails
    BY <1>18 DEF InstallFails, KeyInv, envDir, cluster, local
  <1>19. CASE Crash
    BY <1>19 DEF Crash, KeyInv, envDir, cluster, local
  <1>20. CASE Evict
    <2>1. \A n \in Names : disk'[n] = NoManifest
      BY <1>20 DEF Evict
    <2>2. UNCHANGED <<committed, keySecret>> /\ pc' = "bootstrap"
      BY <1>20 DEF Evict, cluster, Goto
    <2> QED
      BY <2>1, <2>2 DEF KeyInv
  <1>21. CASE UNCHANGED vars
    BY <1>21 DEF vars, KeyInv, envDir, cluster, local
  <1> QED
    BY <1>1, <1>2, <1>3, <1>4, <1>5, <1>6, <1>7, <1>8, <1>9, <1>10, <1>11,
       <1>12, <1>13, <1>14, <1>15, <1>16, <1>17, <1>18, <1>19, <1>20, <1>21 DEF Next, Progress, Stay

\* Unless one of the two errors of the key pair that are only logged occurred, every
\* manifest of ENV_DIR and of the git server is sealed with the stored key, for every
\* number of bootstraps, crashes and lost disks.
THEOREM SealedWithIt == Spec => []SealedWithStoredKey
  <1>1. Init => KeyedInv /\ KeyInv
    BY DEF Init, KeyedInv, KeyInv
  <1>2. TypeOK /\ RunInv /\ KeyedInv /\ KeyInv /\ [Next]_vars => KeyedInv' /\ KeyInv'
    BY KeyedNext, KeyNext
  <1>3. KeyInv => SealedWithStoredKey
    BY DEF KeyInv, SealedWithStoredKey, KeyErrors
  <1> QED
    BY <1>1, <1>2, <1>3, SecretsTypes, RunKnown, PTL DEF Spec

-----------------------------------------------------------------------------
(* The Secrets.                                                            *)

\* The Secret of a user has the password of the bootstrap that drew its name.
OwnSecret(n, secret) == secret # None /\ (n # CA => secret = n[2])

SecretInv ==
    \A n \in Names :
        /\ disk[n] # NoManifest => OwnSecret(n, disk[n].secret)
        /\ committed.manifests[n] # NoManifest => OwnSecret(n, committed.manifests[n].secret)
        /\ resources[n] # NoManifest => OwnSecret(n, resources[n].secret)
        /\ secrets[n] # None => OwnSecret(n, secrets[n])

\* The administrator of the last bootstrap is on disk once its files are written.
AdminInv ==
    /\ pc = "write" => <<Admin, run>> \in todo \/ disk[<<Admin, run>>] # NoManifest
    /\ pc \in {"git"} \cup InstallSteps => disk[<<Admin, run>>] # NoManifest

\* Manifests are applied, or still to be, and what is applied is waited for.
ApplyInv ==
    "apply" \notin swallowed =>
        /\ pc = "apply" => On(disk) \subseteq applied \cup todo
        /\ pc \in {"check", "restart", "wait"} => On(disk) \subseteq applied
        /\ pc \in {"commit", "setup", "done"} => \A n \in On(disk) : secrets[n] # None

LEMMA SecretNext == TypeOK /\ RunInv /\ SecretInv /\ [Next]_vars => SecretInv'
  <1> SUFFICES ASSUME TypeOK, RunInv, SecretInv, [Next]_vars PROVE SecretInv'
    OBVIOUS
  <1> USE SecretsFacts, SwallowedStay
  <1> USE DEF Goto
  <1>1. CASE Begin
    BY <1>1 DEF Begin, SecretInv, envDir, cluster, local
  <1>2. CASE ProcessValues
    BY <1>2 DEF ProcessValues, SecretInv, envDir, cluster, local
  <1>3. CASE ExistingCert
    BY <1>3 DEF ExistingCert, SecretInv, envDir, cluster, local
  <1>4. CASE GenerateKeyPair
    BY <1>4 DEF GenerateKeyPair, SecretInv, envDir, cluster, local
  <1>5. CASE CreateKeySecret
    BY <1>5 DEF CreateKeySecret, SecretInv, envDir, cluster, local
  <1>6. CASE WriteManifest
    <2>1. PICK n \in todo : disk' = [disk EXCEPT ![n] = Written(n)]
      BY <1>6 DEF WriteManifest
    <2>2. n \in Names /\ run \in Runs /\ (n # CA => n[2] = run)
      BY <1>6, NameFacts DEF WriteManifest, RunInv, TypeOK, BootstrapSteps, UserNames
    <2>3. \A k \in Names : disk'[k] = disk[k] \/ (k = n /\ disk'[k].secret = run)
      BY <2>1, <2>2 DEF TypeOK, Written, Sealed
    <2>4. UNCHANGED <<committed, resources, secrets>>
      BY <1>6 DEF WriteManifest, cluster
    <2> QED
      BY <2>2, <2>3, <2>4 DEF SecretInv, OwnSecret
  <1>7. CASE BootstrapGit
    <2>1. \A n \in Names : disk'[n] = disk[n] \/ disk'[n] = committed.manifests[n]
      BY <1>7 DEF BootstrapGit, TypeOK
    <2>2. UNCHANGED <<committed, resources, secrets>>
      BY <1>7 DEF BootstrapGit, cluster
    <2> QED
      BY <2>1, <2>2 DEF SecretInv
  <1>8. CASE DeployController
    BY <1>8 DEF DeployController, SecretInv, envDir, cluster, local
  <1>9. CASE ApplyManifest
    <2>1. PICK n \in todo : resources' = [resources EXCEPT ![n] = disk[n]] \/ UNCHANGED resources
      BY <1>9 DEF ApplyManifest
    <2>2. \A k \in Names : resources'[k] = resources[k] \/ resources'[k] = disk[k]
      BY <2>1 DEF TypeOK
    <2>3. UNCHANGED <<disk, committed, secrets>>
      BY <1>9 DEF ApplyManifest, envDir
    <2> QED
      BY <2>2, <2>3 DEF SecretInv
  <1>10. CASE CheckSecrets
    BY <1>10 DEF CheckSecrets, SecretInv, envDir, cluster, local
  <1>11. CASE RestartController
    BY <1>11 DEF RestartController, SecretInv, envDir, cluster, local
  <1>12. CASE WaitForSecrets
    BY <1>12 DEF WaitForSecrets, SecretInv, envDir, cluster, local
  <1>13. CASE WaitTimesOut
    BY <1>13 DEF WaitTimesOut, SecretInv, envDir, cluster, local
  <1>14. CASE Commit
    <2>1. committed'.manifests = disk /\ UNCHANGED <<disk, resources, secrets>>
      BY <1>14 DEF Commit, envDir, cluster
    <2> QED
      BY <2>1 DEF SecretInv
  <1>15. CASE SetUp
    BY <1>15 DEF SetUp, SecretInv, envDir, cluster, local
  <1>16. CASE UnsealAny
    <2>1. PICK n \in Names : Unseal(n)
      BY <1>16 DEF UnsealAny
    <2>2. \A k \in Names : secrets'[k] = secrets[k] \/ (k = n /\ secrets'[k] = resources[n].secret)
      BY <2>1 DEF Unseal, TypeOK
    <2>3. resources[n] # NoManifest /\ UNCHANGED <<disk, committed, resources>>
      BY <2>1 DEF Unseal, envDir
    <2> QED
      BY <2>2, <2>3 DEF SecretInv, OwnSecret
  <1>17. CASE BootstrapFails
    BY <1>17 DEF BootstrapFails, SecretInv, envDir, cluster, local
  <1>18. CASE InstallFails
    BY <1>18 DEF InstallFails, SecretInv, envDir, cluster, local
  <1>19. CASE Crash
    BY <1>19 DEF Crash, SecretInv, envDir, cluster, local
  <1>20. CASE Evict
    <2>1. \A n \in Names : disk'[n] = NoManifest
      BY <1>20 DEF Evict
    <2>2. UNCHANGED <<committed, resources, secrets>>
      BY <1>20 DEF Evict, cluster
    <2> QED
      BY <2>1, <2>2 DEF SecretInv
  <1>21. CASE UNCHANGED vars
    BY <1>21 DEF vars, SecretInv, envDir, cluster, local
  <1> QED
    BY <1>1, <1>2, <1>3, <1>4, <1>5, <1>6, <1>7, <1>8, <1>9, <1>10, <1>11,
       <1>12, <1>13, <1>14, <1>15, <1>16, <1>17, <1>18, <1>19, <1>20, <1>21 DEF Next, Progress, Stay

LEMMA AdminNext == TypeOK /\ RunInv /\ AdminInv /\ [Next]_vars => AdminInv'
  <1> SUFFICES ASSUME TypeOK, RunInv, AdminInv, [Next]_vars PROVE AdminInv'
    OBVIOUS
  <1> USE SecretsFacts, SwallowedStay
  <1> USE DEF Goto
  <1>1. CASE Begin
    BY <1>1 DEF Begin, AdminInv, InstallSteps, envDir, cluster, local
  <1>2. CASE ProcessValues
    BY <1>2 DEF ProcessValues, AdminInv, InstallSteps, envDir, cluster, local
  <1>3. CASE ExistingCert
    <2>1. run \in Runs /\ <<Admin, run>> \in UserNames(run)
      BY <1>3, SecretsAssumption DEF ExistingCert, RunInv, BootstrapSteps, UserNames
    <2> QED
      BY <1>3, <2>1 DEF ExistingCert, AdminInv, InstallSteps
  <1>4. CASE GenerateKeyPair
    BY <1>4 DEF GenerateKeyPair, AdminInv, InstallSteps, envDir, cluster, local
  <1>5. CASE CreateKeySecret
    <2>1. run \in Runs /\ <<Admin, run>> \in UserNames(run)
      BY <1>5, SecretsAssumption DEF CreateKeySecret, RunInv, BootstrapSteps, UserNames
    <2> QED
      BY <1>5, <2>1 DEF CreateKeySecret, AdminInv, InstallSteps
  <1>6. CASE WriteManifest
    <2>1. PICK n \in todo : disk' = [disk EXCEPT ![n] = Written(n)] /\ todo' = todo \ {n}
      BY <1>6 DEF WriteManifest
    <2>2. Written(n) # NoManifest /\ run' = run
      BY <1>6 DEF WriteManifest, RunInv, BootstrapSteps, Written, Sealed, NoManifest
    <2>3. run \in Runs /\ <<Admin, run>> \in Names
      BY <1>6, NameFacts DEF WriteManifest, RunInv, BootstrapSteps
    <2>4. <<Admin, run>> \in todo' \/ disk'[<<Admin, run>>] # NoManifest
      BY <1>6, <2>1, <2>2, <2>3 DEF WriteManifest, AdminInv, TypeOK
    <2>5. pc' = "write" \/ (pc' = "git" /\ todo' = {})
      BY <1>6 DEF WriteManifest
    <2> QED
      BY <2>2, <2>4, <2>5 DEF AdminInv, InstallSteps
  <1>7. CASE BootstrapGit
    <2>1. run \in Runs /\ <<Admin, run>> \in Names
      BY <1>7, NameFacts DEF BootstrapGit, RunInv, BootstrapSteps
    <2>2. disk[<<Admin, run>>] # NoManifest /\ run' = run /\ pc' = "deploy"
      BY <1>7 DEF BootstrapGit, AdminInv
    <2>3. disk'[<<Admin, run>>] = disk[<<Admin, run>>]
      BY <1>7, <2>1, <2>2 DEF BootstrapGit, TypeOK
    <2> QED
      BY <2>2, <2>3 DEF AdminInv
  <1>8. CASE DeployController
    BY <1>8 DEF DeployController, AdminInv, InstallSteps, envDir, cluster, local
  <1>9. CASE ApplyManifest
    BY <1>9 DEF ApplyManifest, AdminInv, InstallSteps, envDir, cluster, local
  <1>10. CASE CheckSecrets
    BY <1>10 DEF CheckSecrets, AdminInv, InstallSteps, envDir, cluster, local
  <1>11. CASE RestartController
    BY <1>11 DEF RestartController, AdminInv, InstallSteps, envDir, cluster, local
  <1>12. CASE WaitForSecrets
    BY <1>12 DEF WaitForSecrets, AdminInv, InstallSteps, envDir, cluster, local
  <1>13. CASE WaitTimesOut
    BY <1>13 DEF WaitTimesOut, AdminInv, InstallSteps, envDir, cluster, local
  <1>14. CASE Commit
    BY <1>14 DEF Commit, AdminInv, InstallSteps, envDir, cluster, local
  <1>15. CASE SetUp
    BY <1>15 DEF SetUp, AdminInv, InstallSteps, envDir, cluster, local
  <1>16. CASE UnsealAny
    BY <1>16 DEF UnsealAny, AdminInv, InstallSteps, envDir, cluster, local, Unseal
  <1>17. CASE BootstrapFails
    BY <1>17 DEF BootstrapFails, AdminInv, InstallSteps, envDir, cluster, local
  <1>18. CASE InstallFails
    BY <1>18 DEF InstallFails, AdminInv, InstallSteps, envDir, cluster, local
  <1>19. CASE Crash
    BY <1>19 DEF Crash, AdminInv, InstallSteps, envDir, cluster, local
  <1>20. CASE Evict
    BY <1>20 DEF Evict, AdminInv, InstallSteps, envDir, cluster, local
  <1>21. CASE UNCHANGED vars
    BY <1>21 DEF vars, AdminInv, InstallSteps, envDir, cluster, local
  <1> QED
    BY <1>1, <1>2, <1>3, <1>4, <1>5, <1>6, <1>7, <1>8, <1>9, <1>10, <1>11,
       <1>12, <1>13, <1>14, <1>15, <1>16, <1>17, <1>18, <1>19, <1>20, <1>21 DEF Next, Progress, Stay

LEMMA ApplyNext == TypeOK /\ SecretInv /\ ApplyInv /\ [Next]_vars => ApplyInv'
  <1> SUFFICES ASSUME TypeOK, SecretInv, ApplyInv, [Next]_vars PROVE ApplyInv'
    OBVIOUS
  <1> USE SecretsFacts, SwallowedStay
  <1> USE DEF Goto
  <1>1. CASE Begin
    BY <1>1 DEF Begin, ApplyInv, On, AllExist, envDir, cluster, local
  <1>2. CASE ProcessValues
    BY <1>2 DEF ProcessValues, ApplyInv, On, AllExist, envDir, cluster, local
  <1>3. CASE ExistingCert
    BY <1>3 DEF ExistingCert, ApplyInv, On, AllExist, envDir, cluster, local
  <1>4. CASE GenerateKeyPair
    BY <1>4 DEF GenerateKeyPair, ApplyInv, On, AllExist, envDir, cluster, local
  <1>5. CASE CreateKeySecret
    BY <1>5 DEF CreateKeySecret, ApplyInv, On, AllExist, envDir, cluster, local
  <1>6. CASE WriteManifest
    BY <1>6 DEF WriteManifest, ApplyInv, On, AllExist, envDir, cluster, local
  <1>7. CASE BootstrapGit
    BY <1>7 DEF BootstrapGit, ApplyInv, On, AllExist, envDir, cluster, local
  <1>8. CASE DeployController
    BY <1>8 DEF DeployController, ApplyInv, On, AllExist, envDir, cluster, local
  <1>9. CASE ApplyManifest
    <2> SUFFICES ASSUME "apply" \notin swallowed' PROVE ApplyInv'
      BY DEF ApplyInv
    <2>1. "apply" \notin swallowed
      OBVIOUS
    <2>2. PICK n \in todo : todo' = todo \ {n} /\ applied' = applied \cup {n}
      BY <1>9 DEF ApplyManifest, Swallow
    <2>3. UNCHANGED disk /\ (pc' = "apply" \/ (pc' = "check" /\ todo' = {}))
      BY <1>9 DEF ApplyManifest, envDir
    <2>4. On(disk) \subseteq applied \cup todo
      BY <1>9, <2>1 DEF ApplyManifest, ApplyInv
    <2>5. On(disk)' \subseteq applied' \cup todo'
      BY <2>2, <2>3, <2>4 DEF On
    <2> QED
      BY <2>3, <2>5 DEF ApplyInv
  <1>10. CASE CheckSecrets
    BY <1>10 DEF CheckSecrets, ApplyInv, On, AllExist, envDir, cluster, local
  <1>11. CASE RestartController
    BY <1>11 DEF RestartController, ApplyInv, On, AllExist, envDir, cluster, local
  <1>12. CASE WaitForSecrets
    BY <1>12 DEF WaitForSecrets, ApplyInv, On, AllExist, envDir, cluster, local
  <1>13. CASE WaitTimesOut
    BY <1>13 DEF WaitTimesOut, ApplyInv, On, AllExist, envDir, cluster, local
  <1>14. CASE Commit
    BY <1>14 DEF Commit, ApplyInv, On, AllExist, envDir, cluster, local
  <1>15. CASE SetUp
    BY <1>15 DEF SetUp, ApplyInv, On, AllExist, envDir, cluster, local
  <1>16. CASE UnsealAny
    <2>1. PICK n \in Names : Unseal(n)
      BY <1>16 DEF UnsealAny
    <2>2. resources[n].secret # None
      BY <2>1 DEF Unseal, SecretInv, OwnSecret
    <2>3. \A k \in Names : secrets[k] # None => secrets'[k] # None
      BY <2>1, <2>2 DEF Unseal, TypeOK
    <2>4. UNCHANGED <<disk, applied, todo, pc, swallowed>>
      BY <2>1 DEF Unseal, envDir, local
    <2> QED
      BY <2>3, <2>4 DEF ApplyInv, On
  <1>17. CASE BootstrapFails
    BY <1>17 DEF BootstrapFails, ApplyInv, On, AllExist, envDir, cluster, local
  <1>18. CASE InstallFails
    BY <1>18 DEF InstallFails, ApplyInv, On, AllExist, envDir, cluster, local
  <1>19. CASE Crash
    BY <1>19 DEF Crash, ApplyInv, On, AllExist, envDir, cluster, local
  <1>20. CASE Evict
    BY <1>20 DEF Evict, ApplyInv, On, AllExist, envDir, cluster, local
  <1>21. CASE UNCHANGED vars
    BY <1>21 DEF vars, ApplyInv, On, AllExist, envDir, cluster, local
  <1> QED
    BY <1>1, <1>2, <1>3, <1>4, <1>5, <1>6, <1>7, <1>8, <1>9, <1>10, <1>11,
       <1>12, <1>13, <1>14, <1>15, <1>16, <1>17, <1>18, <1>19, <1>20, <1>21 DEF Next, Progress, Stay

LEMMA ShownNext == TypeOK /\ RunInv /\ SecretInv /\ AdminInv /\ ApplyInv /\ PasswordShown /\ [Next]_vars => PasswordShown'
  <1> SUFFICES ASSUME TypeOK, RunInv, SecretInv, AdminInv, ApplyInv, PasswordShown, [Next]_vars PROVE PasswordShown'
    OBVIOUS
  <1> USE SecretsFacts, SwallowedStay
  <1> USE DEF Goto
  <1>1. CASE Begin
    BY <1>1 DEF Begin, PasswordShown, AdminSecrets, envDir, cluster, local
  <1>2. CASE ProcessValues
    BY <1>2 DEF ProcessValues, PasswordShown, AdminSecrets, envDir, cluster, local
  <1>3. CASE ExistingCert
    BY <1>3 DEF ExistingCert, PasswordShown, AdminSecrets, envDir, cluster, local
  <1>4. CASE GenerateKeyPair
    BY <1>4 DEF GenerateKeyPair, PasswordShown, AdminSecrets, envDir, cluster, local
  <1>5. CASE CreateKeySecret
    BY <1>5 DEF CreateKeySecret, PasswordShown, AdminSecrets, envDir, cluster, local
  <1>6. CASE WriteManifest
    BY <1>6 DEF WriteManifest, PasswordShown, AdminSecrets, envDir, cluster, local
  <1>7. CASE BootstrapGit
    BY <1>7 DEF BootstrapGit, PasswordShown, AdminSecrets, envDir, cluster, local
  <1>8. CASE DeployController
    BY <1>8 DEF DeployController, PasswordShown, AdminSecrets, envDir, cluster, local
  <1>9. CASE ApplyManifest
    BY <1>9 DEF ApplyManifest, PasswordShown, AdminSecrets, envDir, cluster, local
  <1>10. CASE CheckSecrets
    BY <1>10 DEF CheckSecrets, PasswordShown, AdminSecrets, envDir, cluster, local
  <1>11. CASE RestartController
    BY <1>11 DEF RestartController, PasswordShown, AdminSecrets, envDir, cluster, local
  <1>12. CASE WaitForSecrets
    BY <1>12 DEF WaitForSecrets, PasswordShown, AdminSecrets, envDir, cluster, local
  <1>13. CASE WaitTimesOut
    BY <1>13 DEF WaitTimesOut, PasswordShown, AdminSecrets, envDir, cluster, local
  <1>14. CASE Commit
    BY <1>14 DEF Commit, PasswordShown, AdminSecrets, envDir, cluster, local
  <1>15. CASE SetUp
    <2> SUFFICES ASSUME swallowed' \cap {"apply", "list"} = {} PROVE PasswordShown'
      BY DEF PasswordShown
    <2>1. "apply" \notin swallowed /\ "list" \notin swallowed'
      BY SwallowedStay
    <2>2. run \in Runs /\ <<Admin, run>> \in Names /\ disk[<<Admin, run>>] # NoManifest
      BY <1>15, NameFacts DEF SetUp, RunInv, AdminInv, InstallSteps
    <2>3. <<Admin, run>> \in AdminSecrets
      BY <1>15, <2>1, <2>2 DEF SetUp, ApplyInv, On, AdminSecrets
    <2>4. shown' \in {secrets[n] : n \in AdminSecrets}
      BY <1>15, <2>1, <2>3 DEF SetUp, Swallow
    <2>5. PICK n \in AdminSecrets : shown' = secrets[n]
      BY <2>4
    <2>6. UNCHANGED secrets
      BY <1>15 DEF SetUp
    <2> QED
      BY <2>5, <2>6 DEF PasswordShown, AdminSecrets
  <1>16. CASE UnsealAny
    <2> SUFFICES ASSUME (pc = "done" /\ swallowed \cap {"apply", "list"} = {})' PROVE PasswordShown'
      BY DEF PasswordShown
    <2>1. PICK n \in Names : Unseal(n)
      BY <1>16 DEF UnsealAny
    <2>2. UNCHANGED <<pc, swallowed, shown>>
      BY <2>1 DEF Unseal
    <2>3. PICK k \in AdminSecrets : shown # None /\ secrets[k] = shown
      BY <2>2 DEF PasswordShown
    <2>4. k \in Names /\ k # CA /\ k[1] = Admin /\ secrets[k] = k[2]
      BY <2>3, NameFacts DEF AdminSecrets, SecretInv, OwnSecret
    <2>5. n # k
      BY <2>1, <2>4 DEF Unseal, SecretInv, OwnSecret
    <2>6. secrets'[k] = secrets[k]
      BY <2>1, <2>4, <2>5 DEF Unseal, TypeOK
    <2> QED
      BY <2>2, <2>3, <2>4, <2>6 DEF PasswordShown, AdminSecrets
  <1>17. CASE BootstrapFails
    BY <1>17 DEF BootstrapFails, PasswordShown, AdminSecrets, envDir, cluster, local
  <1>18. CASE InstallFails
    BY <1>18 DEF InstallFails, PasswordShown, AdminSecrets, envDir, cluster, local
  <1>19. CASE Crash
    BY <1>19 DEF Crash, PasswordShown, AdminSecrets, envDir, cluster, local
  <1>20. CASE Evict
    BY <1>20 DEF Evict, PasswordShown, AdminSecrets, envDir, cluster, local
  <1>21. CASE UNCHANGED vars
    BY <1>21 DEF vars, PasswordShown, AdminSecrets, envDir, cluster, local
  <1> QED
    BY <1>1, <1>2, <1>3, <1>4, <1>5, <1>6, <1>7, <1>8, <1>9, <1>10, <1>11,
       <1>12, <1>13, <1>14, <1>15, <1>16, <1>17, <1>18, <1>19, <1>20, <1>21 DEF Next, Progress, Stay

SecretsInv == SecretInv /\ AdminInv /\ ApplyInv /\ PasswordShown

LEMMA SecretsInvariant == Spec => []SecretsInv
  <1>1. Init => SecretsInv
    <2> SUFFICES ASSUME Init PROVE SecretsInv
      OBVIOUS
    <2>1. \A n \in Names : /\ disk[n] = NoManifest /\ committed.manifests[n] = NoManifest
                           /\ resources[n] = NoManifest /\ secrets[n] = None
      BY DEF Init
    <2> QED
      BY <2>1 DEF Init, SecretsInv, SecretInv, AdminInv, ApplyInv, PasswordShown, InstallSteps
  <1>2. TypeOK /\ RunInv /\ SecretsInv /\ [Next]_vars => SecretsInv'
    BY SecretNext, AdminNext, ApplyNext, ShownNext DEF SecretsInv
  <1> QED
    BY <1>1, <1>2, SecretsTypes, RunKnown, PTL DEF Spec

\* What is committed and set up has its Secrets, for all faults but a failed apply,
\* which is passed over.
THEOREM InstalledHasSecrets == Spec => []SecretsReady
  <1>1. SecretsInv => SecretsReady
    BY DEF SecretsInv, ApplyInv, SecretsReady
  <1> QED
    BY <1>1, SecretsInvariant, PTL

\* An installation that is done shows a password that a user's Secret holds and keeps,
\* for every number of bootstraps, whose Secrets stay behind.
THEOREM ShownIsReal == Spec => []PasswordShown
  <1>1. SecretsInv => PasswordShown
    BY DEF SecretsInv
  <1> QED
    BY <1>1, SecretsInvariant, PTL

=============================================================================
