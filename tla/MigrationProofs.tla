--------------------------- MODULE MigrationProofs ---------------------------
(***************************************************************************)
(* Proofs about Migration, for any number of changes, any sets of apps and *)
(* removed files and all faults: values that claim to be migrated are,     *)
(* passwords survive, and the change that pauses the external secrets      *)
(* operator is repeated as long as it is down.                             *)
(***************************************************************************)
EXTENDS Migration, TLAPS

LEMMA MigrationFacts ==
    /\ Latest \in Nat /\ Latest >= 1
    /\ SecretsChange \in 1..Latest /\ SecretsChange \notin Removals
    /\ Removals \subseteq Changes /\ Enabled \subseteq Apps
    /\ Changes = 1..Latest /\ VersionsFile = 0 /\ NoVersion = 0 /\ VersionsFile \notin Changes
    /\ None # "old" /\ None # "new"
  BY MigrationAssumption DEF Changes, VersionsFile, NoVersion, None

LEMMA TreeFacts ==
    ASSUME NEW tree \in Tree
    PROVE  /\ tree.version \in 0..Latest /\ tree.done \in SUBSET Changes /\ tree.manifests \in SUBSET Apps
           /\ \A v \in 0..Latest : [tree EXCEPT !.version = v] \in Tree
           /\ \A s \in SUBSET Changes : [tree EXCEPT !.done = s] \in Tree
           /\ \A m \in SUBSET Apps : [tree EXCEPT !.manifests = m] \in Tree
  BY DEF Tree

LEMMA MishapsStay == ASSUME [Next]_vars PROVE mishaps \subseteq mishaps'
  <1> USE DEF NoFault
  <1>1. CASE Begin
    BY <1>1 DEF Begin
  <1>2. CASE WriteDefaults
    BY <1>2 DEF WriteDefaults
  <1>3. CASE Migrate
    BY <1>3 DEF Migrate
  <1>4. CASE ChangeValues
    BY <1>4 DEF ChangeValues
  <1>5. CASE RemoveFile
    BY <1>5 DEF RemoveFile
  <1>6. CASE EndChanges
    BY <1>6 DEF EndChanges
  <1>7. CASE MigrateGeneratedSecrets
    BY <1>7 DEF MigrateGeneratedSecrets
  <1>8. CASE PauseSync
    BY <1>8 DEF PauseSync
  <1>9. CASE ScaleDown
    BY <1>9 DEF ScaleDown
  <1>30. CASE ApplyCrd
    BY <1>30 DEF ApplyCrd
  <1>10. CASE CopySecret
    BY <1>10 DEF CopySecret
  <1>11. CASE EndCopies
    BY <1>11 DEF EndCopies
  <1>12. CASE DiscardManifest
    BY <1>12 DEF DiscardManifest
  <1>13. CASE EndDiscards
    BY <1>13 DEF EndDiscards
  <1>14. CASE Resume
    BY <1>14 DEF Resume
  <1>15. CASE EndWrite
    BY <1>15 DEF EndWrite
  <1>16. CASE Commit
    BY <1>16 DEF Commit
  <1>17. CASE Deploy
    BY <1>17 DEF Deploy
  <1>18. CASE WriteFile
    BY <1>18 DEF WriteFile
  <1>19. CASE ResumeFails
    BY <1>19 DEF ResumeFails
  <1>20. CASE WriteFails
    BY <1>20 DEF WriteFails
  <1>21. CASE RunFails
    BY <1>21 DEF RunFails
  <1>22. CASE Reset
    BY <1>22 DEF Reset
  <1>23. CASE Pull
    BY <1>23 DEF Pull
  <1>24. CASE Crash
    BY <1>24 DEF Crash
  <1>25. CASE Evict
    BY <1>25 DEF Evict
  <1>26. CASE Prune
    BY <1>26 DEF Prune
  <1>27. CASE SelfHeal
    BY <1>27 DEF SelfHeal
  <1>28. CASE Generate
    BY <1>28 DEF Generate
  <1>29. CASE UNCHANGED vars
    BY <1>29 DEF vars
  <1> QED
    BY <1>1, <1>2, <1>3, <1>4, <1>5, <1>6, <1>7, <1>8, <1>9, <1>10,
       <1>11, <1>12, <1>13, <1>14, <1>15, <1>16, <1>17, <1>18, <1>19, <1>20,
       <1>21, <1>22, <1>23, <1>24, <1>25, <1>26, <1>27, <1>28, <1>29, <1>30 DEF Next, Run

LEMMA TypeInit == Init => TypeOK
  <1> SUFFICES ASSUME Init PROVE TypeOK
    OBVIOUS
  <1>1. PICK v \in 1..Latest :
          disk = [version |-> v, done |-> 1..v,
                  manifests |-> IF v >= SecretsChange THEN {} ELSE Apps]
    BY DEF Init
  <1>2. disk \in Tree /\ remote \in Tree
    <2>1. v \in 0..Latest /\ 1..v \in SUBSET Changes
      BY MigrationFacts
    <2> QED
      BY <1>1, <2>1 DEF Init, Tree
  <1>3. secrets \subseteq Apps
    BY <1>2, TreeFacts DEF Init
  <1>4. copies \in [Apps -> {None, "old", "new"}]
    BY DEF Init
  <1> QED
    BY <1>2, <1>3, <1>4 DEF Init, TypeOK

LEMMA TypeNext == TypeOK /\ [Next]_vars => TypeOK'
  <1> SUFFICES ASSUME TypeOK, [Next]_vars PROVE TypeOK'
    OBVIOUS
  <1> USE MigrationFacts
  <1> USE DEF Goto, NoFault, Fault, TypeOK, Steps
  <1>1. CASE Begin
    BY <1>1 DEF Begin, envDir, local, cluster
  <1>2. CASE WriteDefaults
    <2>1. disk' \in Tree
      BY <1>2, TreeFacts DEF WriteDefaults
    <2> QED
      BY <1>2, <2>1 DEF WriteDefaults, cluster, local
  <1>3. CASE Migrate
    <2>1. values' \subseteq Changes /\ todo' \subseteq Changes /\ pc' \in {"commit", "change"}
      BY <1>3, TreeFacts DEF Migrate, FilterChanges
    <2> QED
      BY <1>3, <2>1 DEF Migrate, envDir, cluster
  <1>4. CASE ChangeValues
    BY <1>4 DEF ChangeValues, envDir, local, cluster
  <1>5. CASE RemoveFile
    <2>1. PICK c \in Removals : /\ disk' = [disk EXCEPT !.done = @ \cup {c}]
                               /\ values' = values \cup {c} /\ todo' = todo \ {c}
      BY <1>5 DEF RemoveFile
    <2>2. disk' \in Tree
      BY <2>1, TreeFacts
    <2> QED
      BY <1>5, <2>1, <2>2 DEF RemoveFile, cluster
  <1>6. CASE EndChanges
    BY <1>6 DEF EndChanges, envDir, local, cluster
  <1>7. CASE MigrateGeneratedSecrets
    BY <1>7 DEF MigrateGeneratedSecrets, ReadSecrets, envDir, local, cluster
  <1>8. CASE PauseSync
    BY <1>8 DEF PauseSync, envDir, local, cluster
  <1>9. CASE ScaleDown
    BY <1>9 DEF ScaleDown, envDir, local, cluster
  <1>30. CASE ApplyCrd
    BY <1>30 DEF ApplyCrd, envDir, local, cluster
  <1>10. CASE CopySecret
    <2>1. PICK a \in tocopy : IF copies[a] = None
                             THEN /\ copies' = [copies EXCEPT ![a] = "old"]
                                  /\ tocopy' = tocopy \ {a}
                             ELSE copies' = [copies EXCEPT ![a] = None] /\ UNCHANGED tocopy
      BY <1>10 DEF CopySecret
    <2>2. copies' \in [Apps -> {None, "old", "new"}] /\ tocopy' \subseteq Apps
      BY <2>1
    <2> QED
      BY <1>10, <2>2 DEF CopySecret, envDir
  <1>11. CASE EndCopies
    BY <1>11 DEF EndCopies, envDir, local, cluster
  <1>12. CASE DiscardManifest
    <2>1. disk' \in Tree
      BY <1>12, TreeFacts DEF DiscardManifest
    <2> QED
      BY <1>12, <2>1 DEF DiscardManifest, cluster, local
  <1>13. CASE EndDiscards
    BY <1>13 DEF EndDiscards, envDir, local, cluster
  <1>14. CASE Resume
    BY <1>14 DEF Resume, envDir, local, cluster
  <1>15. CASE EndWrite
    BY <1>15 DEF EndWrite, envDir, local, cluster
  <1>16. CASE Commit
    <2>1. disk' \in Tree /\ remote' \in Tree
      BY <1>16 DEF Commit
    <2>2. mishaps' = mishaps /\ faults' \in Nat /\ pc' \in Steps \cup {"idle"}
      BY <1>16 DEF Commit
    <2> QED
      BY <1>16, <2>1, <2>2 DEF Commit, local, cluster
  <1>17. CASE Deploy
    <2>1. deployed' \subseteq Changes
      BY <1>17, TreeFacts DEF Deploy
    <2> QED
      BY <1>17, <2>1 DEF Deploy, envDir, local
  <1>18. CASE WriteFile
    <2>1. PICK f \in pending : disk' = Written(f) /\ pending' = pending \ {f}
      BY <1>18 DEF WriteFile
    <2>2. CASE f = VersionsFile
      BY <2>1, <2>2, TreeFacts, <1>18 DEF Written, WriteFile, cluster, local
    <2>3. CASE f # VersionsFile
      <3>1. disk.done \cup {f} \in SUBSET Changes
        BY <2>1, <2>3, TreeFacts
      <3>2. disk' \in Tree
        BY <2>1, <2>3, <3>1, TreeFacts DEF Written
      <3> QED
        BY <1>18, <2>1, <3>2 DEF WriteFile, cluster, local
    <2> QED
      BY <2>2, <2>3
  <1>19. CASE ResumeFails
    <2>1. faults' \in Nat
      BY <1>19 DEF ResumeFails
    <2>2. eso' \in BOOLEAN
      BY <1>19, Zenon DEF ResumeFails
    <2> QED
      BY <1>19, <2>1, <2>2 DEF ResumeFails, envDir
  <1>20. CASE WriteFails
    BY <1>20 DEF WriteFails, envDir, local, cluster
  <1>21. CASE RunFails
    <2>1. faults' \in Nat
      BY <1>21 DEF RunFails
    <2>2. failed' \in BOOLEAN /\ pc' \in {"resume", "idle"}
      BY <1>21, Zenon DEF RunFails
    <2> QED
      BY <1>21, <2>1, <2>2 DEF RunFails, cluster, envDir
  <1>22. CASE Reset
    BY <1>22 DEF Reset, envDir, local, cluster
  <1>23. CASE Pull
    BY <1>23 DEF Pull, envDir, local, cluster
  <1>24. CASE Crash
    <2>1. disk' \in Tree
      BY <1>24, TreeFacts DEF Crash
    <2>2. mishaps' \subseteq {"write", "reset", "crash", "cut"} /\ faults' \in Nat
      BY <1>24 DEF Crash
    <2> QED
      BY <1>24, <2>1, <2>2 DEF Crash, cluster
  <1>25. CASE Evict
    <2>1. mishaps' \subseteq {"write", "reset", "crash", "cut"} /\ faults' \in Nat
      BY <1>25 DEF Evict
    <2>2. disk' \in Tree /\ pending' = {} /\ failed' \in BOOLEAN /\ pc' = "idle"
      BY <1>25 DEF Evict
    <2> QED
      BY <1>25, <2>1, <2>2 DEF Evict, cluster
  <1>26. CASE Prune
    BY <1>26 DEF Prune, envDir, local, cluster
  <1>27. CASE SelfHeal
    BY <1>27 DEF SelfHeal, envDir, local, cluster
  <1>28. CASE Generate
    BY <1>28 DEF Generate, envDir, local, cluster
  <1>29. CASE UNCHANGED vars
    BY <1>29 DEF vars, envDir, local, cluster
  <1> QED
    BY <1>1, <1>2, <1>3, <1>4, <1>5, <1>6, <1>7, <1>8, <1>9, <1>10,
       <1>11, <1>12, <1>13, <1>14, <1>15, <1>16, <1>17, <1>18, <1>19, <1>20,
       <1>21, <1>22, <1>23, <1>24, <1>25, <1>26, <1>27, <1>28, <1>29, <1>30 DEF Next, Run

\* The types hold in every reachable state, of both trees, whatever is cut off.
THEOREM MigrationTypes == Spec => []TypeOK
  BY TypeInit, TypeNext, PTL DEF Spec

-----------------------------------------------------------------------------
(* Versions and what they stand for.                                       *)

Undisturbed == mishaps \cap {"cut", "write", "reset"} = {}

Migrating == {"change", "pause", "scale", "crd", "copy", "discard", "resume"}

\* Versions only go up, from one that there is, and only the latest is committed or
\* deployed; writes are those of the run.
VersionInv ==
    Undisturbed =>
        /\ pending # {} => pc = "write"
        /\ remote.version >= 1 /\ remote.version <= disk.version
        /\ pc = "write" => VersionsFile \in pending \/ disk.version = Latest
        /\ pc \in {"commit", "deploy"} => disk.version = Latest
        /\ pc = "deploy" \/ deployed # {} => remote.version = Latest

\* A version comes with its changes, on disk or in the writes under way; in memory,
\* changes are applied or still to be, and a file whose removal was applied is gone.
ChangesInv ==
    Undisturbed /\ "crash" \notin mishaps =>
        /\ 1..disk.version \subseteq disk.done \cup pending
        /\ 1..remote.version \subseteq remote.done
        /\ pc \in Migrating => Changes \subseteq values \cup todo /\ values \cap Removals \subseteq disk.done
        /\ pc = "write" => Changes \subseteq disk.done \cup pending
        /\ pc \in {"commit", "deploy"} => disk.done = Changes
        /\ deployed \in {{}, Changes}

LEMMA VersionNext == TypeOK /\ VersionInv /\ [Next]_vars => VersionInv'
  <1> SUFFICES ASSUME TypeOK, VersionInv, [Next]_vars PROVE VersionInv'
    OBVIOUS
  <1> USE MigrationFacts, MishapsStay
  <1> USE DEF NoFault
  <1>1. CASE Begin
    BY <1>1 DEF Begin, VersionInv, Undisturbed, Goto, envDir, local, cluster
  <1>2. CASE WriteDefaults
    <2> SUFFICES ASSUME Undisturbed' PROVE VersionInv'
      BY DEF VersionInv
    <2>1. Undisturbed
      BY DEF Undisturbed
    <2>2. disk.version >= 1
      BY <2>1 DEF VersionInv, TypeOK, Tree
    <2>3. disk'.version = disk.version
      BY <1>2, <2>2 DEF WriteDefaults, TypeOK, Tree
    <2> QED
      BY <1>2, <2>1, <2>3 DEF WriteDefaults, VersionInv, Goto, local, cluster
  <1>3. CASE Migrate
    <2> SUFFICES ASSUME Undisturbed' PROVE VersionInv'
      BY DEF VersionInv
    <2>1. Undisturbed
      BY DEF Undisturbed
    <2>2. disk.version \in 1..Latest
      BY <2>1, TreeFacts DEF VersionInv, TypeOK
    <2>3. FilterChanges(disk.version) = {} => disk.version = Latest
      BY <2>2 DEF FilterChanges
    <2> QED
      BY <1>3, <2>1, <2>2, <2>3 DEF Migrate, VersionInv, Goto, envDir, cluster
  <1>4. CASE ChangeValues
    BY <1>4 DEF ChangeValues, VersionInv, Undisturbed, Goto, envDir, local, cluster
  <1>5. CASE RemoveFile
    <2> SUFFICES ASSUME Undisturbed' PROVE VersionInv'
      BY DEF VersionInv
    <2>1. Undisturbed
      BY DEF Undisturbed
    <2>2. disk'.version = disk.version
      BY <1>5 DEF RemoveFile, TypeOK, Tree
    <2> QED
      BY <1>5, <2>1, <2>2 DEF RemoveFile, VersionInv, Goto, local, cluster
  <1>6. CASE EndChanges
    BY <1>6 DEF EndChanges, VersionInv, Undisturbed, Goto, envDir, local, cluster
  <1>7. CASE MigrateGeneratedSecrets
    BY <1>7 DEF MigrateGeneratedSecrets, VersionInv, Undisturbed, Goto, envDir, local, cluster
  <1>8. CASE PauseSync
    BY <1>8 DEF PauseSync, VersionInv, Undisturbed, Goto, envDir, local, cluster
  <1>9. CASE ScaleDown
    BY <1>9 DEF ScaleDown, VersionInv, Undisturbed, Goto, envDir, local, cluster
  <1>30. CASE ApplyCrd
    BY <1>30 DEF ApplyCrd, VersionInv, Undisturbed, Goto, envDir, local, cluster
  <1>10. CASE CopySecret
    BY <1>10 DEF CopySecret, VersionInv, Undisturbed, Goto, envDir, local, cluster
  <1>11. CASE EndCopies
    BY <1>11 DEF EndCopies, VersionInv, Undisturbed, Goto, envDir, local, cluster
  <1>12. CASE DiscardManifest
    <2> SUFFICES ASSUME Undisturbed' PROVE VersionInv'
      BY DEF VersionInv
    <2>1. Undisturbed
      BY DEF Undisturbed
    <2>2. disk'.version = disk.version
      BY <1>12 DEF DiscardManifest, TypeOK, Tree
    <2> QED
      BY <1>12, <2>1, <2>2 DEF DiscardManifest, VersionInv, Goto, local, cluster
  <1>13. CASE EndDiscards
    BY <1>13 DEF EndDiscards, VersionInv, Undisturbed, Goto, envDir, local, cluster
  <1>14. CASE Resume
    BY <1>14 DEF Resume, VersionInv, Undisturbed, Goto, envDir, local, cluster
  <1>15. CASE EndWrite
    BY <1>15 DEF EndWrite, VersionInv, Undisturbed, Goto, AllWritten, envDir, local, cluster
  <1>16. CASE Commit
    <2> SUFFICES ASSUME Undisturbed' PROVE VersionInv'
      BY DEF VersionInv
    <2>1. Undisturbed
      BY DEF Undisturbed
    <2>2. disk.version \in 0..Latest
      BY TreeFacts DEF TypeOK
    <2> QED
      BY <1>16, <2>1, <2>2 DEF Commit, VersionInv, Goto, cluster, local
  <1>17. CASE Deploy
    <2> SUFFICES ASSUME Undisturbed' PROVE VersionInv'
      BY DEF VersionInv
    <2>1. Undisturbed
      BY DEF Undisturbed
    <2>2. disk.version = Latest
      BY <1>17, <2>1 DEF Deploy, VersionInv
    <2> QED
      BY <1>17, <2>1, <2>2 DEF Deploy, VersionInv, Goto, envDir, local
  <1>18. CASE WriteFile
    <2> SUFFICES ASSUME Undisturbed' PROVE VersionInv'
      BY DEF VersionInv
    <2>1. Undisturbed
      BY DEF Undisturbed
    <2>2. PICK f \in pending : disk' = Written(f) /\ pending' = pending \ {f}
      BY <1>18 DEF WriteFile
    <2>3. disk'.version = IF f = VersionsFile THEN Latest ELSE disk.version
      BY <2>2 DEF Written, TypeOK, Tree
    <2>4. disk.version \in 0..Latest /\ remote.version \in 0..Latest
      BY TreeFacts DEF TypeOK
    <2> QED
      BY <1>18, <2>1, <2>2, <2>3, <2>4 DEF WriteFile, VersionInv, local, cluster
  <1>19. CASE ResumeFails
    BY <1>19 DEF ResumeFails, VersionInv, Undisturbed, Goto, envDir, local, cluster
  <1>20. CASE WriteFails
    BY <1>20 DEF WriteFails, VersionInv, Undisturbed
  <1>21. CASE RunFails
    BY <1>21 DEF RunFails, VersionInv, Undisturbed, Goto, envDir, local, cluster
  <1>22. CASE Reset
    BY <1>22 DEF Reset, VersionInv, Undisturbed
  <1>23. CASE Pull
    BY <1>23 DEF Pull, VersionInv, Undisturbed, Goto, TypeOK, Tree, envDir, local, cluster
  <1>24. CASE Crash
    BY <1>24 DEF Crash, VersionInv, Undisturbed, Goto, cluster
  <1>25. CASE Evict
    BY <1>25 DEF Evict, VersionInv, Undisturbed, Goto, TypeOK, Tree, envDir, local, cluster
  <1>26. CASE Prune
    BY <1>26 DEF Prune, VersionInv, Undisturbed, Goto, envDir, local, cluster
  <1>27. CASE SelfHeal
    BY <1>27 DEF SelfHeal, VersionInv, Undisturbed, Goto, envDir, local, cluster
  <1>28. CASE Generate
    BY <1>28 DEF Generate, VersionInv, Undisturbed, Goto, envDir, local, cluster
  <1>29. CASE UNCHANGED vars
    BY <1>29 DEF vars, VersionInv, Undisturbed, Goto, envDir, local, cluster
  <1> QED
    BY <1>1, <1>2, <1>3, <1>4, <1>5, <1>6, <1>7, <1>8, <1>9, <1>10,
       <1>11, <1>12, <1>13, <1>14, <1>15, <1>16, <1>17, <1>18, <1>19, <1>20,
       <1>21, <1>22, <1>23, <1>24, <1>25, <1>26, <1>27, <1>28, <1>29, <1>30 DEF Next, Run

LEMMA ChangesNext == TypeOK /\ VersionInv /\ ChangesInv /\ [Next]_vars => ChangesInv'
  <1> SUFFICES ASSUME TypeOK, VersionInv, ChangesInv, [Next]_vars PROVE ChangesInv'
    OBVIOUS
  <1> USE MigrationFacts, MishapsStay
  <1> USE DEF NoFault
  <1>1. CASE Begin
    BY <1>1 DEF Begin, ChangesInv, Migrating, Undisturbed, Goto, envDir, local, cluster
  <1>2. CASE WriteDefaults
    <2> SUFFICES ASSUME Undisturbed', "crash" \notin mishaps' PROVE ChangesInv'
      BY DEF ChangesInv
    <2>1. Undisturbed /\ "crash" \notin mishaps
      BY DEF Undisturbed
    <2>2. disk.version >= 1
      BY <2>1 DEF VersionInv, TypeOK, Tree
    <2>3. disk'.version = disk.version /\ disk'.done = disk.done
      BY <1>2, <2>2 DEF WriteDefaults, TypeOK, Tree
    <2> QED
      BY <1>2, <2>1, <2>3 DEF WriteDefaults, ChangesInv, Migrating, Goto, local, cluster
  <1>3. CASE Migrate
    <2> SUFFICES ASSUME Undisturbed', "crash" \notin mishaps' PROVE ChangesInv'
      BY DEF ChangesInv
    <2>1. Undisturbed /\ "crash" \notin mishaps
      BY DEF Undisturbed
    <2>2. disk.version \in 1..Latest /\ pending = {} /\ disk.done \subseteq Changes
      BY <1>3, <2>1, TreeFacts DEF Migrate, VersionInv, TypeOK
    <2>3. 1..disk.version \subseteq disk.done
      BY <2>1, <2>2 DEF ChangesInv
    <2>4. UNCHANGED <<disk, remote, pending, deployed>>
      BY <1>3 DEF Migrate, envDir, cluster
    <2>5. CASE FilterChanges(disk.version) = {}
      <3>1. disk.version = Latest
        BY <2>2, <2>5 DEF FilterChanges
      <3>2. disk.done = Changes /\ pc' = "commit"
        BY <1>3, <2>2, <2>3, <2>5, <3>1 DEF Migrate, Goto
      <3> QED
        BY <2>1, <2>4, <3>2 DEF ChangesInv, Migrating
    <2>6. CASE FilterChanges(disk.version) # {}
      <3>1. values' = disk.done /\ todo' = FilterChanges(disk.version) /\ pc' = "change"
        BY <1>3, <2>2, <2>6 DEF Migrate, Goto
      <3>2. Changes \subseteq values' \cup todo'
        BY <2>2, <2>3, <3>1 DEF FilterChanges
      <3> QED
        BY <2>1, <2>4, <3>1, <3>2 DEF ChangesInv, Migrating
    <2> QED
      BY <2>5, <2>6
  <1>4. CASE ChangeValues
    BY <1>4 DEF ChangeValues, ChangesInv, Migrating, Undisturbed, Goto, envDir, local, cluster
  <1>5. CASE RemoveFile
    <2> SUFFICES ASSUME Undisturbed', "crash" \notin mishaps' PROVE ChangesInv'
      BY DEF ChangesInv
    <2>1. Undisturbed /\ "crash" \notin mishaps
      BY DEF Undisturbed
    <2>2. PICK c \in Removals : /\ disk' = [disk EXCEPT !.done = @ \cup {c}]
                               /\ values' = values \cup {c} /\ todo' = todo \ {c}
      BY <1>5 DEF RemoveFile
    <2>3. disk'.done = disk.done \cup {c} /\ disk'.version = disk.version
      BY <2>2 DEF TypeOK, Tree
    <2>4. pc = "change" /\ UNCHANGED <<remote, pc, pending, deployed>>
      BY <1>5 DEF RemoveFile, Goto, cluster
    <2> QED
      BY <2>1, <2>2, <2>3, <2>4 DEF ChangesInv, Migrating
  <1>6. CASE EndChanges
    <2> SUFFICES ASSUME Undisturbed', "crash" \notin mishaps' PROVE ChangesInv'
      BY DEF ChangesInv
    <2>1. Undisturbed /\ "crash" \notin mishaps
      BY DEF Undisturbed
    <2>2. pending' = {VersionsFile} \cup (values \ Removals) /\ todo = {} /\ pc = "change" /\ pc' = "write"
      BY <1>6 DEF EndChanges, Goto
    <2>3. UNCHANGED <<disk, remote, deployed>>
      BY <1>6 DEF EndChanges, envDir, cluster
    <2>4. Changes \subseteq disk.done \cup pending'
      BY <2>1, <2>2 DEF ChangesInv, Migrating
    <2>5. disk.version \in 0..Latest
      BY TreeFacts DEF TypeOK
    <2> QED
      BY <2>1, <2>2, <2>3, <2>4, <2>5 DEF ChangesInv, Migrating
  <1>7. CASE MigrateGeneratedSecrets
    BY <1>7 DEF MigrateGeneratedSecrets, ChangesInv, Migrating, Undisturbed, Goto, envDir, local, cluster
  <1>8. CASE PauseSync
    BY <1>8 DEF PauseSync, ChangesInv, Migrating, Undisturbed, Goto, envDir, local, cluster
  <1>9. CASE ScaleDown
    BY <1>9 DEF ScaleDown, ChangesInv, Migrating, Undisturbed, Goto, envDir, local, cluster
  <1>30. CASE ApplyCrd
    BY <1>30 DEF ApplyCrd, ChangesInv, Migrating, Undisturbed, Goto, envDir, local, cluster
  <1>10. CASE CopySecret
    BY <1>10 DEF CopySecret, ChangesInv, Migrating, Undisturbed, Goto, envDir, local, cluster
  <1>11. CASE EndCopies
    BY <1>11 DEF EndCopies, ChangesInv, Migrating, Undisturbed, Goto, envDir, local, cluster
  <1>12. CASE DiscardManifest
    <2> SUFFICES ASSUME Undisturbed', "crash" \notin mishaps' PROVE ChangesInv'
      BY DEF ChangesInv
    <2>1. Undisturbed /\ "crash" \notin mishaps
      BY DEF Undisturbed
    <2>2. disk'.done = disk.done /\ disk'.version = disk.version
      BY <1>12 DEF DiscardManifest, TypeOK, Tree
    <2> QED
      BY <1>12, <2>1, <2>2 DEF DiscardManifest, ChangesInv, Migrating, Goto, local, cluster
  <1>13. CASE EndDiscards
    BY <1>13 DEF EndDiscards, ChangesInv, Migrating, Undisturbed, Goto, envDir, local, cluster
  <1>14. CASE Resume
    BY <1>14 DEF Resume, ChangesInv, Migrating, Undisturbed, Goto, envDir, local, cluster
  <1>15. CASE EndWrite
    <2> SUFFICES ASSUME Undisturbed', "crash" \notin mishaps' PROVE ChangesInv'
      BY DEF ChangesInv
    <2>1. Undisturbed /\ "crash" \notin mishaps
      BY DEF Undisturbed
    <2>2. disk.done = Changes
      BY <1>15, <2>1, TreeFacts DEF EndWrite, AllWritten, ChangesInv, TypeOK
    <2> QED
      BY <1>15, <2>1, <2>2 DEF EndWrite, ChangesInv, Migrating, Goto, envDir, local, cluster
  <1>16. CASE Commit
    <2> SUFFICES ASSUME Undisturbed', "crash" \notin mishaps' PROVE ChangesInv'
      BY DEF ChangesInv
    <2>1. Undisturbed /\ "crash" \notin mishaps
      BY DEF Undisturbed
    <2>2. disk.done = Changes /\ disk.version \in 0..Latest /\ UNCHANGED disk
      BY <1>16, <2>1, TreeFacts DEF Commit, ChangesInv, TypeOK
    <2> QED
      BY <1>16, <2>1, <2>2 DEF Commit, ChangesInv, Migrating, Goto, cluster, local
  <1>17. CASE Deploy
    BY <1>17 DEF Deploy, ChangesInv, Migrating, Undisturbed, Goto, envDir, local, cluster
  <1>18. CASE WriteFile
    <2> SUFFICES ASSUME Undisturbed', "crash" \notin mishaps' PROVE ChangesInv'
      BY DEF ChangesInv
    <2>1. Undisturbed /\ "crash" \notin mishaps
      BY DEF Undisturbed
    <2>2. PICK f \in pending : disk' = Written(f) /\ pending' = pending \ {f}
      BY <1>18 DEF WriteFile
    <2>3. disk'.done = IF f = VersionsFile THEN disk.done ELSE disk.done \cup {f}
      BY <2>2 DEF Written, TypeOK, Tree
    <2>4. pc = "write" /\ disk'.version \in 0..Latest
      BY <1>18, <2>1, <2>2, TypeNext, TreeFacts DEF VersionInv, TypeOK
    <2>5. Changes \subseteq disk'.done \cup pending'
      BY <2>1, <2>2, <2>3, <2>4 DEF ChangesInv
    <2>6. UNCHANGED <<remote, pc, deployed>>
      BY <1>18 DEF WriteFile, cluster
    <2> QED
      BY <2>1, <2>4, <2>5, <2>6 DEF ChangesInv, Migrating
  <1>19. CASE ResumeFails
    BY <1>19 DEF ResumeFails, ChangesInv, Migrating, Undisturbed, Goto, envDir, local, cluster
  <1>20. CASE WriteFails
    BY <1>20 DEF WriteFails, ChangesInv, Undisturbed
  <1>21. CASE RunFails
    BY <1>21 DEF RunFails, ChangesInv, Migrating, Undisturbed, Goto, InTry, Steps, envDir, local, cluster
  <1>22. CASE Reset
    BY <1>22 DEF Reset, ChangesInv, Undisturbed
  <1>23. CASE Pull
    <2> SUFFICES ASSUME Undisturbed', "crash" \notin mishaps' PROVE ChangesInv'
      BY DEF ChangesInv
    <2>1. Undisturbed /\ "crash" \notin mishaps
      BY DEF Undisturbed
    <2>2. disk' = remote /\ pc = "idle" /\ UNCHANGED <<remote, pc, pending, deployed>>
      BY <1>23 DEF Pull, cluster
    <2> QED
      BY <2>1, <2>2 DEF ChangesInv, Migrating
  <1>24. CASE Crash
    BY <1>24 DEF Crash, ChangesInv, Undisturbed
  <1>25. CASE Evict
    BY <1>25 DEF Evict, ChangesInv, Undisturbed
  <1>26. CASE Prune
    BY <1>26 DEF Prune, ChangesInv, Migrating, Undisturbed, Goto, envDir, local, cluster
  <1>27. CASE SelfHeal
    BY <1>27 DEF SelfHeal, ChangesInv, Migrating, Undisturbed, Goto, envDir, local, cluster
  <1>28. CASE Generate
    BY <1>28 DEF Generate, ChangesInv, Migrating, Undisturbed, Goto, envDir, local, cluster
  <1>29. CASE UNCHANGED vars
    BY <1>29 DEF vars, ChangesInv, Migrating, Undisturbed, Goto, envDir, local, cluster
  <1> QED
    BY <1>1, <1>2, <1>3, <1>4, <1>5, <1>6, <1>7, <1>8, <1>9, <1>10,
       <1>11, <1>12, <1>13, <1>14, <1>15, <1>16, <1>17, <1>18, <1>19, <1>20,
       <1>21, <1>22, <1>23, <1>24, <1>25, <1>26, <1>27, <1>28, <1>29, <1>30 DEF Next, Run

LEMMA VersionsKnown == Spec => [](TypeOK /\ VersionInv)
  <1>1. Init => VersionInv
    <2> SUFFICES ASSUME Init PROVE VersionInv
      OBVIOUS
    <2>1. disk.version >= 1 /\ remote.version = disk.version
      BY MigrationFacts DEF Init
    <2>2. disk.version <= disk.version
      BY MigrationFacts DEF Init
    <2> QED
      BY <2>1, <2>2 DEF Init, VersionInv
  <1>2. TypeOK /\ VersionInv /\ [Next]_vars => TypeOK' /\ VersionInv'
    BY TypeNext, VersionNext
  <1> QED
    BY <1>1, <1>2, TypeInit, PTL DEF Spec

\* Values of the latest version have all its changes, on the server and in what was
\* deployed, for any number of changes, whatever calls fail and however often runs are
\* repeated, unless their writes were disturbed.
THEOREM MigratedIsTrue == Spec => []RecordedMeansMigrated
  <1>1. Init => ChangesInv
    <2> SUFFICES ASSUME Init PROVE ChangesInv
      OBVIOUS
    <2>1. disk.done = 1..disk.version /\ remote = disk
      BY DEF Init
    <2> QED
      BY <2>1 DEF Init, ChangesInv, Migrating
  <1>2. TypeOK /\ ChangesInv => RecordedMeansMigrated
    <2> SUFFICES ASSUME TypeOK, ChangesInv, mishaps \cap {"write", "crash", "cut", "reset"} = {}
                 PROVE  RecordedMeansMigrated
      BY DEF RecordedMeansMigrated
    <2>1. Undisturbed /\ "crash" \notin mishaps
      BY DEF Undisturbed
    <2>2. remote.done \subseteq Changes
      BY TreeFacts DEF TypeOK
    <2> QED
      BY <2>1, <2>2, MigrationFacts DEF ChangesInv, RecordedMeansMigrated
  <1> QED
    BY <1>1, <1>2, ChangesNext, VersionsKnown, PTL DEF Spec

-----------------------------------------------------------------------------
(* The external secrets operator.                                          *)

Calm == mishaps \cap {"cut", "write"} = {}

\* The steps between pausing the operator and resuming it.
Pausing == {"pause", "scale", "crd", "copy", "discard", "resume"}

\* A run has the change before it as long as its version is not recorded, and is past it
\* with the operator running; only such a run writes.
PauseInv ==
    Calm =>
        /\ pending # {} => pc = "write"
        /\ 1 <= remote.version /\ remote.version <= disk.version
        /\ disk.version >= SecretsChange => eso /\ sync
        /\ pc \in Pausing => disk.version < SecretsChange
        /\ pc = "change" /\ SecretsChange \in todo => disk.version < SecretsChange
        /\ pc = "change" /\ SecretsChange \notin todo => eso /\ sync
        /\ pc = "write" => eso /\ sync

LEMMA PauseNext == TypeOK /\ PauseInv /\ [Next]_vars => PauseInv'
  <1> SUFFICES ASSUME TypeOK, PauseInv, [Next]_vars, Calm' PROVE PauseInv'
    BY DEF PauseInv
  <1> USE MigrationFacts
  <1>0. /\ Calm
        /\ disk.version \in 1..Latest /\ remote.version \in 1..Latest
        /\ disk \in Tree /\ remote \in Tree
    <2>1. Calm
      BY MishapsStay DEF Calm
    <2> QED
      BY <2>1, TreeFacts DEF PauseInv, TypeOK
  <1> USE <1>0
  <1> USE DEF PauseInv, Pausing, Goto, NoFault, Tree
  <1>1. CASE Begin
    BY <1>1 DEF Begin, envDir, local, cluster
  <1>2. CASE WriteDefaults
    <2>1. disk'.version = disk.version
      BY <1>2 DEF WriteDefaults
    <2> QED
      BY <1>2, <2>1 DEF WriteDefaults, local, cluster
  <1>3. CASE Migrate
    <2>1. SecretsChange \in FilterChanges(disk.version) => disk.version < SecretsChange
      BY DEF FilterChanges
    <2>2. SecretsChange \notin FilterChanges(disk.version) => disk.version >= SecretsChange
      BY DEF FilterChanges
    <2> QED
      BY <1>3, <2>1, <2>2 DEF Migrate, envDir, cluster
  <1>4. CASE ChangeValues
    <2>1. PICK c \in Changes \ (Removals \cup {SecretsChange}) : todo' = todo \ {c}
      BY <1>4 DEF ChangeValues
    <2> QED
      BY <1>4, <2>1 DEF ChangeValues, envDir, cluster
  <1>5. CASE RemoveFile
    <2>1. disk'.version = disk.version
      BY <1>5 DEF RemoveFile
    <2> QED
      BY <1>5, <2>1 DEF RemoveFile, cluster
  <1>6. CASE EndChanges
    BY <1>6 DEF EndChanges, envDir, local, cluster
  <1>7. CASE MigrateGeneratedSecrets
    BY <1>7 DEF MigrateGeneratedSecrets, NextChange, envDir, cluster
  <1>8. CASE PauseSync
    BY <1>8 DEF PauseSync, envDir, local, cluster
  <1>9. CASE ScaleDown
    BY <1>9 DEF ScaleDown, envDir, local, cluster
  <1>30. CASE ApplyCrd
    BY <1>30 DEF ApplyCrd, envDir, local, cluster
  <1>10. CASE CopySecret
    BY <1>10 DEF CopySecret, envDir, local, cluster
  <1>11. CASE EndCopies
    BY <1>11 DEF EndCopies, envDir, local, cluster
  <1>12. CASE DiscardManifest
    <2>1. disk'.version = disk.version
      BY <1>12 DEF DiscardManifest
    <2> QED
      BY <1>12, <2>1 DEF DiscardManifest, local, cluster
  <1>13. CASE EndDiscards
    BY <1>13 DEF EndDiscards, envDir, local, cluster
  <1>14. CASE Resume
    BY <1>14 DEF Resume, envDir, local, cluster
  <1>15. CASE EndWrite
    BY <1>15 DEF EndWrite, AllWritten, envDir, local, cluster
  <1>16. CASE Commit
    BY <1>16 DEF Commit, envDir, local, cluster
  <1>17. CASE Deploy
    BY <1>17 DEF Deploy, envDir, local, cluster
  <1>18. CASE WriteFile
    <2>1. PICK f \in pending : disk' = Written(f) /\ pending' = pending \ {f}
      BY <1>18 DEF WriteFile
    <2>2. disk'.version \in {disk.version, Latest}
      BY <2>1 DEF Written
    <2>3. pc = "write" /\ UNCHANGED <<pc, eso, sync, remote>>
      BY <1>18, <2>1 DEF WriteFile, cluster
    <2> QED
      BY <2>1, <2>2, <2>3
  <1>19. CASE ResumeFails
    BY <1>19 DEF ResumeFails, envDir, local, cluster
  <1>20. CASE WriteFails
    BY <1>20 DEF WriteFails, Calm, envDir, local, cluster
  <1>21. CASE RunFails
    BY <1>21 DEF RunFails, InTry, Steps, envDir, cluster
  <1>22. CASE Reset
    BY <1>22 DEF Reset, envDir, local, cluster
  <1>23. CASE Pull
    BY <1>23 DEF Pull, envDir, local, cluster
  <1>24. CASE Crash
    <2>1. UNCHANGED disk
      BY <1>24 DEF Crash, Calm
    <2> QED
      BY <1>24, <2>1 DEF Crash, cluster
  <1>25. CASE Evict
    BY <1>25 DEF Evict, envDir, local, cluster
  <1>26. CASE Prune
    BY <1>26 DEF Prune, envDir, local, cluster
  <1>27. CASE SelfHeal
    BY <1>27 DEF SelfHeal, envDir, local, cluster
  <1>28. CASE Generate
    BY <1>28 DEF Generate, envDir, local, cluster
  <1>29. CASE UNCHANGED vars
    BY <1>29 DEF vars, envDir, local, cluster
  <1> QED
    BY <1>1, <1>2, <1>3, <1>4, <1>5, <1>6, <1>7, <1>8, <1>9, <1>10,
       <1>11, <1>12, <1>13, <1>14, <1>15, <1>16, <1>17, <1>18, <1>19, <1>20,
       <1>21, <1>22, <1>23, <1>24, <1>25, <1>26, <1>27, <1>28, <1>29, <1>30 DEF Next, Run

\* While the external secrets operator is down the change that paused it is not recorded,
\* whatever fails wherever: for any number of attempts, crashes and resets.
THEOREM ResumedInTheEnd == Spec => []PausedIsRepeated
  <1>1. Init => PauseInv
    <2> SUFFICES ASSUME Init PROVE PauseInv
      OBVIOUS
    <2>1. disk.version \in 1..Latest /\ remote = disk
      BY DEF Init
    <2> QED
      BY <2>1 DEF Init, PauseInv, Pausing
  <1>2. TypeOK /\ PauseInv => PausedIsRepeated
    BY MigrationFacts, TreeFacts DEF PauseInv, Calm, PausedIsRepeated, TypeOK
  <1> QED
    BY <1>1, <1>2, PauseNext, MigrationTypes, PTL DEF Spec

-----------------------------------------------------------------------------
(* Passwords.                                                              *)

Moved == \A a \in Enabled : copies[a] = "old"

\* From the version of the change on, the passwords were copied.  Before it, the sealed
\* ones are all there, because the server still asks for them, and a run has copied
\* those that it does not have still to copy.
PasswordInv ==
    Undisturbed =>
        /\ \A a \in Enabled : copies[a] # "new"
        /\ disk.version >= SecretsChange => Moved
        /\ remote.version < SecretsChange => secrets = Apps /\ remote.manifests = Apps
        /\ pc \in Migrating \ {"change"} => disk.version < SecretsChange
        /\ pc = "change" =>
             IF SecretsChange \in todo THEN disk.version < SecretsChange ELSE Moved
        /\ pc \in {"pause", "scale", "crd", "copy"} => \A a \in Enabled \ tocopy : copies[a] = "old"
        /\ pc \in {"discard", "write"} \/ (pc = "resume" /\ ~failed) => Moved

LEMMA PasswordNext == TypeOK /\ VersionInv /\ PasswordInv /\ [Next]_vars => PasswordInv'
  <1> SUFFICES ASSUME TypeOK, VersionInv, PasswordInv, [Next]_vars PROVE PasswordInv'
    OBVIOUS
  <1> USE MigrationFacts, MishapsStay
  <1> USE DEF NoFault
  <1>1. CASE Begin
    BY <1>1 DEF Begin, PasswordInv, Moved, Migrating, Undisturbed, Goto, envDir, local, cluster
  <1>2. CASE WriteDefaults
    <2> SUFFICES ASSUME Undisturbed' PROVE PasswordInv'
      BY DEF PasswordInv
    <2>1. Undisturbed
      BY DEF Undisturbed
    <2>2. disk.version >= 1
      BY <2>1 DEF VersionInv, TypeOK, Tree
    <2>3. disk'.version = disk.version
      BY <1>2, <2>2 DEF WriteDefaults, TypeOK, Tree
    <2> QED
      BY <1>2, <2>1, <2>3 DEF WriteDefaults, PasswordInv, Moved, Migrating, Goto, local, cluster
  <1>3. CASE Migrate
    <2> SUFFICES ASSUME Undisturbed' PROVE PasswordInv'
      BY DEF PasswordInv
    <2>1. Undisturbed
      BY DEF Undisturbed
    <2>2. disk.version \in 1..Latest
      BY <2>1, TreeFacts DEF VersionInv, TypeOK
    <2>3. SecretsChange \in FilterChanges(disk.version) <=> disk.version < SecretsChange
      BY <2>2 DEF FilterChanges
    <2> QED
      BY <1>3, <2>1, <2>2, <2>3 DEF Migrate, PasswordInv, Moved, Migrating, Goto, envDir, cluster
  <1>4. CASE ChangeValues
    BY <1>4 DEF ChangeValues, PasswordInv, Moved, Migrating, Undisturbed, Goto, envDir, local, cluster
  <1>5. CASE RemoveFile
    <2> SUFFICES ASSUME Undisturbed' PROVE PasswordInv'
      BY DEF PasswordInv
    <2>1. Undisturbed
      BY DEF Undisturbed
    <2>2. disk'.version = disk.version
      BY <1>5 DEF RemoveFile, TypeOK, Tree
    <2> QED
      BY <1>5, <2>1, <2>2 DEF RemoveFile, PasswordInv, Moved, Migrating, Goto, local, cluster
  <1>6. CASE EndChanges
    BY <1>6 DEF EndChanges, PasswordInv, Moved, Migrating, Undisturbed, Goto, envDir, local, cluster
  <1>7. CASE MigrateGeneratedSecrets
    <2> SUFFICES ASSUME Undisturbed' PROVE PasswordInv'
      BY DEF PasswordInv
    <2>1. Undisturbed
      BY DEF Undisturbed
    <2>2. disk.version < SecretsChange /\ remote.version < SecretsChange
      BY <1>7, <2>1, TreeFacts DEF MigrateGeneratedSecrets, NextChange, PasswordInv, VersionInv, TypeOK
    <2>3. tocopy' = Enabled
      BY <1>7, <2>1, <2>2 DEF MigrateGeneratedSecrets, ReadSecrets, PasswordInv
    <2> QED
      BY <1>7, <2>1, <2>2, <2>3 DEF MigrateGeneratedSecrets, PasswordInv, Moved, Migrating, Goto, envDir, cluster
  <1>8. CASE PauseSync
    BY <1>8 DEF PauseSync, PasswordInv, Moved, Migrating, Undisturbed, Goto, envDir, local, cluster
  <1>9. CASE ScaleDown
    BY <1>9 DEF ScaleDown, PasswordInv, Moved, Migrating, Undisturbed, Goto, envDir, local, cluster
  <1>30. CASE ApplyCrd
    BY <1>30 DEF ApplyCrd, PasswordInv, Moved, Migrating, Undisturbed, Goto, envDir, local, cluster
  <1>10. CASE CopySecret
    <2> SUFFICES ASSUME Undisturbed' PROVE PasswordInv'
      BY DEF PasswordInv
    <2>1. Undisturbed
      BY DEF Undisturbed
    <2>2. PICK a \in tocopy : IF copies[a] = None
                             THEN /\ copies' = [copies EXCEPT ![a] = "old"]
                                  /\ tocopy' = tocopy \ {a}
                             ELSE copies' = [copies EXCEPT ![a] = None] /\ UNCHANGED tocopy
      BY <1>10 DEF CopySecret
    <2>3. a \in Apps /\ \A b \in Apps : b # a => copies'[b] = copies[b]
      BY <2>2 DEF TypeOK
    <2>4. copies'[a] \in {None, "old"} /\ (a \in tocopy' \/ copies'[a] = "old")
      BY <2>2, <2>3 DEF TypeOK
    <2>5. pc = "copy" /\ UNCHANGED <<pc, disk, remote, secrets>> /\ disk.version < SecretsChange
      BY <1>10, <2>1 DEF CopySecret, Goto, envDir, PasswordInv, Migrating
    <2>6. \A b \in Enabled \ tocopy' : copies'[b] = "old"
      BY <2>1, <2>2, <2>3, <2>4, <2>5 DEF PasswordInv
    <2>7. ~(disk.version >= SecretsChange)
      BY <2>5, TreeFacts DEF TypeOK
    <2> QED
      BY <2>1, <2>3, <2>4, <2>5, <2>6, <2>7 DEF PasswordInv, Migrating
  <1>11. CASE EndCopies
    BY <1>11 DEF EndCopies, PasswordInv, Moved, Migrating, Undisturbed, Goto, Copied, envDir, local, cluster
  <1>12. CASE DiscardManifest
    <2> SUFFICES ASSUME Undisturbed' PROVE PasswordInv'
      BY DEF PasswordInv
    <2>1. Undisturbed
      BY DEF Undisturbed
    <2>2. disk'.version = disk.version
      BY <1>12 DEF DiscardManifest, TypeOK, Tree
    <2> QED
      BY <1>12, <2>1, <2>2 DEF DiscardManifest, PasswordInv, Moved, Migrating, Goto, local, cluster
  <1>13. CASE EndDiscards
    BY <1>13 DEF EndDiscards, PasswordInv, Moved, Migrating, Undisturbed, Goto, envDir, local, cluster
  <1>14. CASE Resume
    BY <1>14 DEF Resume, PasswordInv, Moved, Migrating, Undisturbed, Goto, envDir, local, cluster
  <1>15. CASE EndWrite
    BY <1>15 DEF EndWrite, PasswordInv, Moved, Migrating, Undisturbed, Goto, envDir, local, cluster
  <1>16. CASE Commit
    <2> SUFFICES ASSUME Undisturbed' PROVE PasswordInv'
      BY DEF PasswordInv
    <2>1. Undisturbed
      BY DEF Undisturbed
    <2>2. disk.version = Latest /\ UNCHANGED <<disk, copies, secrets>>
      BY <1>16, <2>1 DEF Commit, VersionInv, cluster
    <2> QED
      BY <1>16, <2>1, <2>2 DEF Commit, PasswordInv, Moved, Migrating, Goto, local
  <1>17. CASE Deploy
    BY <1>17 DEF Deploy, PasswordInv, Moved, Migrating, Undisturbed, Goto, envDir, local, cluster
  <1>18. CASE WriteFile
    <2> SUFFICES ASSUME Undisturbed' PROVE PasswordInv'
      BY DEF PasswordInv
    <2>1. Undisturbed
      BY DEF Undisturbed
    <2>2. pc = "write" /\ UNCHANGED <<pc, copies, secrets, remote>>
      BY <1>18, <2>1 DEF WriteFile, VersionInv, cluster
    <2> QED
      BY <2>1, <2>2 DEF PasswordInv, Moved, Migrating
  <1>19. CASE ResumeFails
    BY <1>19 DEF ResumeFails, PasswordInv, Moved, Migrating, Undisturbed, Goto, envDir, local, cluster
  <1>20. CASE WriteFails
    BY <1>20 DEF WriteFails, PasswordInv, Undisturbed
  <1>21. CASE RunFails
    BY <1>21 DEF RunFails, PasswordInv, Moved, Migrating, Undisturbed, Goto, InTry, Steps, envDir, local, cluster
  <1>22. CASE Reset
    BY <1>22 DEF Reset, PasswordInv, Undisturbed
  <1>23. CASE Pull
    <2> SUFFICES ASSUME Undisturbed' PROVE PasswordInv'
      BY DEF PasswordInv
    <2>1. Undisturbed
      BY DEF Undisturbed
    <2>2. disk' = remote /\ pc' = "idle" /\ UNCHANGED <<remote, copies, secrets>>
      BY <1>23 DEF Pull, Goto, cluster
    <2>3. remote.version >= SecretsChange => disk.version >= SecretsChange
      BY <2>1, TreeFacts DEF VersionInv, TypeOK
    <2> QED
      BY <2>1, <2>2, <2>3 DEF PasswordInv, Moved, Migrating
  <1>24. CASE Crash
    BY <1>24 DEF Crash, PasswordInv, Moved, Migrating, Undisturbed, Goto, envDir, local, cluster
  <1>25. CASE Evict
    <2> SUFFICES ASSUME Undisturbed' PROVE PasswordInv'
      BY DEF PasswordInv
    <2>1. Undisturbed
      BY DEF Undisturbed
    <2>2. disk' = remote /\ pc' = "idle" /\ UNCHANGED <<remote, copies, secrets>>
      BY <1>25 DEF Evict, Goto, cluster
    <2>3. remote.version >= SecretsChange => disk.version >= SecretsChange
      BY <2>1, TreeFacts DEF VersionInv, TypeOK
    <2> QED
      BY <2>1, <2>2, <2>3 DEF PasswordInv, Moved, Migrating
  <1>26. CASE Prune
    <2> SUFFICES ASSUME Undisturbed' PROVE PasswordInv'
      BY DEF PasswordInv
    <2>1. Undisturbed
      BY DEF Undisturbed
    <2>2. PICK a \in secrets \ remote.manifests : secrets' = secrets \ {a}
      BY <1>26 DEF Prune
    <2>3. ~(remote.version < SecretsChange)
      BY <2>1, <2>2 DEF PasswordInv, TypeOK
    <2> QED
      BY <1>26, <2>1, <2>3 DEF Prune, PasswordInv, Moved, Migrating, envDir, local
  <1>27. CASE SelfHeal
    BY <1>27 DEF SelfHeal, PasswordInv, Moved, Migrating, Undisturbed, Goto, envDir, local, cluster
  <1>28. CASE Generate
    <2> SUFFICES ASSUME Undisturbed' PROVE PasswordInv'
      BY DEF PasswordInv
    <2>1. Undisturbed
      BY DEF Undisturbed
    <2>2. remote.version = Latest
      BY <1>28, <2>1 DEF Generate, VersionInv
    <2>3. disk.version >= SecretsChange
      BY <2>1, <2>2, TreeFacts DEF VersionInv, TypeOK
    <2>4. Moved
      BY <2>1, <2>3 DEF PasswordInv
    <2> QED
      BY <1>28, <2>4 DEF Generate, Moved
  <1>29. CASE UNCHANGED vars
    BY <1>29 DEF vars, PasswordInv, Moved, Migrating, Undisturbed, Goto, envDir, local, cluster
  <1> QED
    BY <1>1, <1>2, <1>3, <1>4, <1>5, <1>6, <1>7, <1>8, <1>9, <1>10,
       <1>11, <1>12, <1>13, <1>14, <1>15, <1>16, <1>17, <1>18, <1>19, <1>20,
       <1>21, <1>22, <1>23, <1>24, <1>25, <1>26, <1>27, <1>28, <1>29, <1>30 DEF Next, Run

\* The passwords of enabled apps survive, over any number of attempts, crashes and lost
\* disks, unless the version was cut off or ENV_DIR written or reset out of turn.
THEOREM PasswordsSurvive == Spec => []SecretsSurvive
  <1>1. Init => PasswordInv
    <2> SUFFICES ASSUME Init PROVE PasswordInv
      OBVIOUS
    <2>1. PICK v \in 1..Latest :
            disk = [version |-> v, done |-> 1..v,
                    manifests |-> IF v >= SecretsChange THEN {} ELSE Apps]
      BY DEF Init
    <2>2. /\ disk.version = v /\ remote = disk /\ pc = "idle"
          /\ disk.manifests = IF v >= SecretsChange THEN {} ELSE Apps
      BY <2>1 DEF Init
    <2>3. secrets = disk.manifests /\ \A a \in Apps : copies[a] = IF a \in disk.manifests THEN None ELSE "old"
      BY DEF Init
    <2> QED
      BY <2>1, <2>2, <2>3, MigrationFacts DEF PasswordInv, Moved, Migrating
  <1>2. TypeOK /\ VersionInv /\ PasswordInv => SecretsSurvive
    <2> SUFFICES ASSUME TypeOK, VersionInv, PasswordInv, Undisturbed, NEW a \in Enabled
                 PROVE  copies[a] # "new" /\ (a \notin secrets => copies[a] = "old")
      BY DEF SecretsSurvive, Undisturbed
    <2>1. CASE remote.version < SecretsChange
      BY <2>1, MigrationFacts DEF PasswordInv
    <2>2. CASE ~(remote.version < SecretsChange)
      <3>1. disk.version >= SecretsChange
        BY <2>2, MigrationFacts, TreeFacts DEF VersionInv, TypeOK
      <3> QED
        BY <3>1 DEF PasswordInv, Moved
    <2> QED
      BY <2>1, <2>2
  <1> QED
    BY <1>1, <1>2, PasswordNext, VersionsKnown, PTL DEF Spec

=============================================================================
