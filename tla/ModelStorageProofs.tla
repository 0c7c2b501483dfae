------------------------- MODULE ModelStorageProofs -------------------------
(***************************************************************************)
(* What the storage of the model guarantees for every number of changes    *)
(* and of crashes.                                                         *)
(***************************************************************************)
EXTENDS ModelStorage, TLAPS

(***************************************************************************)
(* How far the file on its way is: what was copied is what is written and  *)
(* then renamed, and it lacks no change of the archive it replaces, unless *)
(* that could not be loaded.                                               *)
(***************************************************************************)
Transit ==
  /\ storage_pc \in {"serialized", "removed"} => backup = Partial(snapshot)
  /\ storage_pc = "removed" => archive = NoFile
  /\ storage_pc = "renamed" => archive = Partial(snapshot)

\* The model in memory has the changes of the archive, and so has the copy
ModelIsAhead ==
  main_pc \notin {"loading", "exited"} =>
    /\ storage_pc \in {"copied", "serialized", "removed", "renamed"}
         => snapshot \subseteq model
    /\ archive.complete /\ ~load_failed => archive.changes \subseteq model

CopyIsAhead ==
  archive.complete /\ ~load_failed /\ storage_pc \in {"copied", "serialized"}
    => archive.changes \subseteq snapshot

StorageInv ==
  /\ FilesOK /\ ThreadsOK
  /\ Transit /\ ModelIsAhead /\ CopyIsAhead
  /\ SavedCanBeLoaded

-----------------------------------------------------------------------------
\* The invariant holds when nothing was saved
LEMMA StorageInvInit == Init => StorageInv
<1> SUFFICES ASSUME Init
             PROVE  StorageInv
  OBVIOUS
<1> USE StorageAssumption DEF Init, NoFile, Partial
<1>1. FilesOK /\ ThreadsOK
  BY DEF FilesOK, ThreadsOK, File, Changes
<1>2. Transit /\ ModelIsAhead /\ CopyIsAhead
  BY DEF Transit, ModelIsAhead, CopyIsAhead
<1>3. SavedCanBeLoaded
  BY DEF SavedCanBeLoaded
<1> QED
  BY <1>1, <1>2, <1>3 DEF StorageInv

\* The steps of the main thread, of those that change the model, of the
\* system
LEMMA MainKeepsTransit ==
  ASSUME StorageInv,
         MainStarts \/ StopThreads \/ MainStops \/ Restart \/ ChangeModel
           \/ ShutdownCommand \/ Crash
  PROVE  (FilesOK /\ ThreadsOK /\ Transit /\ ModelIsAhead /\ CopyIsAhead)'
<1> USE StorageAssumption
        DEF StorageInv, FilesOK, ThreadsOK, Transit, ModelIsAhead,
            CopyIsAhead, NoFile, File, Changes, Partial, Complete, fileVars,
            modelVars, crashVars, MainUnchanged,
            StorageStep
<1>1. CASE LoadOldModel
  BY <1>1 DEF LoadOldModel, LoadedModel, LoadSucceeds, LoadFails
<1>2. CASE StartModelStorageThread
  BY <1>2 DEF StartModelStorageThread
<1>3. CASE StopThreads
  BY <1>3 DEF StopThreads
<1>4. CASE StopModelStorageThread
  BY <1>4 DEF StopModelStorageThread
<1>5. CASE Join
  BY <1>5 DEF Join
<1>6. CASE Restart
  BY <1>6 DEF Restart
<1>7. CASE ChangeModel
  BY <1>7 DEF ChangeModel
<1>8. CASE ShutdownCommand
  BY <1>8 DEF ShutdownCommand
<1>9. CASE Crash
  BY <1>9 DEF Crash
<1> QED
  BY <1>1, <1>2, <1>3, <1>4, <1>5, <1>6, <1>7, <1>8, <1>9
     DEF MainStarts, MainStops

\* The steps of storeModelThreadFunction
LEMMA StorageKeepsTransit ==
  ASSUME StorageInv, Storage
  PROVE  (FilesOK /\ ThreadsOK /\ Transit /\ ModelIsAhead /\ CopyIsAhead)'
<1> USE StorageAssumption
        DEF StorageInv, FilesOK, ThreadsOK, Transit, ModelIsAhead,
            CopyIsAhead, NoFile, File, Changes, Partial, Complete, fileVars,
            modelVars, crashVars, MainUnchanged,
            StorageStep
<1>1. CASE StorageTest
  BY <1>1 DEF StorageTest
<1>2. CASE OpenBackup
  BY <1>2 DEF OpenBackup
<1>3. CASE TakeSnapshot
  BY <1>3 DEF TakeSnapshot
<1>4. CASE Serialize
  BY <1>4 DEF Serialize, Written
<1>5. CASE RemoveArchive
  BY <1>5 DEF RemoveArchive
<1>6. CASE RenameBackup
  BY <1>6 DEF RenameBackup
<1>7. CASE CloseStream
  BY <1>7 DEF CloseStream
<1> QED
  BY <1>1, <1>2, <1>3, <1>4, <1>5, <1>6, <1>7
     DEF Storage

\* No step of the main thread, the user or a crash loses the saved model
LEMMA MainKeepsSaved ==
  ASSUME StorageInv,
         MainStarts \/ StopThreads \/ MainStops \/ Restart \/ ChangeModel
           \/ ShutdownCommand \/ Crash
  PROVE  SavedCanBeLoaded'
<1> USE DEF StorageInv, Transit, SavedCanBeLoaded, InGap, Partial, Complete,
            fileVars, modelVars, crashVars, MainUnchanged, StorageStep
<1>1. CASE LoadOldModel
  BY <1>1 DEF LoadOldModel, LoadSucceeds, LoadFails
<1>2. CASE StartModelStorageThread
  BY <1>2 DEF StartModelStorageThread, ThreadsOK
<1>3. CASE StopThreads
  BY <1>3 DEF StopThreads
<1>4. CASE StopModelStorageThread
  BY <1>4 DEF StopModelStorageThread
<1>5. CASE Join
  BY <1>5 DEF Join
<1>6. CASE Restart
  BY <1>6 DEF Restart
<1>7. CASE ChangeModel
  BY <1>7 DEF ChangeModel
<1>8. CASE ShutdownCommand
  BY <1>8 DEF ShutdownCommand
<1>9. CASE Crash
  <2>1. /\ ~gap_crash' => ~gap_crash /\ ~InGap
        /\ UNCHANGED <<archive, saved>>
    BY <1>9 DEF Crash
  <2> QED
    BY <2>1
<1> QED
  BY <1>1, <1>2, <1>3, <1>4, <1>5, <1>6, <1>7, <1>8, <1>9
     DEF MainStarts, MainStops

\* ... nor does a step of the storage thread
LEMMA StorageKeepsSaved ==
  ASSUME StorageInv, Storage
  PROVE  SavedCanBeLoaded'
<1> USE DEF StorageInv, Transit, SavedCanBeLoaded, InGap, Partial, Complete,
            fileVars, modelVars, crashVars, MainUnchanged, StorageStep
<1>1. CASE StorageTest
  BY <1>1 DEF StorageTest
<1>2. CASE OpenBackup
  BY <1>2 DEF OpenBackup
<1>3. CASE TakeSnapshot
  BY <1>3 DEF TakeSnapshot
<1>4. CASE Serialize
  BY <1>4 DEF Serialize, Written
<1>5. CASE RemoveArchive
  BY <1>5 DEF RemoveArchive
<1>6. CASE RenameBackup
  BY <1>6 DEF RenameBackup
<1>7. CASE CloseStream
  <2>1. archive = Partial(snapshot)
    BY <1>7 DEF CloseStream
  <2>2. archive.changes = snapshot
    BY <2>1
  <2> QED
    BY <1>7, <2>2 DEF CloseStream
<1> QED
  BY <1>1, <1>2, <1>3, <1>4, <1>5, <1>6, <1>7
     DEF Storage

\* The invariant holds at all times
LEMMA StorageInvHolds == Spec => []StorageInv
<1>1. StorageInv /\ [Next]_vars => StorageInv'
  <2>1. CASE UNCHANGED vars
    BY <2>1 DEF vars, fileVars, modelVars, crashVars, StorageInv, FilesOK,
                ThreadsOK, Transit, ModelIsAhead, CopyIsAhead,
                SavedCanBeLoaded, InGap
  <2>2. CASE StorageInv /\ Next
    BY <2>2, MainKeepsTransit, StorageKeepsTransit, MainKeepsSaved,
       StorageKeepsSaved DEF Next, StorageInv
  <2> QED
    BY <2>1, <2>2
<1> QED
  BY <1>1, StorageInvInit, PTL DEF Spec

-----------------------------------------------------------------------------
(***************************************************************************)
(* The types of the variables, for every number of changes and crashes.    *)
(***************************************************************************)
THEOREM TypeCorrect == Spec => []TypeOK
<1>1. Init => FlagsOK
  BY DEF Init, FlagsOK
<1>2. FlagsOK /\ StorageInv /\ [Next]_vars => FlagsOK'
  <2> SUFFICES ASSUME FlagsOK, StorageInv, [Next]_vars
               PROVE  FlagsOK'
    OBVIOUS
  <2>1. archive.complete \in BOOLEAN
    BY DEF StorageInv, FilesOK, File
  <2> QED
    BY <2>1, Zenon
    DEF FlagsOK, vars, fileVars, modelVars, crashVars, MainUnchanged, Next,
        MainStarts, MainStops, Storage, LoadOldModel, LoadSucceeds,
        LoadFails, StartModelStorageThread, StopThreads,
        StopModelStorageThread, Join, Restart, ChangeModel, ShutdownCommand,
        Crash, StorageTest, OpenBackup, TakeSnapshot, Serialize,
        RemoveArchive, RenameBackup, CloseStream
<1> QED
  BY <1>1, <1>2, StorageInvHolds, PTL DEF Spec, StorageInv, TypeOK

(***************************************************************************)
(* What was saved can be loaded, after any number of changes, stops and    *)
(* crashes: model.archive is what was saved last unless the storage thread *)
(* is, or crashed, between remove and the end of its iteration.            *)
(***************************************************************************)
THEOREM SavedModelsSurvive == Spec => []SavedCanBeLoaded
BY StorageInvHolds, PTL DEF StorageInv

(***************************************************************************)
(* storeModelThreadFunction removes a complete archive only for a model    *)
(* with every change in it, unless loadOldModel failed at this start.      *)
(***************************************************************************)
THEOREM SavedChangesSurvive == Spec => SavedChangesAreKept
<1> DEFINE Kept == archive.complete /\ ~archive'.complete
                     => \/ load_failed
                        \/ archive.changes \subseteq backup'.changes
<1>1. StorageInv /\ [Next]_vars => [Kept]_vars
  <2> SUFFICES ASSUME StorageInv, Next
               PROVE  Kept
    OBVIOUS
  <2> USE DEF fileVars, MainUnchanged
  <2>1. CASE RemoveArchive
    <3>1. backup = Partial(snapshot) /\ backup' = backup
      BY <2>1 DEF RemoveArchive, StorageStep, StorageInv, Transit
    <3>2. backup'.changes = snapshot
      BY <3>1 DEF Partial
    <3> QED
      BY <2>1, <3>2 DEF RemoveArchive, StorageStep, StorageInv, CopyIsAhead
  <2>2. CASE RenameBackup
    <3>1. ~archive.complete
      BY <2>2 DEF RenameBackup, StorageStep, StorageInv, Transit, NoFile,
                  Partial
    <3> QED
      BY <3>1
  <2>3. CASE CloseStream
    BY <2>3 DEF CloseStream, Complete
  <2>4. CASE ~(RemoveArchive \/ RenameBackup \/ CloseStream)
    <3>1. UNCHANGED archive
      BY <2>4
         DEF Next, MainStarts, MainStops, Storage, LoadOldModel,
             StartModelStorageThread, StopThreads, StopModelStorageThread,
             Join, Restart, ChangeModel, ShutdownCommand, Crash, StorageTest,
             OpenBackup, TakeSnapshot, Serialize
    <3> QED
      BY <3>1
  <2> QED
    BY <2>1, <2>2, <2>3, <2>4
<1> QED
  BY <1>1, StorageInvHolds, PTL DEF Spec, SavedChangesAreKept
=============================================================================
