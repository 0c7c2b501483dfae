---------------------------- MODULE ModelStorage ----------------------------
(***************************************************************************)
(* The thread that saves the model of the classifier every ten seconds     *)
(* (nofare_app/src/server/ModelSerialization.hpp), the main thread that    *)
(* starts and stops it (run of Init.h), the loading of the model at the    *)
(* next start (loadOldModel), and crashes in between.                      *)
(*                                                                         *)
(* A model is the set of the changes it contains, each with a number of    *)
(* its own: a model that could not be loaded lacks those made before.      *)
(* A file is what a reader would find in it: a model, and whether all of   *)
(* it is there, for the stream writes the end of the archive when it is    *)
(* closed.                                                                 *)
(***************************************************************************)
EXTENDS Integers

CONSTANTS
  MaxChanges,   \* bound: number of changes of the model
  MaxCrashes    \* bound: number of crashes

ASSUME StorageAssumption == MaxChanges \in Nat /\ MaxCrashes \in Nat

VARIABLES
  model,                \* the changes the classifier's model contains
  archive,              \* the file model.archive
  backup,               \* the file model.archive.backup
  snapshot,             \* labelManager: the copy the storage thread has taken
  shutdown,             \* detail::shutdown
  shutdown_nofare_app,
  main_pc, storage_pc,
  last_change,          \* history: the number of the last change
  saved,                \* history: the file that was completely saved last
  load_failed,          \* history: this start could not load a complete
                        \* archive, and nothing has been saved since
  gap_crash,            \* history: a crash between remove and close,
                        \* and nothing saved since
  crashes

fileVars    == <<archive, backup, saved>>
modelVars   == <<model, last_change>>
crashVars   == <<gap_crash, crashes>>
vars == <<modelVars, fileVars, crashVars, load_failed, snapshot, shutdown,
          shutdown_nofare_app, main_pc, storage_pc>>

Partial(m)  == [changes |-> m, complete |-> FALSE]
Complete(m) == [changes |-> m, complete |-> TRUE]
NoFile      == Partial({})   \* to a reader, an empty file is as good as none

Init ==
  /\ model = {} /\ last_change = 0
  /\ archive = NoFile /\ backup = NoFile /\ saved = NoFile
  /\ load_failed = FALSE
  /\ snapshot = {} /\ shutdown = FALSE /\ shutdown_nofare_app = FALSE
  /\ main_pc = "loading" /\ storage_pc = "none"
  /\ gap_crash = FALSE /\ crashes = 0

-----------------------------------------------------------------------------
(* The main thread, and those that change the model.                       *)

LoadsNothingMutant == {}
LoadedModel == archive.changes

\* Whatever goes wrong is caught, also when the archive is complete, and
\* the model stays the empty one
LoadFails ==
  /\ model' = {}
  /\ load_failed' = archive.complete

LoadSucceeds ==
  /\ archive.complete
  /\ model' = LoadedModel
  /\ load_failed' = FALSE

LoadOldModel ==
  /\ main_pc = "loading"
  /\ LoadSucceeds \/ LoadFails
  /\ main_pc' = "starting"
  /\ UNCHANGED <<last_change, fileVars, crashVars, snapshot, shutdown,
                 shutdown_nofare_app, storage_pc>>

StartModelStorageThread ==
  /\ main_pc = "starting"
  /\ shutdown' = FALSE
  /\ main_pc' = "running" /\ storage_pc' = "testing"
  /\ UNCHANGED <<modelVars, fileVars, crashVars, load_failed, snapshot,
                 shutdown_nofare_app>>

\* The runner of the classifier adds an event, until stopThreads has joined
\* it, or the message loop labels one, until it gets the shutdown command
ChangeModel ==
  /\ \/ main_pc = "running"
     \/ main_pc \in {"starting", "stopping", "joining"} /\ ~shutdown_nofare_app
  /\ last_change < MaxChanges
  /\ model' = model \union {last_change + 1} /\ last_change' = last_change + 1
  /\ UNCHANGED <<fileVars, crashVars, load_failed, snapshot, shutdown,
                 shutdown_nofare_app, main_pc, storage_pc>>

\* The message loop
ShutdownCommand ==
  /\ main_pc \notin {"loading", "exited"} /\ ~shutdown_nofare_app
  /\ shutdown_nofare_app' = TRUE
  /\ UNCHANGED <<modelVars, fileVars, crashVars, load_failed, snapshot,
                 shutdown, main_pc, storage_pc>>

\* The main loop ends, on the command or with the stream: stopThreads
StopThreads ==
  /\ main_pc = "running"
  /\ main_pc' = "stopping"
  /\ UNCHANGED <<modelVars, fileVars, crashVars, load_failed, snapshot,
                 shutdown, shutdown_nofare_app, storage_pc>>

\* notify_all only ends a wait earlier
StopModelStorageThread ==
  /\ main_pc = "stopping"
  /\ shutdown' = TRUE
  /\ main_pc' = "joining"
  /\ UNCHANGED <<modelVars, fileVars, crashVars, load_failed, snapshot,
                 shutdown_nofare_app, storage_pc>>

\* join, and the process exits (or terminates, when the stream has ended)
Join ==
  /\ main_pc = "joining" /\ storage_pc = "returned"
  /\ main_pc' = "exited" /\ storage_pc' = "none"
  /\ UNCHANGED <<modelVars, fileVars, crashVars, load_failed, snapshot,
                 shutdown, shutdown_nofare_app>>

\* The program is started again
Restart ==
  /\ main_pc = "exited"
  /\ main_pc' = "loading"
  /\ model' = {} /\ snapshot' = {}
  /\ shutdown' = FALSE /\ shutdown_nofare_app' = FALSE
  /\ UNCHANGED <<last_change, fileVars, crashVars, load_failed, storage_pc>>

\* The archive that was saved last is gone, the next one is not written yet
InGap == storage_pc \in {"removed", "renamed"}

\* The process ends without running another instruction
Crash ==
  /\ main_pc \notin {"loading", "exited"}
  /\ crashes < MaxCrashes
  /\ crashes' = crashes + 1
  /\ gap_crash' = (gap_crash \/ InGap)
  /\ main_pc' = "exited" /\ storage_pc' = "none"
  /\ UNCHANGED <<modelVars, fileVars, load_failed, snapshot, shutdown,
                 shutdown_nofare_app>>

-----------------------------------------------------------------------------
(* storeModelThreadFunction.                                               *)

\* The values of storage_pc before and after a step
StorageStep(from, to) == storage_pc = from /\ storage_pc' = to

MainUnchanged ==
  UNCHANGED <<modelVars, crashVars, load_failed, shutdown,
              shutdown_nofare_app, main_pc>>

StopsAfterOneMutant == saved # NoFile
StorageStops == shutdown

StorageTest ==
  /\ storage_pc = "testing"
  /\ storage_pc' = IF StorageStops THEN "returned" ELSE "waiting"
  /\ MainUnchanged /\ UNCHANGED <<fileVars, snapshot>>

\* wait_for returns, and the stream truncates the backup
OpenBackup ==
  /\ StorageStep("waiting", "opened")
  /\ backup' = Partial({})
  /\ MainUnchanged /\ UNCHANGED <<archive, saved, snapshot>>

\* getEventLabelManager
TakeSnapshot ==
  /\ StorageStep("opened", "copied")
  /\ snapshot' = model
  /\ MainUnchanged /\ UNCHANGED fileVars

\* ia << labelManager: the end of it stays in the buffer of the stream
NotWrittenMutant == Partial({})
Written == Partial(snapshot)

Serialize ==
  /\ StorageStep("copied", "serialized")
  /\ backup' = Written
  /\ MainUnchanged /\ UNCHANGED <<archive, saved, snapshot>>

RemoveArchive ==
  /\ StorageStep("serialized", "removed")
  /\ archive' = NoFile
  /\ MainUnchanged /\ UNCHANGED <<backup, saved, snapshot>>

RenameBackup ==
  /\ StorageStep("removed", "renamed")
  /\ archive' = backup /\ backup' = NoFile
  /\ MainUnchanged /\ UNCHANGED <<saved, snapshot>>

\* The destructors of the archive and the stream write what is left
CloseStream ==
  /\ StorageStep("renamed", "testing")
  /\ archive' = Complete(archive.changes)
  /\ saved' = Complete(snapshot)
  /\ gap_crash' = FALSE /\ load_failed' = FALSE
  /\ UNCHANGED <<modelVars, backup, crashes, snapshot, shutdown,
                 shutdown_nofare_app, main_pc>>

Storage ==
  \/ StorageTest \/ OpenBackup \/ TakeSnapshot \/ Serialize
  \/ RemoveArchive \/ RenameBackup \/ CloseStream

-----------------------------------------------------------------------------
MainStarts == LoadOldModel \/ StartModelStorageThread
MainStops  == StopModelStorageThread \/ Join

Next ==
  \/ MainStarts \/ StopThreads \/ MainStops \/ Restart
  \/ ChangeModel \/ ShutdownCommand
  \/ Storage \/ Crash

Spec == Init /\ [][Next]_vars

(***************************************************************************)
(* Fairness: the threads are scheduled, and wait_for comes back after ten  *)
(* seconds at the latest.  Nothing is assumed of the user, of the end of   *)
(* the stream and of crashes.                                              *)
(***************************************************************************)
FairSpec ==
  Spec /\ WF_vars(Storage) /\ WF_vars(MainStarts) /\ WF_vars(MainStops)

-----------------------------------------------------------------------------
(* Properties.                                                             *)

Changes == 1..MaxChanges
File == [changes : SUBSET Changes, complete : BOOLEAN]

(***************************************************************************)
(* The types of the variables; no file contains a change that was not      *)
(* made, and the storage thread only runs between startModelStorageThread  *)
(* and the join (detail::model_thread is not assigned while joinable).     *)
(***************************************************************************)
FlagsOK ==
  /\ shutdown \in BOOLEAN /\ shutdown_nofare_app \in BOOLEAN
  /\ gap_crash \in BOOLEAN /\ load_failed \in BOOLEAN

FilesOK ==
  /\ last_change \in 0..MaxChanges
  /\ model \subseteq 1..last_change /\ snapshot \subseteq 1..last_change
  /\ archive \in File /\ archive.changes \subseteq 1..last_change
  /\ backup \in File /\ backup.changes \subseteq 1..last_change
  /\ saved \in File
  /\ ~backup.complete

ThreadsOK ==
  /\ main_pc \in {"loading", "starting", "running", "stopping", "joining",
                  "exited"}
  /\ storage_pc \in {"none", "testing", "waiting", "opened", "copied",
                     "serialized", "removed", "renamed", "returned"}
  /\ storage_pc = "none" <=> main_pc \in {"loading", "starting", "exited"}
  /\ crashes \in 0..MaxCrashes

TypeOK == FilesOK /\ ThreadsOK /\ FlagsOK

(***************************************************************************)
(* What was saved can be loaded: except while the storage thread is        *)
(* between remove and the end of its iteration, and after a crash there    *)
(* until the next save, model.archive is the complete model that was       *)
(* saved last; a crash at any other point, also one that leaves half a     *)
(* backup, loses nothing of it.                                            *)
(***************************************************************************)
SavedCanBeLoaded ==
  ~gap_crash /\ ~InGap => archive = saved

(***************************************************************************)
(* storeModelThreadFunction removes a complete archive only when a model   *)
(* with every change in it has been written to the backup, over any number *)
(* of restarts, changes and crashes - unless this start failed to load it, *)
(* and loadOldModel's catch left the classifier with an empty model.       *)
(***************************************************************************)
SavedChangesAreKept ==
  [][archive.complete /\ ~archive'.complete
       => load_failed \/ archive.changes \subseteq backup'.changes]_vars

(***************************************************************************)
(* Every change of the model is saved, unless the program is stopped or    *)
(* crashes.                                                                *)
(***************************************************************************)
ChangesAreSaved ==
  \A c \in Changes :
    (main_pc = "running" /\ c \in model)
      ~> \/ archive.complete /\ c \in archive.changes
         \/ main_pc # "running"
=============================================================================
