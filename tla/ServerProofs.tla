---------------------------- MODULE ServerProofs ----------------------------
(***************************************************************************)
(* What the servers guarantee around the name of their queue and when they *)
(* stop, for any number of servers and clients, and any queue.             *)
(***************************************************************************)
EXTENDS Server, SequenceTheorems, TLAPS

\* Until it starts the source, a server is one thread
NotStarted(s) ==
  main_pc[s] \in {"off", "setup", "asking", "created"} =>
    loop_pc[s] = "none" /\ input[s] = "none" /\ ~events_on_stack[s]

\* Whose queue has the name has set it up and not cleaned up, or was killed
NameIsHeld(s) ==
  queue_name = s => Serving(s) \/ main_pc[s] = "killed"

\* How far the server is with stopping
Stopping(s) ==
  /\ main_pc[s] \in {"joining runner", "runner asleep", "stopping storage",
                      "joining storage", "joining loop", "cleaning up",
                      "returning"} => ~events_on_stack[s]
  /\ main_pc[s] \in {"joining loop", "cleaning up", "returning"}
       => model_thread[s] = "returned"
  /\ loop_pc[s] = "joined" => shutdown_nofare_app[s]

\* ServerIsReachable and ExitIsClean of one server
Reachable(s) ==
  (Serving(s) /\ queue_name # s) =>
    \/ reset \/ sigterm
    \/ \E t \in Servers \ {s} : main_pc[t] = "terminated"

CleanExit(s) ==
  (main_pc[s] = "exited" /\ loop_pc[s] # "none") =>
    /\ shutdown_nofare_app[s] /\ loop_pc[s] = "joined"
    /\ model_thread[s] = "returned"
    /\ ~events_on_stack[s]

Local(s) == NotStarted(s) /\ NameIsHeld(s) /\ Stopping(s) /\ CleanExit(s)

ServerInv ==
  /\ ProcessesOK
  /\ \A s \in Servers : Local(s) /\ Reachable(s)

-----------------------------------------------------------------------------
(* A step of a server leaves the others' states as they are, and changes   *)
(* the name in few ways.                                                   *)

OthersSame(t) ==
  \A s \in Servers \ {t} :
    /\ main_pc'[s] = main_pc[s] /\ loop_pc'[s] = loop_pc[s]
    /\ shutdown_nofare_app'[s] = shutdown_nofare_app[s]
    /\ input'[s] = input[s] /\ events_on_stack'[s] = events_on_stack[s]
    /\ model_thread'[s] = model_thread[s]

NameStep(t) ==
  /\ reset => reset'
  /\ sigterm => sigterm'
  /\ \/ queue_name' = queue_name
     \/ queue_name = NoQueue /\ queue_name' = t
     \/ /\ queue_name' = NoQueue
        /\ \/ reset' \/ sigterm' \/ main_pc'[t] = "terminated"
           \/ main_pc[t] = "cleaning up"

OwnStep(t) ==
  /\ Serving(t)' /\ queue_name' # t =>
       (Serving(t) /\ queue_name # t) \/ reset' \/ sigterm'
  /\ main_pc[t] = "terminated" => main_pc'[t] = "terminated"

\* The steps of the main thread that do not end the process by a signal
MainStep(t) ==
  \/ MainStarts(t) \/ SpuriousWakeup(t)
  \/ StartThreads(t) \/ TestShutdown(t) \/ LoopWorkersOnce(t)
  \/ StopSource(t) \/ StopThreads(t) \/ JoinRunner(t)
  \/ StopModelStorageThread(t) \/ JoinModelStorageThread(t)
  \/ JoinMessageLoop(t) \/ CleanUp(t) \/ Return(t)

\* Those of its other threads, and the handler of SIGTERM
OtherStep(t) ==
  \/ HandleCommand(t) \/ ReceiveShutdown(t) \/ SourceDelivers(t)
  \/ SourceEnds(t) \/ SourceEndsUnseen(t) \/ ClassifyEvents(t)
  \/ RunnerMissesStop(t) \/ StorageReturns(t) \/ HandledSigterm(t)

\* The steps that do
FatalStep(t) ==
  \/ StopSourceTerminates(t) \/ ReturnTerminates(t)
  \/ ReclassifyTerminates(t) \/ SourceThrows(t)
  \/ ClassifierTerminates(t) \/ Kill(t)

\* The types, and the states of the other servers: the main thread
LEMMA MainKeepsTypes ==
  ASSUME ServerInv, NEW t \in Servers, MainStep(t)
  PROVE  ProcessesOK' /\ OthersSame(t)
<1> USE DEF ServerInv, ProcessesOK, MainStates, Go, queues, serverVars,
            OthersSame
<1>1. CASE LoadConfiguration(t)
  BY <1>1 DEF LoadConfiguration
<1>2. CASE SetupMessageQueue(t)
  BY <1>2 DEF SetupMessageQueue, CreateSucceeds
<1>3. CASE AskUserForQueueReset(t)
  BY <1>3 DEF AskUserForQueueReset
<1>4. CASE InstallHandlers(t)
  BY <1>4 DEF InstallHandlers
<1>5. CASE StartReading(t)
  BY <1>5 DEF StartReading
<1>6. CASE StartMessageLoop(t)
  BY <1>6 DEF StartMessageLoop
<1>7. CASE StartThreads(t)
  BY <1>7 DEF StartThreads
<1>8. CASE TestShutdown(t)
  BY <1>8 DEF TestShutdown, SeesShutdown
<1>9. CASE LoopWorkersOnce(t)
  BY <1>9 DEF LoopWorkersOnce
<1>10. CASE StopSource(t)
  BY <1>10 DEF StopSource
<1>11. CASE StopThreads(t)
  BY <1>11 DEF StopThreads
<1>12. CASE SpuriousWakeup(t)
  BY <1>12 DEF SpuriousWakeup
<1>13. CASE StopModelStorageThread(t)
  BY <1>13 DEF StopModelStorageThread
<1>14. CASE JoinModelStorageThread(t)
  BY <1>14 DEF JoinModelStorageThread, StorageHasEnded
<1>15. CASE JoinMessageLoop(t)
  BY <1>15 DEF JoinMessageLoop
<1>16. CASE CleanUp(t)
  BY <1>16 DEF CleanUp, NameAfterCleanUp
<1>17. CASE Return(t)
  BY <1>17 DEF Return
<1>18. CASE JoinRunner(t)
  BY <1>18 DEF JoinRunner
<1> QED
  BY <1>1, <1>2, <1>3, <1>4, <1>5, <1>6, <1>7, <1>8, <1>9, <1>10, <1>11,
     <1>12, <1>13, <1>14, <1>15, <1>16, <1>17, <1>18 DEF MainStep, MainStarts

\* ... and the other threads
LEMMA OthersKeepTypes ==
  ASSUME ServerInv, NEW t \in Servers, OtherStep(t)
  PROVE  ProcessesOK' /\ OthersSame(t)
<1> USE DEF ServerInv, ProcessesOK, MainStates, Go, queues, serverVars,
            OthersSame
<1>1. CASE ReceiveShutdown(t)
  BY <1>1 DEF ReceiveShutdown
<1>2. CASE HandleCommand(t)
  BY <1>2 DEF HandleCommand
<1>3. CASE SourceDelivers(t)
  BY <1>3 DEF SourceDelivers
<1>4. CASE SourceEnds(t)
  BY <1>4 DEF SourceEnds
<1>5. CASE ClassifyEvents(t)
  BY <1>5 DEF ClassifyEvents
<1>6. CASE StorageReturns(t)
  BY <1>6 DEF StorageReturns
<1>7. CASE HandledSigterm(t)
  BY <1>7 DEF HandledSigterm
<1>8. CASE SourceEndsUnseen(t)
  BY <1>8 DEF SourceEndsUnseen
<1>9. CASE RunnerMissesStop(t)
  BY <1>9 DEF RunnerMissesStop
<1> QED
  BY <1>1, <1>2, <1>3, <1>4, <1>5, <1>6, <1>7, <1>8, <1>9 DEF OtherStep

\* How the name may change
LEMMA MainKeepsName ==
  ASSUME ServerInv, NEW t \in Servers, MainStep(t)
  PROVE  NameStep(t)
<1> USE DEF NameStep, Go, queues, serverVars, ServerInv, ProcessesOK
<1>1. CASE LoadConfiguration(t)
  BY <1>1 DEF LoadConfiguration
<1>2. CASE SetupMessageQueue(t)
  BY <1>2 DEF SetupMessageQueue, CreateSucceeds
<1>3. CASE AskUserForQueueReset(t)
  <2>1. CASE queue_name' = NoQueue /\ reset' = TRUE
    BY <1>3, <2>1, Zenon DEF AskUserForQueueReset
  <2>2. CASE UNCHANGED <<queue_name, reset>>
    BY <1>3, <2>2 DEF AskUserForQueueReset
  <2> QED
    BY <1>3, <2>1, <2>2 DEF AskUserForQueueReset
<1>4. CASE InstallHandlers(t)
  BY <1>4 DEF InstallHandlers
<1>5. CASE StartReading(t)
  BY <1>5 DEF StartReading
<1>6. CASE StartMessageLoop(t)
  BY <1>6 DEF StartMessageLoop
<1>7. CASE StartThreads(t)
  BY <1>7 DEF StartThreads
<1>8. CASE TestShutdown(t)
  BY <1>8 DEF TestShutdown, SeesShutdown
<1>9. CASE LoopWorkersOnce(t)
  BY <1>9 DEF LoopWorkersOnce
<1>10. CASE StopSource(t)
  BY <1>10 DEF StopSource
<1>11. CASE StopThreads(t)
  BY <1>11 DEF StopThreads
<1>12. CASE SpuriousWakeup(t)
  BY <1>12 DEF SpuriousWakeup
<1>13. CASE StopModelStorageThread(t)
  BY <1>13 DEF StopModelStorageThread
<1>14. CASE JoinModelStorageThread(t)
  BY <1>14 DEF JoinModelStorageThread, StorageHasEnded
<1>15. CASE JoinMessageLoop(t)
  BY <1>15 DEF JoinMessageLoop
<1>16. CASE CleanUp(t)
  BY <1>16 DEF CleanUp, NameAfterCleanUp
<1>17. CASE Return(t)
  BY <1>17 DEF Return
<1>18. CASE JoinRunner(t)
  BY <1>18 DEF JoinRunner
<1> QED
  BY <1>1, <1>2, <1>3, <1>4, <1>5, <1>6, <1>7, <1>8, <1>9, <1>10, <1>11,
     <1>12, <1>13, <1>14, <1>15, <1>16, <1>17, <1>18 DEF MainStep, MainStarts

\* ...
LEMMA OthersKeepName ==
  ASSUME ServerInv, NEW t \in Servers, OtherStep(t)
  PROVE  NameStep(t)
<1> USE DEF NameStep, Go, queues, serverVars, ServerInv, ProcessesOK
<1>1. CASE ReceiveShutdown(t)
  BY <1>1 DEF ReceiveShutdown
<1>2. CASE HandleCommand(t)
  BY <1>2 DEF HandleCommand
<1>3. CASE SourceDelivers(t)
  BY <1>3 DEF SourceDelivers
<1>4. CASE SourceEnds(t)
  BY <1>4 DEF SourceEnds
<1>5. CASE ClassifyEvents(t)
  BY <1>5 DEF ClassifyEvents
<1>6. CASE StorageReturns(t)
  BY <1>6 DEF StorageReturns
<1>7. CASE HandledSigterm(t)
  BY <1>7 DEF HandledSigterm
<1>8. CASE SourceEndsUnseen(t)
  BY <1>8 DEF SourceEndsUnseen
<1>9. CASE RunnerMissesStop(t)
  BY <1>9 DEF RunnerMissesStop
<1> QED
  BY <1>1, <1>2, <1>3, <1>4, <1>5, <1>6, <1>7, <1>8, <1>9 DEF OtherStep

\* What holds of the server itself
LEMMA MainKeepsLocal ==
  ASSUME ServerInv, NEW t \in Servers, MainStep(t)
  PROVE  Local(t)'
<1> USE ServerAssumption
    DEF Local, ServerInv, ProcessesOK, NotStarted, NameIsHeld, Stopping,
            CleanExit, Serving, Alive, Dead, Go, queues, serverVars
<1>1. CASE LoadConfiguration(t)
  BY <1>1 DEF LoadConfiguration
<1>2. CASE SetupMessageQueue(t)
  BY <1>2 DEF SetupMessageQueue, CreateSucceeds
<1>3. CASE AskUserForQueueReset(t)
  <2>1. /\ main_pc[t] = "asking" /\ main_pc'[t] \in {"setup", "exited"}
        /\ queue_name' \in {queue_name, NoQueue}
        /\ UNCHANGED <<loop_pc, shutdown_nofare_app, input, events_on_stack,
                       model_thread>>
    BY <1>3 DEF AskUserForQueueReset
  <2>2. queue_name # t
    BY <2>1
  <2>3. queue_name' # t
    <3>1. NoQueue # t
      BY Zenon
    <3> QED
      BY <2>1, <2>2, <3>1
  <2> QED
    BY <2>1, <2>3
<1>4. CASE InstallHandlers(t)
  BY <1>4 DEF InstallHandlers
<1>5. CASE StartReading(t)
  BY <1>5 DEF StartReading
<1>6. CASE StartMessageLoop(t)
  BY <1>6 DEF StartMessageLoop
<1>7. CASE StartThreads(t)
  BY <1>7 DEF StartThreads
<1>8. CASE TestShutdown(t)
  BY <1>8 DEF TestShutdown, SeesShutdown
<1>9. CASE LoopWorkersOnce(t)
  <2>1. /\ main_pc[t] = "working" /\ main_pc'[t] \in {"testing", "stopping"}
        /\ UNCHANGED <<queue_name, loop_pc, shutdown_nofare_app,
                       model_thread>>
    BY <1>9 DEF LoopWorkersOnce
  <2> QED
    BY <2>1
<1>10. CASE StopSource(t)
  BY <1>10 DEF StopSource
<1>11. CASE StopThreads(t)
  BY <1>11 DEF StopThreads
<1>12. CASE SpuriousWakeup(t)
  <2>1. UNCHANGED <<queue_name, loop_pc, shutdown_nofare_app,
                    events_on_stack, model_thread>>
    BY <1>12 DEF SpuriousWakeup
  <2>2. \/ main_pc[t] = "waiting" /\ main_pc'[t] = "stopping threads"
        \/ main_pc[t] = "asleep" /\ main_pc'[t] = "working"
        \/ main_pc[t] = "runner asleep" /\ main_pc'[t] = "stopping storage"
    BY <1>12 DEF SpuriousWakeup
  <2>3. CASE main_pc[t] = "waiting" /\ main_pc'[t] = "stopping threads"
    BY <2>1, <2>3
  <2>4. CASE main_pc[t] = "asleep" /\ main_pc'[t] = "working"
    BY <2>1, <2>4
  <2>5. CASE main_pc[t] = "runner asleep" /\ main_pc'[t] = "stopping storage"
    BY <2>1, <2>5
  <2> QED
    BY <2>2, <2>3, <2>4, <2>5
<1>13. CASE StopModelStorageThread(t)
  BY <1>13 DEF StopModelStorageThread
<1>14. CASE JoinModelStorageThread(t)
  BY <1>14 DEF JoinModelStorageThread, StorageHasEnded
<1>15. CASE JoinMessageLoop(t)
  BY <1>15 DEF JoinMessageLoop
<1>16. CASE CleanUp(t)
  BY <1>16 DEF CleanUp, NameAfterCleanUp
<1>17. CASE Return(t)
  BY <1>17 DEF Return
<1>18. CASE JoinRunner(t)
  BY <1>18 DEF JoinRunner
<1> QED
  BY <1>1, <1>2, <1>3, <1>4, <1>5, <1>6, <1>7, <1>8, <1>9, <1>10, <1>11,
     <1>12, <1>13, <1>14, <1>15, <1>16, <1>17, <1>18 DEF MainStep, MainStarts

\* ...
LEMMA OthersKeepLocal ==
  ASSUME ServerInv, NEW t \in Servers, OtherStep(t)
  PROVE  Local(t)'
<1> USE ServerAssumption
    DEF Local, ServerInv, ProcessesOK, NotStarted, NameIsHeld, Stopping,
            CleanExit, Serving, Alive, Dead, Go, queues, serverVars
<1>1. CASE ReceiveShutdown(t)
  BY <1>1 DEF ReceiveShutdown
<1>2. CASE HandleCommand(t)
  BY <1>2 DEF HandleCommand
<1>3. CASE SourceDelivers(t)
  BY <1>3 DEF SourceDelivers
<1>4. CASE SourceEnds(t)
  BY <1>4 DEF SourceEnds
<1>5. CASE ClassifyEvents(t)
  BY <1>5 DEF ClassifyEvents
<1>6. CASE StorageReturns(t)
  BY <1>6 DEF StorageReturns
<1>7. CASE HandledSigterm(t)
  BY <1>7 DEF HandledSigterm
<1>8. CASE SourceEndsUnseen(t)
  BY <1>8 DEF SourceEndsUnseen
<1>9. CASE RunnerMissesStop(t)
  BY <1>9 DEF RunnerMissesStop
<1> QED
  BY <1>1, <1>2, <1>3, <1>4, <1>5, <1>6, <1>7, <1>8, <1>9 DEF OtherStep

\* ... and how it loses the name itself
LEMMA MainOwnStep ==
  ASSUME ServerInv, NEW t \in Servers, MainStep(t)
  PROVE  OwnStep(t)
<1> USE DEF OwnStep, ServerInv, ProcessesOK, MainStates, Serving, Alive,
            Dead, Local, NameIsHeld, Go, queues, serverVars
<1>1. CASE LoadConfiguration(t)
  BY <1>1 DEF LoadConfiguration
<1>2. CASE SetupMessageQueue(t)
  BY <1>2 DEF SetupMessageQueue, CreateSucceeds
<1>3. CASE AskUserForQueueReset(t)
  BY <1>3 DEF AskUserForQueueReset
<1>4. CASE InstallHandlers(t)
  BY <1>4 DEF InstallHandlers
<1>5. CASE StartReading(t)
  BY <1>5 DEF StartReading
<1>6. CASE StartMessageLoop(t)
  BY <1>6 DEF StartMessageLoop
<1>7. CASE StartThreads(t)
  BY <1>7 DEF StartThreads
<1>8. CASE TestShutdown(t)
  BY <1>8 DEF TestShutdown, SeesShutdown
<1>9. CASE LoopWorkersOnce(t)
  BY <1>9 DEF LoopWorkersOnce
<1>10. CASE StopSource(t)
  BY <1>10 DEF StopSource
<1>11. CASE StopThreads(t)
  BY <1>11 DEF StopThreads
<1>12. CASE SpuriousWakeup(t)
  BY <1>12 DEF SpuriousWakeup
<1>13. CASE StopModelStorageThread(t)
  BY <1>13 DEF StopModelStorageThread
<1>14. CASE JoinModelStorageThread(t)
  BY <1>14 DEF JoinModelStorageThread, StorageHasEnded
<1>15. CASE JoinMessageLoop(t)
  BY <1>15 DEF JoinMessageLoop
<1>16. CASE CleanUp(t)
  BY <1>16 DEF CleanUp, NameAfterCleanUp
<1>17. CASE Return(t)
  BY <1>17 DEF Return
<1>18. CASE JoinRunner(t)
  BY <1>18 DEF JoinRunner
<1> QED
  BY <1>1, <1>2, <1>3, <1>4, <1>5, <1>6, <1>7, <1>8, <1>9, <1>10, <1>11,
     <1>12, <1>13, <1>14, <1>15, <1>16, <1>17, <1>18 DEF MainStep, MainStarts

\* ...
LEMMA OthersOwnStep ==
  ASSUME ServerInv, NEW t \in Servers, OtherStep(t)
  PROVE  OwnStep(t)
<1> USE DEF OwnStep, ServerInv, ProcessesOK, MainStates, Serving, Alive,
            Dead, Local, NameIsHeld, Go, queues, serverVars
<1>1. CASE ReceiveShutdown(t)
  BY <1>1 DEF ReceiveShutdown
<1>2. CASE HandleCommand(t)
  BY <1>2 DEF HandleCommand
<1>3. CASE SourceDelivers(t)
  BY <1>3 DEF SourceDelivers
<1>4. CASE SourceEnds(t)
  BY <1>4 DEF SourceEnds
<1>5. CASE ClassifyEvents(t)
  BY <1>5 DEF ClassifyEvents
<1>6. CASE StorageReturns(t)
  BY <1>6 DEF StorageReturns
<1>7. CASE HandledSigterm(t)
  BY <1>7 DEF HandledSigterm
<1>8. CASE SourceEndsUnseen(t)
  BY <1>8 DEF SourceEndsUnseen
<1>9. CASE RunnerMissesStop(t)
  BY <1>9 DEF RunnerMissesStop
<1> QED
  BY <1>1, <1>2, <1>3, <1>4, <1>5, <1>6, <1>7, <1>8, <1>9 DEF OtherStep

\* A process that is gone keeps nothing but its queue
LEMMA FatalKeepsInv ==
  ASSUME ServerInv, NEW t \in Servers, FatalStep(t)
  PROVE  /\ ProcessesOK' /\ OthersSame(t) /\ NameStep(t)
         /\ Local(t)' /\ OwnStep(t)
<1>1. Local(t) /\ Alive(t)
  BY DEF ServerInv, FatalStep, StopSourceTerminates, ReturnTerminates,
         ReclassifyTerminates, SourceThrows, ClassifierTerminates, Kill,
         Alive, Dead
<1>2. ASSUME NEW how \in {"terminated", "killed"}, Die(t, how)
      PROVE  /\ main_pc'[t] = how /\ loop_pc'[t] = "none"
             /\ OthersSame(t)
             /\ UNCHANGED <<reset, sigterm>>
  BY <1>2 DEF Die, OthersSame, ServerInv, ProcessesOK
<1>3. ASSUME NEW how \in {"terminated", "killed"}, Die(t, how),
             queue_name' \in Servers \cup {NoQueue}
      PROVE  ProcessesOK'
  BY <1>3 DEF Die, ServerInv, ProcessesOK, MainStates
<1>4. CASE Kill(t)
  <2>1. Die(t, "killed") /\ queue_name' = queue_name
    BY <1>4 DEF Kill
  <2>2. main_pc'[t] = "killed" /\ loop_pc'[t] = "none" /\ OthersSame(t)
        /\ UNCHANGED <<reset, sigterm>>
    BY <1>2, <2>1
  <2>3. ProcessesOK'
    BY <1>3, <2>1 DEF ServerInv, ProcessesOK
  <2>4. NameStep(t) /\ Local(t)' /\ OwnStep(t)
    BY <1>1, <2>1, <2>2 DEF NameStep, Local, NotStarted, NameIsHeld, Stopping,
                            CleanExit, OwnStep, Serving, Alive, Dead
  <2> QED
    BY <2>2, <2>3, <2>4
<1>5. CASE Terminate(t) /\ HasHandlers(t)
  <2>1. Die(t, "terminated") /\ queue_name' = NoQueue
    BY <1>5 DEF Terminate, NameAfterAbort
  <2>2. main_pc'[t] = "terminated" /\ loop_pc'[t] = "none" /\ OthersSame(t)
        /\ UNCHANGED <<reset, sigterm>>
    BY <1>2, <2>1
  <2>3. ProcessesOK'
    BY <1>3, <2>1
  <2>4. NoQueue # t
    BY ServerAssumption
  <2>5. NameStep(t) /\ Local(t)' /\ OwnStep(t)
    BY <1>1, <2>1, <2>2, <2>4
    DEF NameStep, Local, NotStarted, NameIsHeld, Stopping, CleanExit,
        OwnStep, Serving, Alive, Dead
  <2> QED
    BY <2>2, <2>3, <2>5
<1>6. FatalStep(t) => Kill(t) \/ (Terminate(t) /\ HasHandlers(t))
  BY <1>1 DEF FatalStep, StopSourceTerminates, ReturnTerminates,
              ReclassifyTerminates, SourceThrows, ClassifierTerminates,
              HasHandlers, Local, NotStarted, Alive, Dead
<1> QED
  BY <1>4, <1>5, <1>6

\* What a server does keeps the invariant of all of them
LEMMA ServerKeepsInv ==
  ASSUME ServerInv, NEW t \in Servers,
         MainStep(t) \/ OtherStep(t) \/ FatalStep(t)
  PROVE  ServerInv'
<1>1. /\ ProcessesOK' /\ OthersSame(t) /\ NameStep(t)
      /\ Local(t)' /\ OwnStep(t)
  BY MainKeepsTypes, OthersKeepTypes, MainKeepsName, OthersKeepName,
     MainKeepsLocal, OthersKeepLocal, MainOwnStep, OthersOwnStep,
     FatalKeepsInv
<1>2. NoQueue \notin Servers
  BY ServerAssumption
<1>3. ASSUME NEW s \in Servers, s # t
      PROVE  Local(s)' /\ Reachable(s)'
  <2>1. /\ Local(s) /\ Reachable(s) /\ Reachable(t)
        /\ queue_name' = s => queue_name = s
    BY <1>1, <1>2, <1>3 DEF ServerInv, NameStep
  <2>2. /\ UNCHANGED <<main_pc[s], loop_pc[s], shutdown_nofare_app[s],
                       input[s], events_on_stack[s], model_thread[s]>>
    BY <1>1, <1>3 DEF OthersSame
  <2>3. Local(s)'
    BY <2>1, <2>2 DEF Local, NotStarted, NameIsHeld, Stopping, CleanExit,
                      Serving, Alive, Dead
  <2>4. ASSUME NEW u \in Servers \ {s}, main_pc[u] = "terminated"
        PROVE  main_pc'[u] = "terminated"
    BY <1>1, <2>4 DEF OthersSame, OwnStep
  <2>5. SUFFICES ASSUME Serving(s)', queue_name' # s, ~reset', ~sigterm'
                 PROVE  \E u \in Servers \ {s} : main_pc'[u] = "terminated"
    BY <2>3 DEF Reachable
  <2>6. Serving(s) /\ ~reset /\ ~sigterm
    BY <1>1, <2>2, <2>5 DEF Serving, Alive, Dead, NameStep
  <2>7. CASE queue_name # s
    BY <2>1, <2>4, <2>6, <2>7 DEF Reachable
  <2>8. CASE queue_name = s
    <3>1. main_pc'[t] = "terminated" \/ main_pc[t] = "cleaning up"
      BY <1>1, <1>2, <2>5, <2>8 DEF NameStep
    <3>2. CASE main_pc'[t] = "terminated"
      BY <1>3, <3>2
    <3>3. CASE main_pc[t] = "cleaning up"
      <4>1. PICK u \in Servers \ {t} : main_pc[u] = "terminated"
        BY <1>3, <2>1, <2>6, <2>8, <3>3 DEF Reachable, Serving, Alive, Dead
      <4>2. u # s
        BY <2>6, <4>1 DEF Serving, Alive, Dead
      <4> QED
        BY <2>4, <4>1, <4>2
    <3> QED
      BY <3>1, <3>2, <3>3
  <2> QED
    BY <2>7, <2>8
<1>4. Reachable(t)'
  <2>1. SUFFICES ASSUME Serving(t)', queue_name' # t, ~reset', ~sigterm'
                 PROVE  \E u \in Servers \ {t} : main_pc'[u] = "terminated"
    BY DEF Reachable
  <2>2. Serving(t) /\ queue_name # t /\ ~reset /\ ~sigterm
    BY <1>1, <2>1 DEF OwnStep, NameStep
  <2>3. PICK u \in Servers \ {t} : main_pc[u] = "terminated"
    BY <2>2 DEF ServerInv, Reachable
  <2> QED
    BY <1>1, <2>3 DEF OthersSame
<1> QED
  BY <1>1, <1>3, <1>4 DEF ServerInv

\* The steps above are all a server takes
LEMMA ServerSteps ==
  ASSUME NEW s,
         \/ MainStarts(s) \/ MainRuns(s) \/ Source(s) \/ OtherThreads(s)
         \/ SpuriousWakeup(s) \/ HandledSigterm(s) \/ Kill(s)
  PROVE  MainStep(s) \/ OtherStep(s) \/ FatalStep(s)
BY Zenon DEF MainStep, OtherStep, FatalStep, MainRuns, Source, OtherThreads

\* The invariant holds at all times
LEMMA ServerInvHolds == Spec => []ServerInv
<1>1. Init => ServerInv
  BY ServerAssumption
  DEF Init, ServerInv, ProcessesOK, MainStates, Local, NotStarted,
      NameIsHeld, Stopping, Reachable, CleanExit, Serving, Alive
<1>2. ServerInv /\ [Next]_vars => ServerInv'
  <2> SUFFICES ASSUME ServerInv, [Next]_vars
               PROVE  ServerInv'
    OBVIOUS
  <2>1. CASE \E s \in Servers : MainStep(s) \/ OtherStep(s) \/ FatalStep(s)
    BY <2>1, ServerKeepsInv
  <2>2. ASSUME UNCHANGED <<queue_name, serverVars, reset, sigterm>>
        PROVE  ServerInv'
    <3>1. /\ queue_name' = queue_name /\ reset' = reset
          /\ sigterm' = sigterm /\ main_pc' = main_pc
          /\ loop_pc' = loop_pc /\ input' = input
          /\ shutdown_nofare_app' = shutdown_nofare_app
          /\ events_on_stack' = events_on_stack
          /\ model_thread' = model_thread
      BY <2>2 DEF serverVars
    <3>2. ProcessesOK'
      BY <3>1 DEF ServerInv, ProcessesOK
    <3>3. ASSUME NEW s \in Servers
          PROVE  Local(s)' /\ Reachable(s)'
      <4>1. Local(s) /\ Reachable(s)
        BY DEF ServerInv
      <4>2. Local(s)'
        BY <3>1, <4>1 DEF Local, NotStarted, NameIsHeld, Stopping,
                          CleanExit, Serving, Alive, Dead
      <4>3. Reachable(s)'
        BY <3>1, <4>1 DEF Reachable, Serving, Alive, Dead
      <4> QED
        BY <4>2, <4>3
    <3> QED
      BY <3>2, <3>3 DEF ServerInv
  <2>3. CASE \E c \in Clients : OpenQueue(c) \/ SendCommand(c)
    BY <2>2, <2>3 DEF OpenQueue, SendCommand
  <2>4. CASE UNCHANGED vars
    BY <2>2, <2>4 DEF vars, queues
  <2> QED
    BY <2>1, <2>3, <2>4, ServerSteps DEF Next
<1> QED
  BY <1>1, <1>2, PTL DEF Spec

-----------------------------------------------------------------------------
(***************************************************************************)
(* A server that has set up its queue is found under the name until it     *)
(* cleans up (setupMessageQueue, cleanUp), for any number of servers,      *)
(* unless a user had the name reset, or a signal of another was handled.   *)
(***************************************************************************)
THEOREM ServersAreReachable == Spec => []ServerIsReachable
<1>1. ServerInv => ServerIsReachable
  BY DEF ServerInv, Reachable, ServerIsReachable
<1> QED
  BY <1>1, ServerInvHolds, PTL

(***************************************************************************)
(* A server that has exited or was aborted leaves no queue under the name. *)
(***************************************************************************)
THEOREM QueuesGoWithServers == Spec => []QueueGoesWithServer
<1>1. ServerInv => QueueGoesWithServer
  BY DEF ServerInv, Local, NameIsHeld, Serving, Alive, Dead,
         QueueGoesWithServer
<1> QED
  BY <1>1, ServerInvHolds, PTL

(***************************************************************************)
(* run returns only after a shutdown command, with all threads joined.     *)
(***************************************************************************)
THEOREM ExitsAreClean == Spec => []ExitIsClean
<1>1. ServerInv => ExitIsClean
  BY DEF ServerInv, Local, CleanExit, ExitIsClean
<1> QED
  BY <1>1, ServerInvHolds, PTL

-----------------------------------------------------------------------------
(* The queues: who sends, and who receives.                                *)

\* Most steps touch no message
LEMMA MainKeepsQueues ==
  ASSUME NEW t, MainStep(t) \/ FatalStep(t)
  PROVE  messages' = messages /\ client_queue' = client_queue
<1>1. CASE MainStep(t)
  BY <1>1
  DEF MainStep, MainStarts, LoadConfiguration, SetupMessageQueue,
      AskUserForQueueReset, InstallHandlers, StartReading, StartMessageLoop,
      SpuriousWakeup, StartThreads, TestShutdown, LoopWorkersOnce,
      StopSource, StopThreads, JoinRunner, StopModelStorageThread,
      JoinModelStorageThread, JoinMessageLoop, CleanUp, Return, queues
<1>2. CASE FatalStep(t)
  BY <1>2
  DEF FatalStep, StopSourceTerminates, ReturnTerminates, SourceThrows,
      ReclassifyTerminates, ClassifierTerminates, Kill, Terminate, Die
<1> QED
  BY <1>1, <1>2

\* The message loop receives
LEMMA OthersKeepQueues ==
  ASSUME QueuesOK, NEW t \in Servers, OtherStep(t)
  PROVE  QueuesOK'
<1>1. ASSUME messages' = messages, client_queue' = client_queue
      PROVE  QueuesOK'
  BY <1>1 DEF QueuesOK
<1>2. CASE HandleCommand(t) \/ ReceiveShutdown(t)
  <2>1. /\ messages[t] \in Seq(Commands) /\ messages[t] # <<>>
        /\ messages' = [messages EXCEPT ![t] = Tail(messages[t])]
        /\ client_queue' = client_queue
    BY <1>2 DEF HandleCommand, ReceiveShutdown, QueuesOK
  <2>2. /\ Tail(messages[t]) \in Seq(Commands)
        /\ Len(Tail(messages[t])) = Len(messages[t]) - 1
        /\ Len(messages[t]) \in Nat
    BY <2>1
  <2>3. Len(Tail(messages[t])) <= MaxMessages
    BY <2>2, ServerAssumption DEF QueuesOK
  <2> QED
    BY <2>1, <2>2, <2>3 DEF QueuesOK
<1>3. CASE SourceDelivers(t) \/ SourceEnds(t) \/ ClassifyEvents(t)
           \/ SourceEndsUnseen(t) \/ RunnerMissesStop(t)
           \/ StorageReturns(t) \/ HandledSigterm(t)
  BY <1>1, <1>3 DEF SourceDelivers, SourceEnds, SourceEndsUnseen,
                    RunnerMissesStop, ClassifyEvents, StorageReturns,
                    HandledSigterm, Go, queues
<1> QED
  BY <1>2, <1>3 DEF OtherStep

\* ... and a client opens the queue of the name, and sends when it has room
LEMMA ClientsKeepQueues ==
  ASSUME QueuesOK, ProcessesOK, NEW c \in Clients,
         OpenQueue(c) \/ SendCommand(c)
  PROVE  QueuesOK'
<1>1. CASE OpenQueue(c)
  BY <1>1 DEF OpenQueue, QueuesOK, ProcessesOK
<1>2. CASE SendCommand(c)
  <2> DEFINE s == client_queue[c]
  <2>1. s \in Servers /\ HasRoom(s) /\ messages[s] \in Seq(Commands)
    BY <1>2 DEF SendCommand, QueuesOK
  <2>2. PICK command \in Commands :
          messages' = [messages EXCEPT ![s] = Append(messages[s], command)]
    BY <1>2 DEF SendCommand
  <2>3. client_queue' = [client_queue EXCEPT ![c] = NoQueue]
    BY <1>2 DEF SendCommand
  <2>4. /\ Append(messages[s], command) \in Seq(Commands)
        /\ Len(Append(messages[s], command)) = Len(messages[s]) + 1
        /\ Len(messages[s]) \in Nat
    BY <2>1
  <2>5. Len(Append(messages[s], command)) <= MaxMessages
    BY <2>1, <2>4, ServerAssumption DEF HasRoom
  <2> QED
    BY <2>1, <2>2, <2>3, <2>4, <2>5 DEF QueuesOK
<1> QED
  BY <1>1, <1>2

(***************************************************************************)
(* The types, and: no queue of the boost library gets longer than the      *)
(* server has made it, however many clients send at once.                  *)
(***************************************************************************)
THEOREM TypeCorrect == Spec => []TypeOK
<1>1. Init => QueuesOK
  BY ServerAssumption DEF Init, QueuesOK
<1>2. QueuesOK /\ ServerInv /\ [Next]_vars => QueuesOK'
  <2> SUFFICES ASSUME QueuesOK, ServerInv, [Next]_vars
               PROVE  QueuesOK'
    OBVIOUS
  <2>1. ASSUME messages' = messages, client_queue' = client_queue
        PROVE  QueuesOK'
    BY <2>1 DEF QueuesOK
  <2>2. ASSUME NEW t \in Servers,
               MainStep(t) \/ OtherStep(t) \/ FatalStep(t)
        PROVE  QueuesOK'
    BY <2>1, <2>2, MainKeepsQueues, OthersKeepQueues
  <2>3. CASE \E c \in Clients : OpenQueue(c) \/ SendCommand(c)
    BY <2>3, ClientsKeepQueues DEF ServerInv
  <2>4. CASE UNCHANGED vars
    BY <2>1, <2>4 DEF vars, queues
  <2> QED
    BY <2>2, <2>3, <2>4, ServerSteps DEF Next
<1>3. ServerInv => ProcessesOK
  BY DEF ServerInv
<1> QED
  BY <1>1, <1>2, <1>3, ServerInvHolds, PTL DEF Spec, TypeOK
=============================================================================
