------------------------------- MODULE Server -------------------------------
(***************************************************************************)
(* The processes of the application (nofare_app/src): servers, which share *)
(* the name of one message queue, the clients that send them commands, the *)
(* user who answers a server's question, and signals.  Of each server the  *)
(* start, the main loop and the stop of run (Init.h), the message loop,    *)
(* and what the other threads do to these: the source ends the stream, the *)
(* classifier has events on its stack or not, the storage thread ends when *)
(* it is told to.                                                          *)
(*                                                                         *)
(* A queue outlives its name and its server, as shared memory does: it is  *)
(* named after the server that created it.                                 *)
(***************************************************************************)
EXTENDS Integers, Sequences

CONSTANTS
  Servers,      \* processes of the server; each runs once
  Clients,      \* processes of the client; each runs again and again
  NoQueue,
  BluedServers, \* those built to read a file (USE_BLUED), not a device
  Commands,     \* the commands the clients send
  MaxMessages   \* MAX_MESSAGE_NUMBER (100 in the code)

ASSUME ServerAssumption ==
  /\ NoQueue \notin Servers
  /\ BluedServers \subseteq Servers
  /\ Commands \subseteq {"add-label", "reclassify", "shutdown"}
  /\ MaxMessages \in Nat \ {0}

VARIABLES
  queue_name,           \* the server whose queue has the name, or NoQueue
  messages,             \* in the queue of each server
  client_queue,         \* the queue a client has opened
  main_pc, loop_pc,     \* its main thread and its message loop
  shutdown_nofare_app,
  input,                \* what loopWorkersOnce finds in the data queue
  events_on_stack,      \* the classifier has work
  model_thread,
  reset, sigterm        \* history: was there a "yes", a handled SIGTERM?

serverVars == <<main_pc, loop_pc, shutdown_nofare_app, input,
                events_on_stack, model_thread>>
queues == <<queue_name, messages, client_queue>>
vars == <<queues, serverVars, reset, sigterm>>

-----------------------------------------------------------------------------
Init ==
  /\ queue_name = NoQueue
  /\ messages = [s \in Servers |-> <<>>]
  /\ client_queue = [c \in Clients |-> NoQueue]
  /\ main_pc = [s \in Servers |-> "off"]
  /\ loop_pc = [s \in Servers |-> "none"]
  /\ shutdown_nofare_app = [s \in Servers |-> FALSE]
  /\ input = [s \in Servers |-> "none"]
  /\ events_on_stack = [s \in Servers |-> FALSE]
  /\ model_thread = [s \in Servers |-> "none"]
  /\ reset = FALSE /\ sigterm = FALSE

Dead(s)  == main_pc[s] \in {"exited", "terminated", "killed"}
Alive(s) == main_pc[s] # "off" /\ ~Dead(s)

\* Since when SIGABRT and SIGTERM call cleanUp
HasHandlers(s) ==
  Alive(s) /\ main_pc[s] \notin {"setup", "asking", "created"}

Go(s, from, to) ==
  /\ main_pc[s] = from
  /\ main_pc' = [main_pc EXCEPT ![s] = to]

KeepsNameMutant(s) == queue_name

\* The name after cleanUp, whosever queue has it
NameAfterAbort(s) == IF HasHandlers(s) THEN NoQueue ELSE queue_name

\* The process is gone, and with it its threads and its memory
Die(s, how) ==
  /\ main_pc' = [main_pc EXCEPT ![s] = how]
  /\ loop_pc' = [loop_pc EXCEPT ![s] = "none"]
  /\ shutdown_nofare_app' = [shutdown_nofare_app EXCEPT ![s] = FALSE]
  /\ input' = [input EXCEPT ![s] = "none"]
  /\ events_on_stack' = [events_on_stack EXCEPT ![s] = FALSE]
  /\ model_thread' = [model_thread EXCEPT ![s] = "none"]
  /\ UNCHANGED <<messages, client_queue, reset, sigterm>>

\* std::terminate, in any thread: SIGABRT
Terminate(s) ==
  /\ queue_name' = NameAfterAbort(s)
  /\ Die(s, "terminated")

-----------------------------------------------------------------------------
(* The main thread: run.                                                   *)

LoadConfiguration(s) ==
  /\ Go(s, "off", "setup") \/ Go(s, "off", "exited")
  /\ UNCHANGED <<queues, loop_pc, shutdown_nofare_app, input,
                 events_on_stack, model_thread, reset, sigterm>>

OpenOrCreateMutant == TRUE
CreateSucceeds == queue_name = NoQueue

SetupMessageQueue(s) ==
  /\ \/ /\ CreateSucceeds
        /\ Go(s, "setup", "created")
        /\ queue_name' = s
     \/ /\ ~CreateSucceeds
        /\ Go(s, "setup", "asking")
        /\ UNCHANGED queue_name
  /\ UNCHANGED <<messages, client_queue, loop_pc, shutdown_nofare_app,
                 input, events_on_stack, model_thread, reset, sigterm>>

AskUserForQueueReset(s) ==
  /\ \/ /\ Go(s, "asking", "setup")
        /\ queue_name' = NoQueue /\ reset' = TRUE
     \/ /\ Go(s, "asking", "exited")
        /\ UNCHANGED <<queue_name, reset>>
  /\ UNCHANGED <<messages, client_queue, loop_pc, shutdown_nofare_app,
                 input, events_on_stack, model_thread, sigterm>>

InstallHandlers(s) ==
  /\ Go(s, "created", "starting")
  /\ UNCHANGED <<queues, loop_pc, shutdown_nofare_app, input,
                 events_on_stack, model_thread, reset, sigterm>>

StartReading(s) ==
  /\ Go(s, "starting", "reading")
  /\ input' = [input EXCEPT ![s] = "opening"]
  /\ UNCHANGED <<queues, loop_pc, shutdown_nofare_app,
                 events_on_stack, model_thread, reset, sigterm>>

StartMessageLoop(s) ==
  /\ Go(s, "reading", "receiving")
  /\ loop_pc' = [loop_pc EXCEPT ![s] = "receiving"]
  /\ UNCHANGED <<queues, shutdown_nofare_app, input, events_on_stack,
                 model_thread, reset, sigterm>>

StartThreads(s) ==
  /\ Go(s, "receiving", "testing")
  /\ model_thread' = [model_thread EXCEPT ![s] = "running"]
  /\ UNCHANGED <<queues, loop_pc, shutdown_nofare_app, input,
                 events_on_stack, reset, sigterm>>

ShutdownIgnoredMutant(s) == FALSE
SeesShutdown(s) == shutdown_nofare_app[s]

TestShutdown(s) ==
  /\ Go(s, "testing", IF SeesShutdown(s) THEN "stopping" ELSE "working")
  /\ UNCHANGED <<queues, loop_pc, shutdown_nofare_app, input,
                 events_on_stack, model_thread, reset, sigterm>>

\* It takes what it needs, if its workers need any points, and waits for data
\* or the end of the stream; an event may be pushed, and run catches every
\* exception
LoopWorkersOnce(s) ==
  /\ \/ /\ Go(s, "working", "testing")
        /\ \/ UNCHANGED input
           \/ input[s] = "data" /\ input' = [input EXCEPT ![s] = "waiting"]
        /\ \E pushed \in BOOLEAN :
             events_on_stack' =
               [events_on_stack EXCEPT ![s] = @ \/ pushed]
     \/ /\ input[s] = "ended"
        /\ Go(s, "working", "stopping")
        /\ UNCHANGED <<input, events_on_stack>>
  /\ UNCHANGED <<queues, loop_pc, shutdown_nofare_app, model_thread,
                 reset, sigterm>>

\* BluedHdf5InputSource::stopNow discards the rest of the stream
StopSource(s) ==
  /\ s \in BluedServers
  /\ Go(s, "stopping", "stopping threads")
  /\ input' = [input EXCEPT ![s] = "ended"]
  /\ UNCHANGED <<queues, loop_pc, shutdown_nofare_app,
                 events_on_stack, model_thread, reset, sigterm>>

\* InputSource::stopNow assigns to a joinable thread
StopSourceTerminates(s) ==
  /\ s \notin BluedServers /\ main_pc[s] = "stopping"
  /\ Terminate(s)

\* stopAnalyzingWhenDone, which is not notified when the stack gets empty
StopThreads(s) ==
  /\ Go(s, "stopping threads",
        IF events_on_stack[s] THEN "waiting" ELSE "joining runner")
  /\ UNCHANGED <<queues, loop_pc, shutdown_nofare_app, input,
                 events_on_stack, model_thread, reset, sigterm>>

\* stopAnalyzingImmediately: the runner of the classifier has seen that it
\* is not to continue
JoinRunner(s) ==
  /\ Go(s, "joining runner", "stopping storage")
  /\ UNCHANGED <<queues, loop_pc, shutdown_nofare_app, input,
                 events_on_stack, model_thread, reset, sigterm>>

\* ... or it looked before the flag was cleared, which is done without the
\* mutex, and waits after it was notified
RunnerMissesStop(s) ==
  /\ Go(s, "joining runner", "runner asleep")
  /\ UNCHANGED <<queues, loop_pc, shutdown_nofare_app, input,
                 events_on_stack, model_thread, reset, sigterm>>

\* Of stopAnalyzingWhenDone, popDataPoints and the runner
SpuriousWakeup(s) ==
  /\ \/ Go(s, "waiting", "stopping threads")
     \/ Go(s, "asleep", "working")
     \/ Go(s, "runner asleep", "stopping storage")
  /\ UNCHANGED <<queues, loop_pc, shutdown_nofare_app, input,
                 events_on_stack, model_thread, reset, sigterm>>

StopModelStorageThread(s) ==
  /\ Go(s, "stopping storage", "joining storage")
  /\ model_thread' = [model_thread EXCEPT ![s] = "told"]
  /\ UNCHANGED <<queues, loop_pc, shutdown_nofare_app, input,
                 events_on_stack, reset, sigterm>>

NotWaitedForMutant(s) == TRUE
StorageHasEnded(s) == model_thread[s] = "returned"

JoinModelStorageThread(s) ==
  /\ StorageHasEnded(s)
  /\ Go(s, "joining storage", "joining loop")
  /\ UNCHANGED <<queues, loop_pc, shutdown_nofare_app, input,
                 events_on_stack, model_thread, reset, sigterm>>

\* Only after a shutdown command
JoinMessageLoop(s) ==
  /\ Go(s, "joining loop", "cleaning up")
  /\ IF shutdown_nofare_app[s]
       THEN /\ loop_pc[s] = "returned"
            /\ loop_pc' = [loop_pc EXCEPT ![s] = "joined"]
       ELSE UNCHANGED loop_pc
  /\ UNCHANGED <<queues, shutdown_nofare_app, input, events_on_stack,
                 model_thread, reset, sigterm>>

NameAfterCleanUp(s) == NoQueue

CleanUp(s) ==
  /\ Go(s, "cleaning up", "returning")
  /\ queue_name' = NameAfterCleanUp(s)
  /\ UNCHANGED <<messages, client_queue, loop_pc, shutdown_nofare_app,
                 input, events_on_stack, model_thread, reset, sigterm>>

\* The destructors of the locals of run, the message loop's thread first
Return(s) ==
  /\ loop_pc[s] = "joined"
  /\ Go(s, "returning", "exited")
  /\ UNCHANGED <<queues, loop_pc, shutdown_nofare_app, input,
                 events_on_stack, model_thread, reset, sigterm>>

ReturnTerminates(s) ==
  /\ loop_pc[s] # "joined" /\ main_pc[s] = "returning"
  /\ Terminate(s)

-----------------------------------------------------------------------------
(* The other threads of a server.                                          *)

\* A command that does not stop the loop: what it does to the classifier is
\* the subject of DataClassifier
HandleCommand(s) ==
  /\ Alive(s) /\ loop_pc[s] = "receiving" /\ messages[s] # <<>>
  /\ Head(messages[s]) # "shutdown"
  /\ messages' = [messages EXCEPT ![s] = Tail(@)]
  /\ UNCHANGED <<queue_name, client_queue, serverVars, reset, sigterm>>

\* reclassify throws when it has not enough labeled events
ReclassifyTerminates(s) ==
  /\ Alive(s) /\ loop_pc[s] = "receiving" /\ messages[s] # <<>>
  /\ Head(messages[s]) = "reclassify"
  /\ Terminate(s)

ReceiveShutdown(s) ==
  /\ Alive(s) /\ loop_pc[s] = "receiving" /\ messages[s] # <<>>
  /\ Head(messages[s]) = "shutdown"
  /\ messages' = [messages EXCEPT ![s] = Tail(@)]
  /\ shutdown_nofare_app' = [shutdown_nofare_app EXCEPT ![s] = TRUE]
  /\ loop_pc' = [loop_pc EXCEPT ![s] = "returned"]
  /\ UNCHANGED <<queue_name, client_queue, main_pc, input,
                 events_on_stack, model_thread, reset, sigterm>>

\* The source opens its file or device, and has points for the main thread
SourceDelivers(s) ==
  /\ Alive(s) /\ input[s] \in {"opening", "waiting"}
  /\ input' = [input EXCEPT ![s] = "data"]
  /\ UNCHANGED <<queues, main_pc, loop_pc, shutdown_nofare_app,
                 events_on_stack, model_thread, reset, sigterm>>

\* The custom source has no end yet
SourceEnds(s) ==
  /\ Alive(s) /\ input[s] \in {"opening", "waiting"} /\ s \in BluedServers
  /\ input' = [input EXCEPT ![s] = "ended"]
  /\ UNCHANGED <<queues, main_pc, loop_pc, shutdown_nofare_app,
                 events_on_stack, model_thread, reset, sigterm>>

\* ... between popDataPoints' test for it and its wait: notifyStreamEnd stores
\* stream_ended without the mutex (module AsyncDataQueue)
SourceEndsUnseen(s) ==
  /\ Alive(s) /\ input[s] \in {"opening", "waiting"} /\ s \in BluedServers
  /\ Go(s, "working", "asleep")
  /\ input' = [input EXCEPT ![s] = "ended"]
  /\ UNCHANGED <<queues, loop_pc, shutdown_nofare_app, events_on_stack,
                 model_thread, reset, sigterm>>

SourceThrows(s) ==
  /\ Alive(s) /\ input[s] = "opening" /\ s \in BluedServers
  /\ Terminate(s)

ClassifyEvents(s) ==
  /\ Alive(s) /\ events_on_stack[s]
  /\ events_on_stack' = [events_on_stack EXCEPT ![s] = FALSE]
  /\ UNCHANGED <<queues, main_pc, loop_pc, shutdown_nofare_app, input,
                 model_thread, reset, sigterm>>

\* Features without a label, a null search tree: see DataClassifier
ClassifierTerminates(s) ==
  /\ Alive(s) /\ events_on_stack[s]
  /\ Terminate(s)

StorageReturns(s) ==
  /\ Alive(s) /\ model_thread[s] = "told"
  /\ model_thread' = [model_thread EXCEPT ![s] = "returned"]
  /\ UNCHANGED <<queues, main_pc, loop_pc, shutdown_nofare_app, input,
                 events_on_stack, reset, sigterm>>

-----------------------------------------------------------------------------
(* Signals from outside.                                                   *)

\* The handler returns, and the server goes on
HandledSigterm(s) ==
  /\ HasHandlers(s)
  /\ queue_name' = NoQueue
  /\ sigterm' = TRUE
  /\ UNCHANGED <<messages, client_queue, serverVars, reset>>

\* SIGKILL, for which no handler can be installed, or SIGTERM before
Kill(s) ==
  /\ Alive(s)
  /\ Die(s, "killed")
  /\ UNCHANGED queue_name

-----------------------------------------------------------------------------
(* The client.                                                             *)

OpenQueue(c) ==
  /\ client_queue[c] = NoQueue /\ queue_name # NoQueue
  /\ client_queue' = [client_queue EXCEPT ![c] = queue_name]
  /\ UNCHANGED <<queue_name, messages, serverVars, reset, sigterm>>

HasRoom(s) == Len(messages[s]) < MaxMessages

\* It waits while the queue is full
SendCommand(c) ==
  LET s == client_queue[c]
  IN  /\ s # NoQueue /\ HasRoom(s)
      /\ \E command \in Commands :
           messages' = [messages EXCEPT ![s] = Append(@, command)]
      /\ client_queue' = [client_queue EXCEPT ![c] = NoQueue]
      /\ UNCHANGED <<queue_name, serverVars, reset, sigterm>>

-----------------------------------------------------------------------------
MainStarts(s) ==
  \/ LoadConfiguration(s) \/ SetupMessageQueue(s) \/ AskUserForQueueReset(s)
  \/ InstallHandlers(s) \/ StartReading(s) \/ StartMessageLoop(s)

MainRuns(s) ==
  \/ StartThreads(s) \/ TestShutdown(s) \/ LoopWorkersOnce(s)
  \/ StopSource(s) \/ StopSourceTerminates(s) \/ StopThreads(s)
  \/ JoinRunner(s)
  \/ StopModelStorageThread(s) \/ JoinModelStorageThread(s)
  \/ JoinMessageLoop(s) \/ CleanUp(s) \/ Return(s) \/ ReturnTerminates(s)

Source(s) ==
  \/ SourceDelivers(s) \/ SourceEnds(s) \/ SourceEndsUnseen(s)
  \/ SourceThrows(s)

OtherThreads(s) ==
  \/ HandleCommand(s) \/ ReclassifyTerminates(s) \/ ReceiveShutdown(s)
  \/ ClassifyEvents(s) \/ ClassifierTerminates(s) \/ RunnerMissesStop(s)
  \/ StorageReturns(s)

Next ==
  \/ \E s \in Servers :
       \/ MainStarts(s) \/ MainRuns(s) \/ Source(s) \/ OtherThreads(s)
       \/ SpuriousWakeup(s) \/ HandledSigterm(s) \/ Kill(s)
  \/ \E c \in Clients : OpenQueue(c) \/ SendCommand(c)

Spec == Init /\ [][Next]_vars

(***************************************************************************)
(* Fairness: the threads of a server are scheduled, and a source that reads*)
(* a file goes on reading.  Nothing is assumed of users, clients, signals, *)
(* spurious wakeups and of a source that reads a device.                   *)
(***************************************************************************)
FairSpec ==
  /\ Spec
  /\ \A s \in Servers :
       /\ WF_vars(MainRuns(s))
       /\ WF_vars(StorageReturns(s))
       /\ WF_vars(s \in BluedServers /\ Source(s))

-----------------------------------------------------------------------------
(* Properties.                                                             *)

MainStates ==
  {"off", "setup", "asking", "created", "starting", "reading", "receiving",
   "testing", "working", "asleep", "stopping", "stopping threads", "waiting",
   "joining runner", "runner asleep", "stopping storage", "joining storage",
   "joining loop", "cleaning up", "returning", "exited", "terminated",
   "killed"}

(***************************************************************************)
(* The types of the variables, and: no queue is longer than it may be.     *)
(***************************************************************************)
QueuesOK ==
  /\ messages \in [Servers -> Seq(Commands)]
  /\ \A s \in Servers : Len(messages[s]) <= MaxMessages
  /\ client_queue \in [Clients -> Servers \cup {NoQueue}]

ProcessesOK ==
  /\ queue_name \in Servers \cup {NoQueue}
  /\ main_pc \in [Servers -> MainStates]
  /\ loop_pc \in [Servers -> {"none", "receiving", "returned", "joined"}]
  /\ shutdown_nofare_app \in [Servers -> BOOLEAN]
  /\ input \in [Servers -> {"none", "opening", "waiting", "data", "ended"}]
  /\ events_on_stack \in [Servers -> BOOLEAN]
  /\ model_thread \in [Servers -> {"none", "running", "told", "returned"}]

TypeOK == QueuesOK /\ ProcessesOK

Serving(s) ==
  Alive(s) /\ main_pc[s] \notin {"off", "setup", "asking", "returning"}

(***************************************************************************)
(* A server that has set up its queue is found under the name, and so is   *)
(* the only one, until it cleans up: unless a user had the name reset, a   *)
(* SIGTERM was handled, or another server was aborted, whose handler       *)
(* removes the name whosever it is by then.                                *)
(***************************************************************************)
ServerIsReachable ==
  \A s \in Servers :
    (Serving(s) /\ queue_name # s) =>
      \/ reset \/ sigterm
      \/ \E t \in Servers \ {s} : main_pc[t] = "terminated"

(***************************************************************************)
(* A server leaves no queue behind, in whatever way it ends, but for a     *)
(* SIGKILL and a SIGTERM before its handlers are there: the next one need  *)
(* not ask.                                                                *)
(***************************************************************************)
QueueGoesWithServer ==
  \A s \in Servers :
    main_pc[s] \in {"exited", "terminated"} => queue_name # s

(***************************************************************************)
(* A server that served returns from run only after a shutdown command,    *)
(* with all threads joined and no event left on the stack.                 *)
(***************************************************************************)
ExitIsClean ==
  \A s \in Servers :
    (main_pc[s] = "exited" /\ loop_pc[s] # "none") =>
      /\ shutdown_nofare_app[s] /\ loop_pc[s] = "joined"
      /\ model_thread[s] = "returned"
      /\ ~events_on_stack[s]

(***************************************************************************)
(* A shutdown command ends a server that reads a file, unless a thread     *)
(* waits for a notification that does not come: for an empty stack         *)
(* (stopAnalyzingWhenDone is not notified), for the end of the stream that *)
(* came just before the wait (popDataPoints), or in the runner of the      *)
(* classifier, which missed that it is not to continue.                    *)
(***************************************************************************)
SleepsForGood == {"waiting", "asleep", "runner asleep"}

ShutdownIsObeyed ==
  \A s \in Servers :
    (s \in BluedServers /\ shutdown_nofare_app[s])
      ~> (Dead(s) \/ main_pc[s] \in SleepsForGood)
=============================================================================
