--------------------------- MODULE BluedInputSource ---------------------------
(***************************************************************************)
(* The thread that reads the original text files of the BLUED data set     *)
(* (data_loader/src/BluedInputSource.cpp) and the main thread of the       *)
(* converter, which writes what comes through the queue to a data set      *)
(* (blued_converter/src/BluedHdf5Converter.cpp).                           *)
(*                                                                         *)
(* A file is the number of its lines of data, whether it has the header    *)
(* that precedes them, whether its last line ends with a newline, and      *)
(* whether its first time stamp follows on the last one of the file before *)
(* it.  A data point is its file and line.                                 *)
(***************************************************************************)
EXTENDS Integers, Sequences, SequencesExt

CONSTANTS
  FileSets,     \* the sequences of files a location may have, sorted by name
  BufferSize,   \* buffer_size of readOnce (10000 in the code)
  Capacity,     \* queue_max_size of the queue (4096 in the code)
  WriteSize     \* buffer_size of writeData (1000 in the code)

File == [lines : Nat, header : BOOLEAN, newline : BOOLEAN, continues : BOOLEAN]

ASSUME BluedAssumption ==
  /\ FileSets \subseteq Seq(File)
  /\ {BufferSize, Capacity, WriteSize} \subseteq Nat \ {0}

VARIABLES
  files,              \* the files that are read
  process,            \* "running", "terminated" or "undefined"
  \* the reading thread
  runner_pc,
  whole_location,     \* it executes runLocations, else run
  file, line,         \* the file it reads, and the lines of it it has read
  previous_x_value,   \* "none" (-1000), that of a "line", or "indeterminate"
  buffer, success,    \* of readOnce
  continue_reading,
  \* the queue
  data_manager,       \* there is a queue: the pointer is not null
  data_queue, stream_ended,
  \* the main thread
  main_pc,            \* of popDataPoints: "popping", "blocking", "waiting"
                      \* and "testing"
  popped,             \* the buffer of writeData
  dataset,            \* what it has written
  failed              \* creating or writing the data set has thrown

runnerVars == <<runner_pc, whole_location, file, line, previous_x_value,
                buffer, success>>
queueVars  == <<data_manager, data_queue, stream_ended>>
mainVars   == <<main_pc, popped, dataset, failed>>
vars == <<files, process, runnerVars, continue_reading, queueVars, mainVars>>

Lesser(a, b) == IF a <= b THEN a ELSE b

\* A point made of what was on the stack, when there was no line to read
Indeterminate == <<0, 0>>

Init ==
  /\ files \in FileSets
  /\ process = "running"
  /\ runner_pc = "none" /\ whole_location = FALSE
  /\ file = 0 /\ line = 0 /\ previous_x_value = "none"
  /\ buffer = <<>> /\ success = TRUE
  /\ continue_reading = TRUE
  /\ data_manager \in BOOLEAN /\ data_queue = <<>> /\ stream_ended = FALSE
  /\ main_pc = "starting"
  /\ popped = <<>> /\ dataset = <<>> /\ failed = FALSE

-----------------------------------------------------------------------------
(* The reading thread.                                                     *)

\* The pointer is followed without a test
RestartStreaming ==
  /\ runner_pc = "restarting" /\ data_manager
  /\ stream_ended' = FALSE
  /\ runner_pc' = IF whole_location THEN "locating" ELSE "opening"
  /\ file' = IF whole_location THEN 0 ELSE 1
  /\ UNCHANGED <<files, process, whole_location, line, previous_x_value,
                 buffer, success, continue_reading, data_manager, data_queue,
                 mainVars>>

RestartsNothing ==
  /\ runner_pc = "restarting" /\ ~data_manager
  /\ process' = "undefined"
  /\ UNCHANGED <<files, runnerVars, continue_reading, queueVars, mainVars>>

\* The loop of runLocations
NextLocation ==
  /\ runner_pc = "locating"
  /\ IF file < Len(files) /\ continue_reading
       THEN file' = file + 1 /\ runner_pc' = "opening"
       ELSE runner_pc' = "ending" /\ UNCHANGED file
  /\ UNCHANGED <<files, process, whole_location, line, previous_x_value,
                 buffer, success, continue_reading, queueVars, mainVars>>

\* A file that cannot be opened, or has no header, ends the process: nobody
\* catches the exception
SkipToData ==
  /\ runner_pc = "opening"
  /\ IF files[file].header THEN runner_pc' = "reading" /\ UNCHANGED process
                           ELSE process' = "terminated" /\ UNCHANGED runner_pc
  /\ line' = 0 /\ buffer' = <<>>
  /\ UNCHANGED <<files, whole_location, file, previous_x_value, success,
                 continue_reading, queueVars, mainVars>>

\* good() fails only after a read that came to the end of the file: after the
\* last line if it has no newline, else after an attempt to read another one
Good ==
  \/ line < files[file].lines
  \/ line = files[file].lines /\ files[file].newline

\* The comparison of x_value with previous_x_value
MayBeWithinBounds ==
  \/ previous_x_value # "line"
  \/ line = files[file].lines
  \/ line > 0 \/ files[file].continues

MayBeOutOfBounds ==
  /\ previous_x_value # "none"
  /\ \/ previous_x_value = "indeterminate"
     \/ line = files[file].lines
     \/ line = 0 /\ ~files[file].continues

KeepsReading == Len(buffer) < BufferSize /\ Good /\ continue_reading

\* matchLine; at the end of the file x_value is never written
MatchLine ==
  /\ runner_pc = "reading" /\ KeepsReading /\ MayBeWithinBounds
  /\ LET is_line == line < files[file].lines
     IN  /\ buffer' = Append(buffer, IF is_line THEN <<file, line + 1>>
                                                ELSE Indeterminate)
         /\ previous_x_value' = IF is_line THEN "line" ELSE "indeterminate"
  /\ line' = line + 1
  /\ UNCHANGED <<files, process, runner_pc, whole_location, file, success,
                 continue_reading, queueVars, mainVars>>

MatchLineThrows ==
  /\ runner_pc = "reading" /\ KeepsReading /\ MayBeOutOfBounds
  /\ process' = "terminated"
  /\ UNCHANGED <<files, runnerVars, continue_reading, queueVars, mainVars>>

LastNotDroppedMutant == buffer
WithoutLast == Front(buffer)

\* The rest of readOnce up to addDataPoints: the buffer is full, or the last
\* point in it is dropped.  Without a point the unsigned counter wraps around,
\* and what is added begins at the buffer and ends far behind it.
ReadOnce ==
  /\ runner_pc = "reading" /\ ~KeepsReading
  /\ success' = (Len(buffer) = BufferSize)
  /\ buffer' = IF success' THEN buffer
               ELSE IF buffer = <<>> THEN <<>> ELSE WithoutLast
  /\ runner_pc' = IF buffer = <<>> THEN "adding past buffer" ELSE "adding"
  /\ UNCHANGED <<files, process, whole_location, file, line, previous_x_value,
                 continue_reading, queueVars, mainVars>>

\* notify_one of deque_underflow: it wakes who waits, and nobody else later
Notify == main_pc' = IF main_pc = "waiting" THEN "popping" ELSE main_pc

\* A critical section: nobody holds the mutex between a test and its wait
AddDataPoints ==
  /\ runner_pc = "adding" /\ buffer # <<>> /\ ~stream_ended
  /\ Len(data_queue) < Capacity /\ main_pc # "blocking"
  /\ LET n == Lesser(Len(buffer), Capacity - Len(data_queue))
     IN  /\ data_queue' = data_queue \o SubSeq(buffer, 1, n)
         /\ buffer' = SubSeq(buffer, n + 1, Len(buffer))
  /\ Notify
  /\ UNCHANGED <<files, process, runner_pc, whole_location, file, line,
                 previous_x_value, success, continue_reading, data_manager,
                 stream_ended, popped, dataset, failed>>

AddsPastBuffer ==
  /\ runner_pc = "adding past buffer" /\ ~stream_ended
  /\ process' = "undefined"
  /\ UNCHANGED <<files, runnerVars, continue_reading, queueVars, mainVars>>

\* addDataPoints returns, to the next readOnce or to the end of readFile
AddReturns ==
  /\ \/ runner_pc = "adding" /\ buffer = <<>>
     \/ runner_pc \in {"adding", "adding past buffer"} /\ stream_ended
  /\ buffer' = <<>>
  /\ runner_pc' = IF success THEN "reading"
                  ELSE IF whole_location THEN "locating" ELSE "ending"
  /\ UNCHANGED <<files, process, whole_location, file, line, previous_x_value,
                 success, continue_reading, queueVars, mainVars>>

EndNotStoredMutant == stream_ended
EndStored == TRUE

\* notifyStreamEnd stores the end ...
NotifyStreamEnd ==
  /\ runner_pc = "ending"
  /\ stream_ended' = EndStored
  /\ runner_pc' = "notifying"
  /\ UNCHANGED <<files, process, whole_location, file, line, previous_x_value,
                 buffer, success, continue_reading, data_manager, data_queue,
                 mainVars>>

\* ... and notifies who waits, both without the mutex
NotifyReader ==
  /\ runner_pc = "notifying"
  /\ runner_pc' = "returned"
  /\ Notify
  /\ UNCHANGED <<files, process, whole_location, file, line, previous_x_value,
                 buffer, success, continue_reading, queueVars, popped, dataset,
                 failed>>

Runner ==
  \/ RestartStreaming \/ RestartsNothing \/ NextLocation \/ SkipToData
  \/ MatchLine \/ MatchLineThrows \/ ReadOnce
  \/ AddDataPoints \/ AddsPastBuffer \/ AddReturns \/ NotifyStreamEnd \/ NotifyReader

-----------------------------------------------------------------------------
(* The main thread: the converter, or another user of the class.           *)

Starts(whole) ==
  /\ main_pc = "starting"
  /\ continue_reading' = TRUE
  /\ whole_location' = whole
  /\ runner_pc' = "restarting" /\ main_pc' = "creating"
  /\ UNCHANGED <<files, process, file, line, previous_x_value, buffer, success,
                 data_queue, stream_ended, popped, dataset, failed>>

\* One file; makes a queue if there is none
StartReading == Len(files) = 1 /\ Starts(FALSE) /\ data_manager' = TRUE

\* The text files of a directory; the converter calls it without a queue
ReadWholeLocation == Starts(TRUE) /\ UNCHANGED data_manager

\* Whatever is thrown, the converter goes on to stopGracefully
Catch ==
  /\ failed' = TRUE /\ main_pc' = "stopping"
  /\ UNCHANGED <<files, process, runnerVars, continue_reading, queueVars,
                 popped, dataset>>

CreateNewDataSpace ==
  /\ main_pc = "creating"
  /\ \/ Catch
     \/ /\ main_pc' = "writing"
        /\ UNCHANGED <<files, process, runnerVars, continue_reading, queueVars,
                       popped, dataset, failed>>

PopsNothing ==
  /\ main_pc = "writing" /\ ~data_manager
  /\ process' = "undefined"
  /\ UNCHANGED <<files, runnerVars, continue_reading, queueVars, mainVars>>

HasPoints == data_queue # <<>> \/ stream_ended

EndTestedFirstMutant ==
  IF stream_ended THEN 0 ELSE Lesser(WriteSize - Len(popped), Len(data_queue))
elements_pulled == Lesser(WriteSize - Len(popped), Len(data_queue))

\* A round of popDataPoints takes what there is ...
PopDataPoints ==
  /\ main_pc \in {"writing", "popping"} /\ data_manager /\ HasPoints
  /\ popped' = popped \o SubSeq(data_queue, 1, elements_pulled)
  /\ data_queue' = SubSeq(data_queue, elements_pulled + 1, Len(data_queue))
  /\ main_pc' = "testing"
  /\ UNCHANGED <<files, process, runnerVars, continue_reading, data_manager,
                 stream_ended, dataset, failed>>

\* ... or finds nothing, and has yet to begin to wait: it holds the mutex
FindsNothing ==
  /\ main_pc \in {"writing", "popping"} /\ data_manager /\ ~HasPoints
  /\ main_pc' = "blocking"
  /\ UNCHANGED <<files, process, runnerVars, continue_reading, queueVars,
                 popped, dataset, failed>>

Waits ==
  /\ main_pc = "blocking" /\ main_pc' = "waiting"
  /\ UNCHANGED <<files, process, runnerVars, continue_reading, queueVars,
                 popped, dataset, failed>>

\* A wait may return without a notification
SpuriousWakeup ==
  /\ main_pc = "waiting" /\ main_pc' = "popping"
  /\ UNCHANGED <<files, process, runnerVars, continue_reading, queueVars,
                 popped, dataset, failed>>

\* Rounds follow until it has all it was asked for or the stream has ended:
\* tested without the mutex
TestsEnd ==
  /\ main_pc = "testing"
  /\ main_pc' = IF Len(popped) < WriteSize /\ ~stream_ended THEN "popping"
                                                           ELSE "popped"
  /\ UNCHANGED <<files, process, runnerVars, continue_reading, queueVars,
                 popped, dataset, failed>>

WriteData ==
  /\ main_pc = "popped" /\ popped # <<>>
  /\ \/ Catch
     \/ /\ dataset' = dataset \o popped
        /\ popped' = <<>>
        /\ main_pc' = "writing"
        /\ UNCHANGED <<files, process, runnerVars, continue_reading, queueVars,
                       failed>>

WriteDataReturns ==
  /\ main_pc = "popped" /\ popped = <<>>
  /\ main_pc' = "stopping"
  /\ UNCHANGED <<files, process, runnerVars, continue_reading, queueVars,
                 popped, dataset, failed>>

StopGracefully ==
  /\ main_pc = "stopping"
  /\ continue_reading' = FALSE
  /\ main_pc' = "joining"
  /\ UNCHANGED <<files, process, runnerVars, queueVars, popped, dataset,
                 failed>>

\* The destructor of a source that is still read: stopNow, which discards the
\* rest of the stream, and stopGracefully
StopNow ==
  /\ main_pc = "writing" /\ data_manager
  /\ continue_reading' = FALSE
  /\ main_pc' = "discarding"
  /\ UNCHANGED <<files, process, runnerVars, queueVars, popped, dataset,
                 failed>>

DiscardRestOfStream ==
  /\ main_pc = "discarding"
  /\ data_queue' = <<>> /\ stream_ended' = TRUE
  /\ main_pc' = "joining"
  /\ UNCHANGED <<files, process, runnerVars, continue_reading, data_manager,
                 popped, dataset, failed>>

Join ==
  /\ main_pc = "joining" /\ runner_pc = "returned"
  /\ main_pc' = "joined"
  /\ UNCHANGED <<files, process, runnerVars, continue_reading, queueVars,
                 popped, dataset, failed>>

Main ==
  \/ StartReading \/ ReadWholeLocation \/ CreateNewDataSpace \/ PopsNothing
  \/ PopDataPoints \/ FindsNothing \/ Waits \/ TestsEnd
  \/ WriteData \/ WriteDataReturns \/ StopGracefully
  \/ DiscardRestOfStream \/ Join

-----------------------------------------------------------------------------
Next == process = "running" /\ (Runner \/ Main \/ StopNow \/ SpuriousWakeup)

Spec == Init /\ [][Next]_vars

\* Both threads are scheduled, and the runner gets the mutex of the queue when
\* it is free again and again; nobody has to stop a source early, and a wait
\* need not return without a notification
FairSpec ==
  /\ Spec
  /\ WF_vars(process = "running" /\ Runner)
  /\ SF_vars(process = "running" /\ AddDataPoints)
  /\ WF_vars(process = "running" /\ Main)

-----------------------------------------------------------------------------
(* Properties.                                                             *)

\* What the loops of readFile and readOnce make of f, which is file number i
Delivered(f, i) ==
  LET n        == f.lines
      Lines(k) == [j \in 1..k |-> <<i, j>>]
  IN  CASE ~f.newline /\ n % BufferSize # 0 -> Lines(n - 1)
        [] f.newline /\ (n + 1) % BufferSize = 0 ->
             Append(Lines(n), Indeterminate)
        [] OTHER -> Lines(n)

Conversion == FlattenSeq([i \in DOMAIN files |-> Delivered(files[i], i)])

(***************************************************************************)
(* What comes out of the queue are the lines of the files in their order,  *)
(* and none twice, however chunks, queue and buffers cut them up and       *)
(* whenever the reading is stopped.  readOnce leaves out the last line of  *)
(* a file without a newline at its end; the point that it makes of nothing *)
(* after the last newline is left out, too, unless it is the last of a     *)
(* full buffer.                                                            *)
(***************************************************************************)
StreamIsFiles == IsPrefix(dataset \o popped, Conversion)

(***************************************************************************)
(* writeData returns when all of the files have been converted: the end of *)
(* the stream (notifyStreamEnd, and popDataPoints that returns nothing) is *)
(* not seen before the last of the data.                                   *)
(***************************************************************************)
ConversionIsComplete ==
  (main_pc = "stopping" /\ ~failed) => dataset = Conversion

\* The end of the stream is stored and notified between the test of
\* popDataPoints and its wait
EndMissed == stream_ended /\ runner_pc = "returned" /\ main_pc = "blocking"

(***************************************************************************)
(* A conversion comes to its end: both threads get through the stream and  *)
(* the reading thread is joined, also when it waits for room in the queue  *)
(* while it is stopped; unless the process ends before, the data set       *)
(* cannot be written (then nobody takes points any more, and               *)
(* stopGracefully waits for a thread that waits for room), or the main     *)
(* thread misses the end of the stream.                                    *)
(***************************************************************************)
ConversionEnds ==
  <>(main_pc = "joined" \/ process # "running" \/ failed \/ EndMissed)
==============================================================================
