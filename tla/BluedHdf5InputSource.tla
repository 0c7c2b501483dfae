------------------------ MODULE BluedHdf5InputSource ------------------------
(***************************************************************************)
(* The thread that reads a recorded data set and feeds it to the queue     *)
(* (data_loader/src/BluedHdf5InputSource.cpp), the main thread that starts *)
(* it, takes the points and stops it, and the stream meta data by which    *)
(* the main thread learns when a point was recorded                        *)
(* (DynamicStreamMetaData.cpp).  The queue is the one BoundedStream        *)
(* promises.                                                               *)
(*                                                                         *)
(* The k-th point of the stream has the id k - 1 in the rest of the        *)
(* program.  Times are microseconds after the start of the data set.       *)
(***************************************************************************)
EXTENDS Integers, Sequences

CONSTANTS
  FileSizes,    \* the numbers of points a file may have
  MaxPoints,    \* the largest of them
  BufferSize,   \* buffer_size (1000 in the code)
  Capacity,     \* queue_max_size of the queue
  SampleRate,   \* points of a second
  Second,       \* microseconds of a second (1000000 in the code)
  FloatError,   \* microseconds by which the float arithmetic of a recorded
                \* time may be off, either way, at the end of the largest file
  IntLimit      \* the first number an int cannot hold (2^31)

ASSUME SourceAssumption ==
  /\ MaxPoints \in Nat /\ FileSizes \subseteq 0..MaxPoints
  /\ BufferSize \in Nat \ {0} /\ Capacity \in Nat \ {0}
  /\ SampleRate \in Nat \ {0} /\ Second \in Nat \ {0}
  /\ FloatError \in Nat /\ IntLimit \in Nat

VARIABLES
  data_set_size,            \* of the file that is read
  continue_reading,
  current_offset,
  start_time,               \* 0, or NoTime until it is assigned
  read_count, chunk_left,   \* of the chunk being written, points to go
  runner_pc, main_pc,
  synced_package_id, packet_time,
  buffered, consumed, closed, eof, abandoned,   \* the queue
  written       \* history: the positions in the file of the points written

fileVars   ==
  <<data_set_size, current_offset, read_count, chunk_left, written>>
syncVars   == <<synced_package_id, packet_time>>
queueVars  == <<buffered, consumed, closed, eof, abandoned>>
vars == <<fileVars, syncVars, queueVars, continue_reading, start_time,
          runner_pc, main_pc>>

Queue == INSTANCE BoundedStream

Lesser(a, b) == IF a <= b THEN a ELSE b

-----------------------------------------------------------------------------
(* Time.                                                                   *)

NoTime == -1000     \* not_a_date_time

Plus(time, duration) == IF time = NoTime THEN NoTime ELSE time + duration

\* The duration of n points; integers are divided towards zero
Microseconds(n) ==
  IF n >= 0 THEN (n * Second) \div SampleRate
            ELSE -((-n * Second) \div SampleRate)

\* x_value * 1000 * 1000 of the point at a position of the file: x_value is
\* the time of the point in a float, and the products are floats again
TimesRecorded(position) ==
  LET exact == Microseconds(position)
  IN  {t \in exact - FloatError..exact + FloatError : t >= 0}

FitsInt(i) == -IntLimit <= i /\ i < IntLimit

\* static_cast<int> of a cpp_int gives the nearest int
static_cast_int(i) ==
  IF FitsInt(i) THEN i ELSE IF i < 0 THEN -IntLimit ELSE IntLimit - 1

getDataPointTime(id) ==
  Plus(packet_time, static_cast_int(Microseconds(id - synced_package_id)))

-----------------------------------------------------------------------------
Init ==
  /\ data_set_size \in FileSizes
  /\ continue_reading = TRUE /\ current_offset = 0
  /\ start_time = NoTime
  /\ read_count = 0 /\ chunk_left = 0
  /\ runner_pc = "none" /\ main_pc = "starting"
  /\ synced_package_id = 0 /\ packet_time = NoTime
  /\ Queue!Init
  /\ written = <<>>

-----------------------------------------------------------------------------
(* The main thread.                                                        *)

\* startReading, until the thread is created
StartReading ==
  /\ main_pc = "starting"
  /\ continue_reading' = TRUE /\ current_offset' = 0
  /\ runner_pc' = "opening" /\ main_pc' = "started"
  /\ UNCHANGED <<data_set_size, read_count, chunk_left, written, syncVars,
                 queueVars, start_time>>

\* ... and the rest of it
SetStartTime ==
  /\ main_pc = "started"
  /\ start_time' = 0
  /\ main_pc' = "reading"
  /\ UNCHANGED <<fileVars, syncVars, queueVars, continue_reading, runner_pc>>

TakePoints ==
  /\ main_pc = "reading"
  /\ \E n \in 1..Len(buffered) : Queue!Take(n)
  /\ UNCHANGED <<fileVars, syncVars, continue_reading, start_time, runner_pc,
                 main_pc>>

\* stopNow: at the end of the stream, or on a shutdown
StopNow ==
  /\ main_pc = "reading"
  /\ continue_reading' = FALSE
  /\ main_pc' = "stopping"
  /\ UNCHANGED <<fileVars, syncVars, queueVars, start_time, runner_pc>>

DiscardRestOfStream ==
  /\ main_pc = "stopping"
  /\ Queue!Abandon
  /\ main_pc' = "joining"
  /\ UNCHANGED <<fileVars, syncVars, continue_reading, start_time, runner_pc>>

\* The destructor: stopNow once more, stopGracefully
Join ==
  /\ main_pc = "joining" /\ runner_pc = "returned"
  /\ main_pc' = "stopped"
  /\ UNCHANGED <<fileVars, syncVars, queueVars, continue_reading, start_time,
                 runner_pc>>

-----------------------------------------------------------------------------
(* The runner.                                                             *)

OpenFile ==
  /\ runner_pc = "opening"
  /\ runner_pc' = "testing"
  /\ UNCHANGED <<fileVars, syncVars, queueVars, continue_reading, start_time,
                 main_pc>>

\* There is no such file, or it has no data set of the right shape: nobody
\* catches what is thrown, the process terminates
OpenThrows ==
  /\ runner_pc = "opening"
  /\ runner_pc' = "terminated" /\ main_pc' = "terminated"
  /\ UNCHANGED <<fileVars, syncVars, queueVars, continue_reading, start_time>>

TestContinueReading ==
  /\ runner_pc = "testing"
  /\ runner_pc' = IF continue_reading THEN "reading" ELSE "ending"
  /\ UNCHANGED <<fileVars, syncVars, queueVars, continue_reading, start_time,
                 main_pc>>

EndMissedMutant == FALSE
LastRead == BufferSize > data_set_size - current_offset
ReadCount == IF LastRead THEN data_set_size - current_offset ELSE BufferSize

\* readOnce, in the critical section of hdf5_mutex
ReadOnce ==
  /\ runner_pc = "reading"
  /\ IF continue_reading
       THEN /\ read_count' = ReadCount
            /\ chunk_left' = ReadCount
            /\ continue_reading' = ~LastRead
            /\ runner_pc' = "adding"
       ELSE /\ runner_pc' = "testing"
            /\ UNCHANGED <<read_count, chunk_left, continue_reading>>
  /\ UNCHANGED <<data_set_size, current_offset, written, syncVars, queueVars,
                 start_time, main_pc>>

\* addDataPoints adds what fits, until it has added all of the chunk ...
AddDataPoints ==
  /\ runner_pc = "adding" /\ chunk_left > 0
  /\ Len(buffered) < Capacity
  /\ LET n     == Lesser(chunk_left, Capacity - Len(buffered))
         first == current_offset + read_count - chunk_left
     IN  /\ Queue!Send(n)
         /\ written' = written \o [i \in 1..n |-> first + i - 1]
         /\ chunk_left' = chunk_left - n
  /\ UNCHANGED <<data_set_size, current_offset, read_count, syncVars,
                 continue_reading, start_time, runner_pc, main_pc>>

\* ... or the stream has ended
AddReturns ==
  /\ runner_pc = "adding"
  /\ chunk_left = 0 \/ closed
  /\ runner_pc' = "syncing"
  /\ UNCHANGED <<fileVars, syncVars, queueVars, continue_reading, start_time,
                 main_pc>>

\* updateDynamicStreamMetaData; current_offset is still that of the chunk
SyncedBehindMutant == current_offset - BufferSize - 1
SyncedId == current_offset - 1

OffsetSkipsOneMutant == current_offset + read_count + 1
NextOffset == current_offset + read_count

SyncTimePoint ==
  /\ runner_pc = "syncing"
  /\ IF read_count > 0
       THEN /\ synced_package_id' = SyncedId
            /\ \E t \in TimesRecorded(current_offset + read_count - 1) :
                 packet_time' = Plus(start_time, t)
       ELSE UNCHANGED syncVars
  /\ current_offset' = NextOffset
  /\ runner_pc' = "testing"
  /\ UNCHANGED <<data_set_size, read_count, chunk_left, written, queueVars,
                 continue_reading, start_time, main_pc>>

NotifyStreamEnd ==
  /\ runner_pc = "ending"
  /\ Queue!Close
  /\ runner_pc' = "returned"
  /\ UNCHANGED <<fileVars, syncVars, continue_reading, start_time, main_pc>>

-----------------------------------------------------------------------------
MainStarts == StartReading \/ SetStartTime
MainStops  == DiscardRestOfStream \/ Join

Runner ==
  \/ OpenFile \/ OpenThrows \/ TestContinueReading \/ ReadOnce
  \/ AddDataPoints \/ AddReturns \/ SyncTimePoint \/ NotifyStreamEnd

Next == MainStarts \/ TakePoints \/ StopNow \/ MainStops \/ Runner

Spec == Init /\ [][Next]_vars

(***************************************************************************)
(* Fairness: both threads are scheduled.  The main thread takes points     *)
(* while there are any and it has not stopped; whether it stops is up to   *)
(* the user.                                                               *)
(***************************************************************************)
FairSpec ==
  /\ Spec
  /\ WF_vars(MainStarts) /\ WF_vars(TakePoints) /\ WF_vars(MainStops)
  /\ WF_vars(Runner)

-----------------------------------------------------------------------------
(* Properties.                                                             *)

(***************************************************************************)
(* The types of the fields; a chunk lies inside the file, and points are   *)
(* only synchronised that have been written or are being written.          *)
(***************************************************************************)
TypeOK ==
  /\ continue_reading \in BOOLEAN
  /\ current_offset \in 0..data_set_size
  /\ start_time \in {0, NoTime}
  /\ read_count \in 0..BufferSize /\ chunk_left \in 0..read_count
  /\ runner_pc \in {"none", "opening", "testing", "reading", "adding",
                    "syncing", "ending", "returned", "terminated"}
  /\ main_pc \in {"starting", "started", "reading", "stopping", "joining",
                  "stopped", "terminated"}
  /\ synced_package_id \in -1..data_set_size
  /\ \/ packet_time = NoTime
     \/ packet_time \in 0..Microseconds(data_set_size) + FloatError
  /\ Len(buffered) <= Capacity

(***************************************************************************)
(* The k-th point of the stream is the k-th of the file, however chunks    *)
(* and the queue cut them up: offsets and read counts fit together.  And   *)
(* the stream ends by itself only when the whole file was written, also    *)
(* when its size is a multiple of the buffer size (the comparison in       *)
(* readOnce).                                                              *)
(***************************************************************************)
StreamIsFile ==
  /\ Len(written) <= data_set_size
  /\ \A k \in 1..Len(written) : written[k] = k - 1
  /\ (runner_pc \in {"ending", "returned"} /\ main_pc = "reading")
       => Len(written) = data_set_size

(***************************************************************************)
(* The time of a point that getDataPointTime gives is that of the point    *)
(* in the file or at most a chunk later: the time points that are          *)
(* synchronised are one chunk late.  The error of the recorded float comes *)
(* on top, either way, and the conversions to microseconds round, by one   *)
(* down or two up.  It says nothing of points so far from the synchronised *)
(* one that the difference is not an int (36 minutes).                     *)
(***************************************************************************)
TimesAtMostAChunkLate ==
  packet_time # NoTime =>
    \A id \in 0..data_set_size - 1 :
      FitsInt(Microseconds(id - synced_package_id)) =>
        getDataPointTime(id) - Microseconds(id)
          \in -1 - FloatError..Microseconds(BufferSize) + 2 + FloatError

(***************************************************************************)
(* The reading of a file comes to its end unless the process does: the     *)
(* runner returns after the last chunk or after stopNow, also when it is   *)
(* waiting for room in the queue.                                          *)
(***************************************************************************)
RunnerReturns ==
  (runner_pc \notin {"none", "terminated"})
    ~> (runner_pc \in {"returned", "terminated"})
=============================================================================
