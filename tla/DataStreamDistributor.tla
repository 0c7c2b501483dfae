------------------------ MODULE DataStreamDistributor ------------------------
(***************************************************************************)
(* The main loop of the server (run in nofare_app/src/server/Init.h) and   *)
(* the distributor it drives (event_detector/src/DataStreamDistributor.h): *)
(* it reads the data stream out of the queue into a local buffer and hands *)
(* every worker the windows it asked for.  The workers are those of        *)
(* SmartApp: the event detector and the metric provider.                   *)
(***************************************************************************)
EXTENDS EventDetector

CONSTANTS
  PowerCurves,      \* the streams: functions from 0..length - 1
  QueueCapacity     \* the most points the queue holds when the stream ends

VARIABLES
  pc,               \* "reading", "asleep" in the pop, "working", "ended",
                    \* "aborted" or "undefined"
  worker_index,     \* j of loopWorkersOnce
  one_worker_was_executed,
  data_queue,       \* the local buffer: the points, oldest first
  current_global_buffer_pos,
  read_infos,       \* what each worker wants to read next
  popped,           \* number of points popped off the AsyncDataQueue
  stream_ended,     \* the end of the stream has been notified
  slots_throw,      \* whether the slots that store an event may throw
  assertions        \* whether the build has assertions (no NDEBUG)

loopVars   == <<pc, worker_index, one_worker_was_executed>>
bufferVars == <<data_queue, current_global_buffer_pos, popped, stream_ended>>
fixedVars  == <<power, slots_throw, assertions>>
vars == <<fixedVars, detectorVars, loopVars, bufferVars, read_infos>>

\* The defaults store nothing before an event
ASSUME DistributorAssumption ==
  /\ QueueCapacity \in Nat
  /\ \A curve \in PowerCurves :
       /\ IsFiniteSet(DOMAIN curve)
       /\ curve \in [0..Cardinality(DOMAIN curve) - 1 -> Nat]
  /\ Meta.sample_rate > 0
  /\ DefaultMeta.data_points_stored_before_event = 0

Detector  == 1
Metrics   == 2
Workers   == {Detector, Metrics}

StreamLength == Cardinality(DOMAIN power)

\* MetricProvider: nextPeriod
PeriodNotLeftMutant(meta, id) == NextReadInfos(0, meta.sample_rate, id)
nextPeriod(meta, id) ==
  NextReadInfos(0, meta.sample_rate, id + meta.sample_rate)

Answer(worker, window, id) ==
  IF worker = Detector THEN DetectorAnswer(window, id)
                       ELSE nextPeriod(Meta, id)

\* The assertions of a worker on its window (the metric provider has one in
\* calculateSteadyStateData)
AssertionHolds(worker, window, id) ==
  IF worker = Detector THEN SearchAssertions(window, id)
                       ELSE window # <<>> => Len(window) = Meta.sample_rate

-----------------------------------------------------------------------------
(* The helpers of the distributor.                                         *)

dataPointsNeededForNextRun ==
  Max({read_infos[w].next + read_infos[w].read : w \in Workers})
    - Len(data_queue) - current_global_buffer_pos

IndexMutant(worker) ==
  IF read_infos[worker].next < current_global_buffer_pos THEN 0
  ELSE read_infos[worker].next
getIndexInLocalBufferforRead(worker) ==
  IF read_infos[worker].next < current_global_buffer_pos THEN 0
  ELSE read_infos[worker].next - current_global_buffer_pos

EarliestFromZeroMutant ==
  Min({0} \union {read_infos[w].next - read_infos[w].keep : w \in Workers})
EarliestIgnoringKeptMutant == Min({read_infos[w].next : w \in Workers})
earliest_pos_needed ==
  Min({read_infos[w].next - read_infos[w].keep : w \in Workers})

ErasedOneMoreMutant == earliest_pos_needed - current_global_buffer_pos + 1
elements_erased == earliest_pos_needed - current_global_buffer_pos

\* data_queue.size() - local_buffer_index >= read_number_of_data_points.  The
\* difference is unsigned: it is huge when the index is past the buffer.
IndexPastBuffer(worker) ==
  getIndexInLocalBufferforRead(worker) > Len(data_queue)

WindowInBuffer(worker) ==
  Len(data_queue) - getIndexInLocalBufferforRead(worker)
    >= read_infos[worker].read

Window(worker) ==
  LET index == getIndexInLocalBufferforRead(worker)
  IN  SubSeq(data_queue, index + 1, index + read_infos[worker].read)

WindowId(worker) ==
  current_global_buffer_pos + getIndexInLocalBufferforRead(worker)

-----------------------------------------------------------------------------
(* The workers are added, and the configuration is loaded afterwards.      *)
Init ==
  /\ power \in PowerCurves
  /\ slots_throw \in BOOLEAN /\ assertions \in BOOLEAN
  /\ DetectorInit
  /\ pc = "reading" /\ worker_index = Detector
  /\ one_worker_was_executed = FALSE
  /\ data_queue = <<>> /\ current_global_buffer_pos = 0
  /\ read_infos = <<getFirstDetectionPeriod(DefaultMeta, 0),
                    nextPeriod(DefaultMeta, 0)>>
  /\ popped = 0 /\ stream_ended = FALSE

\* popDataPoints returns everything asked for, or the stream has ended.  A
\* pop that sees the end between two of its critical sections leaves points
\* in the queue; one that starts after the end takes what it can.
Pops(needed, got) ==
  LET rest == StreamLength - popped
  IN  /\ got <= rest
      /\ \/ got = needed /\ UNCHANGED stream_ended
         \/ /\ got < needed /\ stream_ended' = TRUE
            /\ rest - got <= QueueCapacity
            /\ got = 0 => rest = 0
            /\ stream_ended => got = rest

\* readBufferForNextRun.  For a negative number of points resize would throw
\* again and again: there is no step.
ReadBufferForNextRun ==
  /\ pc = "reading"
  /\ \E got \in 0..dataPointsNeededForNextRun :
       /\ Pops(dataPointsNeededForNextRun, got)
       /\ data_queue' = data_queue \o [i \in 1..got |-> popped + i - 1]
       /\ popped' = popped + got
  /\ pc' = "working" /\ worker_index' = Detector
  /\ one_worker_was_executed' = FALSE
  /\ UNCHANGED <<fixedVars, detectorVars, read_infos,
                 current_global_buffer_pos>>

\* notifyStreamEnd does not hold the mutex: when its notification falls
\* between the test for points and the wait of a pop, which has taken all the
\* points there are and lacks some, nobody wakes the loop again
MissesEnd ==
  /\ pc = "reading" /\ ~stream_ended
  /\ dataPointsNeededForNextRun > StreamLength - popped
  /\ stream_ended' = TRUE
  /\ pc' = "asleep"
  /\ UNCHANGED <<fixedVars, detectorVars, read_infos, worker_index,
                 one_worker_was_executed, data_queue,
                 current_global_buffer_pos, popped>>

\* A wait may return without a notification; the test then sees the end
SpuriousWakeup ==
  /\ pc = "asleep" /\ pc' = "reading"
  /\ UNCHANGED <<fixedVars, detectorVars, bufferVars, read_infos, worker_index,
                 one_worker_was_executed>>

\* executeWorkerOnce
ExecuteWorkerOnce(worker) ==
  /\ pc = "working" /\ worker_index = worker
  /\ ~IndexPastBuffer(worker) /\ WindowInBuffer(worker)
  /\ assertions => AssertionHolds(worker, Window(worker), WindowId(worker))
  /\ IF worker = Detector THEN DetectorWorks(Window(worker), WindowId(worker))
                          ELSE UNCHANGED detectorVars
  /\ read_infos' =
       [read_infos EXCEPT ![worker] =
          Answer(worker, Window(worker), WindowId(worker))]
  /\ one_worker_was_executed' = TRUE
  /\ UNCHANGED <<fixedVars, bufferVars, pc, worker_index>>

\* The detector throws: run catches it and starts the loop over
WorkerThrows ==
  /\ pc = "working" /\ worker_index = Detector
  /\ ~IndexPastBuffer(Detector) /\ WindowInBuffer(Detector)
  /\ ReportThrows(Window(Detector), WindowId(Detector), slots_throw)
  /\ pc' = "reading"
  /\ UNCHANGED <<fixedVars, bufferVars, read_infos, worker_index,
                 one_worker_was_executed>>

\* An assertion of the worker fails and ends the process
WorkerAborts ==
  /\ pc = "working" /\ worker_index \in Workers /\ assertions
  /\ ~IndexPastBuffer(worker_index) /\ WindowInBuffer(worker_index)
  /\ ~AssertionHolds(worker_index, Window(worker_index),
                     WindowId(worker_index))
  /\ pc' = "aborted"
  /\ UNCHANGED <<fixedVars, detectorVars, bufferVars, read_infos, worker_index,
                 one_worker_was_executed>>

\* The worker would be called with iterators past the end of the buffer
WorkerReadsPastBuffer ==
  /\ pc = "working" /\ worker_index \in Workers
  /\ IndexPastBuffer(worker_index)
  /\ pc' = "undefined"
  /\ UNCHANGED <<fixedVars, detectorVars, bufferVars, read_infos,
                 worker_index, one_worker_was_executed>>

NextWorker ==
  /\ pc = "working" /\ worker_index \in Workers
  /\ ~IndexPastBuffer(worker_index) /\ ~WindowInBuffer(worker_index)
  /\ worker_index' = worker_index + 1
  /\ UNCHANGED <<fixedVars, detectorVars, bufferVars, read_infos, pc,
                 one_worker_was_executed>>

\* freeUnusedBuffer, and the return to run
FreeUnusedBuffer ==
  /\ pc = "working" /\ worker_index \notin Workers
  /\ IF earliest_pos_needed <= current_global_buffer_pos
       THEN UNCHANGED <<data_queue, current_global_buffer_pos>>
       ELSE /\ data_queue' =
                 SubSeq(data_queue, elements_erased + 1, Len(data_queue))
            /\ current_global_buffer_pos' = earliest_pos_needed
  /\ pc' = IF one_worker_was_executed THEN "reading" ELSE "ended"
  /\ UNCHANGED <<fixedVars, detectorVars, read_infos, popped,
                 stream_ended, worker_index, one_worker_was_executed>>

Loop ==
  \/ ReadBufferForNextRun \/ MissesEnd
  \/ \E worker \in Workers : ExecuteWorkerOnce(worker)
  \/ WorkerThrows \/ WorkerAborts \/ WorkerReadsPastBuffer
  \/ NextWorker
  \/ FreeUnusedBuffer

Next == Loop \/ SpuriousWakeup

Spec == Init /\ [][Next]_vars

\* The main thread is scheduled; it need not wake up without a notification
FairSpec == Spec /\ WF_vars(Loop)

-----------------------------------------------------------------------------
(* Properties.                                                             *)

Infos == [keep : Nat, read : Nat, next : Int]

(***************************************************************************)
(* The types of what the distributor keeps.                                *)
(***************************************************************************)
TypeOK ==
  /\ pc \in {"reading", "asleep", "working", "ended", "aborted", "undefined"}
  /\ worker_index \in 1..3
  /\ one_worker_was_executed \in BOOLEAN
  /\ data_queue \in Seq(Int)
  /\ current_global_buffer_pos \in Nat
  /\ read_infos \in [Workers -> Infos]
  /\ popped \in Nat
  /\ stream_ended \in BOOLEAN

(***************************************************************************)
(* The ids the workers get are positions of the stream: what the buffer    *)
(* holds at an index is the point current_global_buffer_pos + index, and   *)
(* it holds everything popped since (readBufferForNextRun appends,         *)
(* freeUnusedBuffer erases, an exception in between must not tear them).   *)
(***************************************************************************)
BufferIsStream ==
  /\ \A i \in 1..Len(data_queue) :
       data_queue[i] = current_global_buffer_pos + i - 1
  /\ current_global_buffer_pos + Len(data_queue) = popped

\* However the stream ends, the first read brings a second of the defaults
LongEnough == StreamLength >= DefaultMeta.sample_rate + QueueCapacity

\* The first requests are made with the defaults, answered with the
\* configuration: what is asked for then must be in the buffer
FitsDefaults ==
  /\ Meta.sample_rate <= DefaultMeta.sample_rate
  /\ minDataPointsNeeded(Meta) <= DefaultMeta.sample_rate

\* The data of an event, when it is searched again because a slot has thrown,
\* is no shorter than a window
EventIsSearchable ==
  slots_throw => minDataPointsNeeded(Meta) <= Before + Of

(***************************************************************************)
(* No worker is called with iterators past the end of the buffer: what it  *)
(* asks for never begins past what has been popped, although the requests  *)
(* before the first window use other meta data than those after it.        *)
(***************************************************************************)
WorkersStayInBuffer ==
  LongEnough /\ FitsDefaults /\ EventIsSearchable => pc # "undefined"

\* What is stored before an event fits into a window and a period
PastIsShort == Before <= minDataPointsNeeded(Meta) + Period

(***************************************************************************)
(* A worker is called with the window it asked for: next_read_location is  *)
(* the "position of the next read" (DataStreamWorker.h) and the buffer has *)
(* kept what lies before it.  A window that would begin before the stream  *)
(* begins with it.  A slot that throws has the detector search the data of *)
(* its event, for which a long past is not kept.                           *)
(***************************************************************************)
ReadsAtRequestedPosition ==
  [][\A w \in Workers :
       ExecuteWorkerOnce(w) /\ (slots_throw => PastIsShort)
         => WindowId(w) = Greater(read_infos[w].next, 0)]_vars

\* The request that addWorker got, before the configuration was loaded
FirstRequest == getFirstDetectionPeriod(DefaultMeta, 0)

(***************************************************************************)
(* Detection leaves no gap: the detector is called at most one point past  *)
(* what it has seen, in the order of the stream or, for the data of an     *)
(* event, before it.  Only its first window may be shorter than a window   *)
(* of the configuration, which it takes it for.                            *)
(***************************************************************************)
DetectorSkipsNothing ==
  [][/\ read_infos'[Detector] # read_infos[Detector]
     /\ EventIsSearchable
     /\ read_infos[Detector] = FirstRequest =>
          minDataPointsNeeded(Meta) <= minDataPointsNeeded(DefaultMeta)
     => read_infos'[Detector].next
          <= WindowId(Detector) + Len(Window(Detector))]_vars

(***************************************************************************)
(* An event is made of the points around the window it was detected in:    *)
(* data_points_stored_before_event of them up to one period into the       *)
(* window, the others after it, without a gap.                             *)
(***************************************************************************)
EventsAreWhereDetected ==
  \A e \in reported :
    LET points == e.before_event \o e.event
    IN  /\ points # <<>>
        /\ points[1] + Before - Period \in detections
        /\ \A i \in 1..Len(points) - 1 : points[i + 1] = points[i] + 1

\* The most points a worker asks for and keeps
LargestRequest ==
  Max({Before + minDataPointsNeeded(Meta), Before + Of, Meta.sample_rate,
       minDataPointsNeeded(DefaultMeta), DefaultMeta.sample_rate})

(***************************************************************************)
(* The local buffer does not grow with the stream: between two reads it    *)
(* holds less than a worker asks for and keeps.  An exception keeps it     *)
(* from being freed: then it holds what was read for the metric provider,  *)
(* too, but nothing more however often there is one.                       *)
(***************************************************************************)
BufferStaysBounded ==
  pc = "reading" =>
    IF worker_index \in Workers    \* at the start, or after an exception
      THEN Len(data_queue) <=
             LargestRequest
               + Greater(Meta.sample_rate, DefaultMeta.sample_rate)
      ELSE Len(data_queue) < LargestRequest

\* Nothing is detected that began before what is to be stored of it
StartsQuietly ==
  \A x \in DOMAIN power :
    x + Period < Before + minDataPointsNeeded(Meta) => power[x] = power[0]

(***************************************************************************)
(* The loop gets through the stream, if it is long enough, nothing throws, *)
(* and nothing is switched on at its beginning: it ends when the stream    *)
(* does, or it misses the end and sleeps (popDataPoints).  Of the          *)
(* assertions on the windows only that of the metric provider can stop it, *)
(* and only if the configuration changes the sample rate.                  *)
(***************************************************************************)
LoopEnds ==
  ~slots_throw /\ LongEnough /\ FitsDefaults /\ StartsQuietly
    => <>(\/ pc = "ended"
          \/ pc = "asleep" /\ stream_ended
          \/ pc = "aborted" /\ Meta.sample_rate # DefaultMeta.sample_rate)

(***************************************************************************)
(* The distributor "gives each of [the workers] the DataPoints it          *)
(* requests" (DataStreamDistributor.h): each is called again and again, or *)
(* the stream has ended, also if the loop misses it, or the process has.   *)
(***************************************************************************)
WorkersAreServed ==
  ~slots_throw /\ LongEnough /\ FitsDefaults =>
    \/ <>(pc \in {"ended", "asleep", "aborted"})
    \/ []<><<ExecuteWorkerOnce(Detector)>>_vars
         /\ []<><<ExecuteWorkerOnce(Metrics)>>_vars

(***************************************************************************)
(* What has been detected is reported, unless the stream is over before    *)
(* the data of the event is complete, or began after it: the detector      *)
(* recognises the data by its id, and a window that begins with the stream *)
(* is not the one it has asked for.                                        *)
(***************************************************************************)
DetectedIsReported ==
  pc = "ended" /\ ~slots_throw =>
    \A id \in detections :
      \/ popped < id + Period + Of \/ id + Period < Before
      \/ \E e \in reported : id + Period \in Range(e.event)

\* The power of the stream rises once, at point p, for good
RisesAt(p) ==
  /\ p \in DOMAIN power /\ p > 0
  /\ \A i, j \in DOMAIN power : power[i] = power[j] <=> (i < p <=> j < p)
  /\ power[p - 1] < power[p]

(***************************************************************************)
(* A load that is switched on is reported: when the loop is through with   *)
(* the stream, a rise with enough stream before it (the first window, and  *)
(* what is stored before an event) and after it (the data of the event and *)
(* what can be lost at the end) is in the data of an event.                *)
(***************************************************************************)
SwitchOnIsReported ==
  pc = "ended" /\ ~slots_throw =>
    \A p \in DOMAIN power :
      /\ RisesAt(p)
      /\ p >= minDataPointsNeeded(DefaultMeta)
      /\ p + Period >= Before + minDataPointsNeeded(Meta)
      /\ p + Period + Of + QueueCapacity <= StreamLength
      => \E e \in reported : p \in Range(e.before_event \o e.event)
==============================================================================
