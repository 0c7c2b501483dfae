# A verification project for smart_screen

smart_screen watches the current of a household: it reads samples of current and
voltage, detects that a device was switched on by comparing root mean squares of
successive periods, extracts features of the event and classifies them with a
k-nearest-neighbour search among events the user has labelled. The server
(`src/nofare_app/src/server`) runs this as a pipeline of threads; a small client
talks to it through a message queue. This directory holds TLA+ models of that
pipeline, configurations with which TLC checks them, and proofs TLAPS checks.

Paths below are relative to the repository. `PROJECT.json` maps every definition
that models code to its lines, and lists the hazards with the properties that
cover them.

## 1. Inventory

### Threads and how they interact

    input source thread --addDataPoints--> AsyncDataQueue --popDataPoints--> main thread
                                                                             |  loopWorkersOnce:
                                                                             |  EventDetector, MetricProvider
                                                                             |  signal event_detected:
                                                                             |   0 log, 1 Hdf5 storage, 500 pushEvent
    client --boost message queue--> message loop --addLabelById/reclassify-->+
                                                                             v
                                       model storage thread <--copy-- DataClassifier: stack, runner thread
                                              |
                                       model.archive

    text files --BluedInputSource--> AsyncDataQueue --> converter --> HDF5 data set
    stored events --setup--> manager.archive --slimmed_validation--> results --data_vis--> printed

The main thread executes `run` (Init.h:66-125): it loads the model, starts the
source, the message loop, the classifier and the storage thread, drives the
distributor until the stream ends or the shutdown command has come, and stops and
joins what it started.

### Components

| component | state | operations | what is hard | what makes it correct |
|---|---|---|---|---|
| `AsyncDataQueue` (data_loader) | deque, `stream_ended`, `queue_max_size`, mutex, two condition variables | add, pop, get, next, notifyStreamEnd, restart, discard, resize, unblock | `stream_ended` is used without the mutex; chunks pass in pieces; unsigned arithmetic | order, nothing lost or doubled, bounded, no lost wakeup, an empty read is the end |
| `DataStreamDistributor` (event_detector) | local buffer, its position in the stream, what each worker wants next | loopWorkersOnce and its helpers | two functions keep buffer and position in step, exceptions come in between; index arithmetic | workers get the windows they asked for, buffer bounded, the loop gets through the stream |
| `EventDetector` (event_detector) | recent root mean squares, detected flag, requested id | workOnDataPoints | a protocol of requests and answers spread over calls | detection without gaps; events are cut out where they were detected; none is lost |
| `MetricProvider` (smart_app) | none that changes | workOnDataPoints | shares the buffer with the detector; asserts the length of its window | moves on |
| `DataClassifier` (data_analyzer) | stack of events, label manager, matrix and search tree, `continue_analyzing` | push, run, stop (two ways), label, reclassify, load, copy | condition variable shared by two waits, unlocked flag, indices into a vector that changes, exceptions | no event or label lost, tree current, stopping works |
| `EventLabelManager` (data_analyzer) | labelled and unlabelled events, label-time pairs | add, label by id or time, get, set, load labels | entries move between vectors by swap and pop | as above |
| `ModelSerialization` (server) | two files, `shutdown`, thread | save every ten seconds, start, stop, load | crashes between remove, rename and close | what was saved can be loaded, changes get saved |
| server lifecycle: `Init.h`, `CLIConnection`, `EventHandlers`, `SmartApp` | `shutdown_nofare_app`, threads, the message queue and its name | run, messageLoop, setupMessageQueue, cleanUp | start and stop order, signals, aborts, a name shared by several processes | a server is reachable, stops on command, joins its threads and leaves no queue |
| client and commands (nofare_app) | none | label, reclassify, shutdown | a full or stale message queue | commands arrive |
| stream meta data (`DynamicStreamMetaData`) | a pair of data point id and time | syncTimePoint, getDataPointTime | written by the source, read by the main thread; which id belongs to which time; float arithmetic and a narrowing cast | the time of a point is close to that of its recording |
| sources: `BluedHdf5InputSource`, `InputSource`, C interface (data_loader, server) | offset, `continue_reading`, `start_time` | read loop, stopNow | started before their state is complete; offsets and ids | every point once, right times |
| `BluedInputSource` and the converter (data_loader, blued_converter) | file and line, `x_value` of the last line, the queue's pointer | read a file or a location, pop and write, catch, stop | errors found by re-reading what is on the stack; unsigned counters; a second thread that may have stopped | every line once and in order, the data set is complete, the conversion ends or is known to hang |
| `ProgramConfiguration` | settings | load | - | - |
| `FeatureExtractor`, `Algorithms`, FFT (data_analyzer, libanalyze) | FFT buffers, which only grow | extractFeatures | floating point; indices computed from the shape of an event | no access outside a buffer |
| experiments: `event_classification_setup`, `slimmed_validation`, `data_vis` | stack and manager, partitions, results; their archives | load and label, cross-validate, print | three programs that rely on each other's files; one event that differs ends all | nothing loaded is missing, no event is tested twice, no access outside a buffer |
| event storages (event_detector) | files | store, load | exceptions | - |

Vendored code (`src/external`) is not modelled; what the code relies on (`knn`
throws unless there are more points than neighbours, `std::condition_variable` may
wake up spuriously) is marked external in the map.

## 2. Modules

| module | models |
|---|---|
| `AsyncDataQueue` | the queue, with one reader, one writer and one other thread |
| `BoundedStream` | what the queue promises (abstract specification) |
| `AsyncDataQueueProofs` | theorems about the queue, and the refinement |
| `EventDetector` | the detector: requests, root mean squares, return paths |
| `DataStreamDistributor` | extends it with the distributor and the main loop of `run` |
| `DataStreamDistributorProofs` | theorems about both |
| `EventLabelManager` | what the methods of the label manager do to its vectors |
| `DataClassifier` | extends it with the stack, the runner, the main thread and the message loop |
| `EventCollection` | what the classifier promises of events and labels (abstract specification) |
| `DataClassifierProofs` | theorems about both, and the refinement |
| `FeatureExtractor` | sizes and indices in feature extraction and its transforms |
| `Experiments` | extends `EventLabelManager` and `FeatureExtractor` with the three programs of the experiments |
| `ExperimentsProofs` | theorems about it and the calculator's buffers |
| `ModelStorage` | the storage thread, start, stop, load, restart, crash |
| `ModelStorageProofs` | theorems about it |
| `BluedInputSource` | the thread that reads the original text files, its queue, and the converter |
| `BluedInputSourceProofs` | theorems about it |
| `BluedHdf5InputSource` | the thread that reads a file, over `BoundedStream`, and the stream meta data |
| `BluedHdf5InputSourceProofs` | theorems about it |
| `Server` | servers, clients, user and signals around the message queue; run from start to end |
| `ServerProofs` | theorems about it |
| `MC...` | instances for TLC |

**AsyncDataQueue.** A data point is its position in the stream. An action is a
stretch of code no other thread can see half done: a critical section whose
waiting condition holds is one action (`Push`, `PopPull`, ...); if the condition
does not hold there are two, its evaluation, which keeps the mutex
(`WriterFindsFull`, `ReaderFindsTooFew`), and the wait, which releases it. Unlocked
accesses to `stream_ended` are actions of their own (`AddTest`, `PopTest`,
`NotifyStreamEnd`, and `NotifyReader` for the notification after it), so they can
fall between the two. `queue_max_size - data_queue.size()` is computed modulo
`ULong`. The sets `WriterCalls`, `ReaderCalls` and `ControllerCalls` choose which
calls the threads make: the application's (`AppWriterCalls`, `AppReaderCalls`) or
the whole interface.

**BoundedStream.** A producer appends the next points while the buffer has room and
may close the stream; a consumer takes points, sees the end only when the stream is
closed and empty, and may abandon it. The mapping (`Abstract` in `AsyncDataQueue`)
hides mutex, wakeups, calls in progress, and what a writer still adds after the
reader has discarded the rest.

**EventDetector, DataStreamDistributor.** The distributor's variables are the code's; the queue
is replaced by what `popDataPoints` may return (`Pops`): all that was asked for, or fewer at the
end of the stream, where a pop that races with the end may leave up to `QueueCapacity` points
behind. That choice is what `AsyncDataQueue` shows of the pop: `EmptyReadMeansDrained` excludes
the stronger loss. The test for points and the wait are one step unless the end of the stream
falls between them: then the loop is `"asleep"` (`MissesEnd`), for good unless the wait returns
spuriously. A worker's call, its exceptions (`WorkerThrows`: too little data for an event, or a
slot that throws) and the catch in `run` are actions. `scripts/build.sh` sets no build type and
CMake's release flags define `NDEBUG`, so whether assertions are there is chosen at the start
(`assertions`): those of the detector on a window it searches (`SearchAssertions`) and that of
the metric provider on its length (MetricProvider.h:76) end the process (`WorkerAborts`). A root
mean square is the sum of squares and the number of points, so comparisons are exact. The
threshold is taken to be smaller than any difference of two values that occur. If an index runs
past the buffer the code calls the worker with invalid iterators: the model stops in `pc =
"undefined"`.

**EventLabelManager, DataClassifier.** An event stands for its feature vector and
any `K` points of the tree may be its nearest (`Neighbors`); the rest is as in the
code: the tree is the sequence of events it was built from, a classification is the
most frequent label of the neighbours, the smallest of them on a tie (the order of
`std::map`). Throwing in the message loop or in the runner, reading through a null
tree, and the slot that dereferences an empty label (which boost may assert) end the
process (`Terminated`). The server never gives an event an id, but the interface and
the saved model have room for one, and the client labels by id; the instances
therefore have events with ids and one without.

**EventCollection.** Events arrive once and wait for their turn. Then they get the label the
label file has for them, or are unlabeled until the user labels them by name or by time.
Only the user changes a label, and only when the event is not unlabeled as well: an event that
could not be classified is in the classifier twice, so it may be labeled and stay unlabeled,
and a label may be given twice. The mapping (`Collection` in `DataClassifier`) takes the stack,
the events of the one vector and the events and labels of the other as sets. It hides threads
and mutex, the order and number of entries, which are what `swap`, `pop_back` and `find_if` work
on, the search tree, and classifications: reclassifying is no step of the collection.

**FeatureExtractor.** An event has a shape: how many points it has and how many of them
the meta data puts before the event. The four transforms of an event have the lesser of
the two parts as their size; the calculator keeps the size of its largest transform in
one buffer and of the last one in the other. `Extraction` says whether all accesses stay
within their buffers, an assertion of the code stops it, or it is undefined, and
`NumberOfFeatures` how many features come out. Their values are left out.

**Experiments.** The three programs run one after another on one directory of stored events.
Setup pushes events while the runner of its classifier pops from the other end of the stack;
numbering ends at the first file that cannot be read; labels come from the times in a label
file. The validation takes the partitions off a shuffled sequence, and for each trains a
classifier, classifies the partition and compares labels. `dropPartition` makes a training set
of the rest, but the classifier is trained with all labelled events, the tested ones included
(slimmed_validation.cpp:82-84). What a classification can answer is the majority among any `K`
labelled events. Exceptions and the failed assertions of Eigen are `pc = "aborted"`, accesses
outside buffers `pc = "undefined"`.

**ModelStorage.** A model is the set of the changes it contains; a file is such a set and
whether all of it has been written. Loading fails for an incomplete file and may fail for a
complete one: whatever is thrown is caught (Init.h:62), and the server goes on with an empty
model (`LoadFails`), which lacks what was saved before and is saved in its turn. The stream is
opened and truncated, the manager copied and written, the old archive removed, the new one
renamed into its place, and only then completed by the destructors, in this order, with a crash
possible between any two. The model changes through the runner until it is stopped and through
the message loop until the shutdown command.

**BluedInputSource.** A file is the number of its lines and what else its reading depends on:
whether it has the header before its data, whether its last line ends with a newline, and
whether its first time stamp follows on the file before. The loop of `readOnce` is an action per
line: `Good` is the state of the stream that it tests before it reads, `MayBeWithinBounds` and
`MayBeOutOfBounds` what the comparison with the last time stamp may say when it uses what was
left on the stack. The queue's operations are critical sections as in `AsyncDataQueue`: a round
of `popDataPoints` takes what there is, or finds nothing and waits (`FindsNothing`, `Waits`);
nobody gets the mutex between these two steps, but the end is stored and notified without it, so
both may fall there. Its pointer may be null: only `startReading` makes a queue, the converter
calls `readWholeLocation`, and both threads follow the pointer without a test. The converter's
main thread creates the data set, pops, writes, catches and stops.

**BluedHdf5InputSource.** It composes the runner with the queue's abstract
specification (`Queue == INSTANCE BoundedStream`): `addDataPoints` sends what fits
until the chunk is through or the stream has ended, the main thread takes points,
discards the rest and joins. The runner's test of `continue_reading`, its second test under
`hdf5_mutex`, and the assignment of `start_time` after the thread was created are
steps of their own. A point is its position in the file and has the id one less than
its number in the stream; times are microseconds, and a time that was never assigned
is `NoTime`, which boost keeps through additions. The time a point was recorded with is a
`float` (BluedDataPoint.h:31) and is multiplied as one (BluedHdf5InputSource.cpp:86):
`TimesRecorded` lets it be any number up to `FloatError` away from the exact one. Three
roundings to 24 bits are less than 2^-22 of the value together, 0.14 s at the end of a file of a
week. That the points were recorded at the sample rate is assumed. `static_cast<int>`
(DynamicStreamMetaData.cpp:17) turns what no `int` holds into the nearest one, as
`cpp_int` does; `IntLimit` is 2^31 in the code. The files' sizes are empty, a multiple of the
buffer, and not a multiple.

**Server.** A server is a process that runs once; a restart is another one. The
boost message queue outlives its name and the process that made it, so it is
identified by that process, and `queue_name` says whose queue a client finds. Every
exception that leaves a thread, a joinable thread that is destroyed, and an
assignment to one end in `Terminate`: SIGABRT, whose handler removes the name,
whosever it is. Of the other components `Server` keeps what `run` can tell: whether
there is data or the stream has ended (`input`), whether the classifier has events
left (`events_on_stack`), how far the storage thread is. It can sleep for good in three
places: in `stopAnalyzingWhenDone` (`"waiting"`), in a pop that missed the end of the stream
(`SourceEndsUnseen`), and in the join of a runner that missed its stop (`RunnerMissesStop`);
only a spurious wakeup ends these. `SourceThrows`,
`ReclassifyTerminates` and `ClassifierTerminates` are what `BluedHdf5InputSource`
and `DataClassifier` show of these threads. `BluedServers` are built with
`USE_BLUED`; the others read a device with `InputSource`.

## 3. Runs

Sizes are chosen so that every branch is taken: requests larger and smaller than the
queue, chunks that do not fit, streams shorter and longer than the windows.

| run | shows | bounds and why they suffice |
|---|---|---|
| `AsyncDataQueueAll` | `TypeOK`, `InStreamOrder`, `NoMissedData` for every call of the class by three threads | queue of 2 resized to 0, 1, 3; 4 points in chunks and requests of up to 3, more than the queue holds; `ULong` 16 |
| `AsyncDataQueueApp` | `EmptyReadMeansDrained`, `AddReturns`, `QueuedPointsLeave`, `ImplementsBoundedStream` for the calls of the application | 6 points, three times the queue |
| `AsyncDataQueueLostEnd` | violation: `EndUnblocksReader` | as above, a reader that never gives up |
| `DataStreamDistributorAll` | `WorkersStayInBuffer`, `EventsAreWhereDetected`, `BufferStaysBounded`, `SwitchOnIsReported`, `DetectedIsReported`, `BufferIsStream`, `DetectorSkipsNothing`, `ReadsAtRequestedPosition`, `LoopEnds`, with and without slots that throw, with and without assertions; 142,362 states | a configured rate of 7 and a default of 8, so that with assertions the metric provider's first window ends the process; streams of 5 points, shorter than a second, of 10, a second and what may be lost at the end, and of 28, with up to two changes of power at any two points: a second event may begin before, in or after the data of the first, or be cut off by the end |
| `DataStreamDistributorHangs` | violation: `WorkersAreServed` | streams of 14 points: an event at the beginning |
| `DataClassifierAll` | `TypeOK`, `SearchTreeFits`, `ImplementsCollection`, `UserLabelsSurvive`, `StoppedWhenDone`, `PushedAreStored` for every call, also labels by time, a label file and both ways to stop | `K` = 2 with three labelled events (more than `K`, so one label more or less decides whether classification works), one unlabelled, two new ones |
| `DataClassifierWhenDone` | violation: `StopsWhenDone` | first start |
| `ModelStorageAll` | `SavedCanBeLoaded`, `SavedChangesAreKept`, `ChangesAreSaved` over any number of restarts, each of which may fail to load | 3 changes, 2 crashes: a crash in the gap and one during recovery; models that differ in what they contain, not only in age; 32,566 states |
| `BluedHdf5InputSourceAll` | `StreamIsFile`, `TimesAtMostAChunkLate`, `RunnerReturns` | files of 0, 5 and 6 points, chunks of 3, queue of 4: a chunk passes in one piece or two; float error 1, so recorded times may be equal or apart; `IntLimit` 8, which the times of the later points exceed; 1,965 states |
| `BluedInputSourceAll` | `StreamIsFiles`, `ConversionIsComplete`, `ConversionEnds` | every location of up to two files of up to 3 lines, buffers of 2, a queue of 1: files end within a buffer and at its end, a buffer passes in two pieces; 72,416 states |
| `ServerAll` | `ServerIsReachable`, `QueueGoesWithServer`, `ExitIsClean`, `ShutdownIsObeyed` | two servers, one of each build: one takes the name from the other in every way there is; a queue of one message is full at once; the commands that stop the loop or throw, the others only leave the queue; 589,695 states |
| `ExperimentsAll` | `ArchiveIsComplete`, `AlikeIsSafe`, `TestedOnce`, `DropLeavesTheRest` | directories of up to seven events in three partitions, so that there is a remainder; all shapes that take another path, next to usual events; a gap in the numbering; 33,319 states |

Scaling: in the distributor's instance a point stands for a period, so a window of the
detector is `NumberOfRms` + 1 points. `NumberOfRms`, the sample rate and the event's parts
are reduced, but keep the order they have in `working_directory/config.ini.example`
(sample rate 12000, 50 Hz, 6000 points before an event, 12000 of it): a window and a period
are less than the points before an event, these less than those of it; a second is longer
than a window and does not divide it. The smallest instance with this order is the one in
the configuration. `DefaultSampleRate` is the rate of the meta data the distributor has
while its workers are added; in `DataStreamDistributorAll` it is more than the configured
rate, so that the first requests and the later ones differ.

Deadlock is not checked in the runs of the queue, the distributor, the classifier, the sources,
the servers and the experiments, whose threads end. It is in `ModelStorageAll`, where the
program can always be started again.

**Fairness.** Each specification that has liveness assumes that threads are
scheduled (weak fairness), and that a thread that asks for a mutex again and again
gets it (strong fairness of locked steps). In the queue, the writer keeps reading
its source until it ends the stream, and the reader, whenever it is outside, reads
again or discards the rest: this is the loop of `BluedHdf5InputSource::run` and that
of `run` in Init.h. Nothing is assumed of spurious wakeups, users, events, stops,
crashes and the controller. `wait_for` of the storage thread returns by itself. In
`BluedHdf5InputSource` the main thread takes points as long as it has not stopped. In
`BluedInputSource` both threads are scheduled, the writer gets the mutex the reader takes and
releases again and again, and nobody has to stop. The distributor's loop is scheduled. In
`Server` the main thread, the storage thread and a source that reads a file are
scheduled; a source that reads a device may stall, and then a shutdown stalls too.

## 4. Findings

Every violation run shows the code do what a text of the repository says it does
not; the quotes are in `PROJECT.json`.

1. *AsyncDataQueue.h:247* `notifyStreamEnd` stores `stream_ended` without the mutex
   and notifies. Between the reader's test and its wait both are lost and the main
   thread sleeps for good. The models of what reads from the queue have this state, too,
   and their liveness excepts it by name: `LoopEnds`, `ConversionEnds` (`EndMissed`),
   `ShutdownIsObeyed` (`SleepsForGood`).
2. *DataClassifier.h:313* `stopAnalyzingWhenDone`, which the server uses, waits for an
   empty stack on a variable that is notified only when the stack grows.
3. *EventDetector.h:69* With the shipped configuration an event within the first half
   second stops the server. The detector asks for a window that begins before the stream;
   the distributor answers with the first window (DataStreamDistributor.h:135) under another
   id (127), which is searched for events although one is being waited for; the window after
   it has the id that was asked for but is too short, `createEvent` throws, `run` catches and
   starts over, and the same event is detected again, for ever. The metric provider is not
   called any more and the queue fills.

The models show more, for which no run is kept:

- `loopWorkersOnce` returns false with data left in the queue when its pop races with
  the end of the stream (DataStreamDistributor.h:82), and `run` stops reading; its doc
  (43) says there is no more data then.
- When a slot throws while an event is stored, its window is searched again as a detection
  window; an event found there can ask for points that were freed, and 3. happens at any
  place of the stream.
- The first requests are made with the default meta data, before the configuration is loaded.
  The first detection window of the defaults has 1000 points; with 50 Hz the detector answers it
  as if it had 1200, and the 200 points in between are never searched (`DetectorSkipsNothing`
  excepts the first window if it is too short). With a configured sample rate above the default
  of 12000, such as the 16000 of UK-DALE in PowerMetaData.h:17, the metric provider's
  second request begins at 12000 + 16000, past the buffer it is looked up in during the first
  loop: `IndexPastBuffer`. `FitsDefaults` names the configurations without that.
- The metric provider asserts that its window has `sample_rate` points
  (MetricProvider.h:76), but its first window was asked for with the default rate. In a
  build with assertions any other configured rate ends the process there (`LoopEnds`).
- When a slot throws and the data of an event is shorter than a detection window, the detector
  searches it again and answers with a request a whole window later, past what it was given and
  possibly past the buffer (`EventIsSearchable`).
- The time of the last point of a chunk is noted under the id of the last point of the chunk
  before (BluedHdf5InputSource.cpp:85), so every point's time is a chunk late;
  `TimesAtMostAChunkLate` bounds it by that, the roundings to microseconds on the way and the
  error of `float` arithmetic. A distance that no `int` of microseconds holds (36 minutes from
  the last synchronised point) gets the nearest one.
- `loadOldModel` catches whatever a load throws (Init.h:62), for a complete archive as well. The
  server then runs with an empty model, and the storage thread replaces the archive by it;
  `SavedChangesAreKept` excepts just this (`load_failed`).
- `stopAnalyzingImmediately` can lose its wakeup as in 1 (DataClassifier.h:303-308, 318); the
  join that follows never returns.
- An event that cannot be classified yet is stored twice (DataClassifier.h:241, 246),
  and one of the two can be labelled; the result of a successful classification is
  dropped (DataClassifier.h:237).
- `addDataPoint` inserts into a full queue after the end of the stream.
- The points "before the event" reach one period into it.
- At the end of a stream `run` never returns (`ExitIsClean`: an exit follows a
  shutdown): the message loop's thread is not joined and its destructor aborts the
  process, where Init.h:119 has "just kill it". The handler of the abort removes the
  queue's name a second time, which another server may have taken by then. In the
  build without `USE_BLUED`, `InputSource::stopNow` aborts at every stop.
- A server that handled a SIGTERM goes on without being reachable, and so does one whose
  name a user had reset with "yes".
- A reclassification that throws ends the server: it runs in the message loop
  (Init.h:146), where nothing catches.
- `BluedInputSource` drops the last line of a file that does not end with a newline; compares
  an uninitialised value at the end of each file (101); decrements an unsigned counter that
  may be 0 (138). `WithoutLast`, `MayBeOutOfBounds` and `AddsPastBuffer` are these.
- The converter calls `readWholeLocation`, which makes no queue: both threads follow a null
  pointer (BluedHdf5Converter.cpp:10, BluedInputSource.cpp:75). When the data set cannot be written the reader stays blocked on the full
  queue and the converter waits for it.
- The cross validation only reports successes, against EventMetaData.h:26-27 and the correct
  and false classifications `data_vis` prints: the class that was found is dropped
  (DataClassifier.h:237) and the label of the event compared with itself. It is also trained
  on all labelled events, the tested ones included; the result of `dropPartition` is not used.
- `SelectPartitions` rounds the size of a partition down: the remainder is never tested.
- Stored events after a gap in the numbering are not loaded, silently.
- A transform smaller than one before it reads past the window's buffer; in a transform
  of under two and a half periods the search for harmonics begins before it; an event
  with another number of features than the others ends the process with an assertion
  (`AlikeIsSafe` excepts directories with such events).

## 5. Proofs

`AsyncDataQueueProofs` proves, for every queue size, stream, chunk, request and
word width that satisfies `QueueAssumption` (the queue holds at least one point, and
sizes fit in `unsigned long`):

| theorem | for | argument |
|---|---|---|
| `TypeCorrect` | every set of calls | `TypeInv` = `TypeOK` and: a writer inside an adding call knows which one. Inductive; one step per action |
| `StreamStaysInOrder` | every set of calls | a pull moves a prefix from queue to history and leaves `Stream` as it is (`PullKeepsStream`); a push appends points from `next_point` on (`PushEffect`); discarding leaves a prefix. With `TypeInv` this makes `InStreamOrder` inductive |
| `NoDataIsMissed` | every set of calls | `NoMissedData` is not inductive: it says nothing of a thread that has tested its condition and does not wait yet. `WaitInv` adds that such a thread keeps the mutex and its condition still fails |
| `NothingIsLost`, `InsertsFit`, `EmptyReadsAreTheEnd` | calls of the application (`ApplicationCalls`) | `AppInv` = `TypeInv` and `BoundInv` (the queue is within its bound, calls ask for something) and `CompleteInv` (what went through the queue is 1, 2, ..., `next_point` - 1; a pop that returned nothing found the stream ended and the queue empty) |
| `QueueIsBoundedStream` | calls of the application | under `AppInv` every step maps to a step of `BoundedStream` or leaves its state alone (`RefinementStep`) |

`DataStreamDistributorProofs`, for every configuration, stream, and point where a worker
throws (`DetectorAssumption`: at least two root mean squares, 4 in the code;
`DistributorAssumption`: the defaults store nothing before an event, DataPoints come at a
positive rate, the stream is finite and its power is a natural number at every point):

| theorem | argument |
|---|---|
| `TypeCorrect` | types of buffer, requests and detector |
| `BufferHoldsTheStream` | `BufferInv` adds to `BufferIsStream` that a worker whose turn is over wants nothing past what was popped (`PassedWorkersWait`): this is what keeps `freeUnusedBuffer` from erasing more than there is |
| `RequestsAreAnswered` | if the points before an event fit into a window and a period (`PastIsShort`), what the detector may still ask for is never erased (`PastIsKept`), also when slots throw; if not, the buffer keeps enough behind the request at hand as long as no slot throws, and only a request before the stream is answered with the first window (`LongPastIsKept`) |
| `EventsArePlaced` | `PlaceInv`: while an event is awaited, the request and the root mean squares belong to the window it was detected in; a first window that is given in place of a request before the stream is too short to be an event. Assumes `EventsHaveData` (points of an event are stored at all) |
| `NothingIsSkipped` | `SearchInv`: the detector is at its first request, reads windows of the configured size, or reads the data of an event, and then it is waiting for it or a slot has thrown. With the two invariants above (`AnswerableInv`) the window at hand is the one that was asked for, so the next one begins where it ends or before |
| `NothingIsUndefined` | `StayInv`: nothing has been read yet, or no request begins past what was popped. The hypotheses are those of the property: the stream lasts a second and what its end may lose (`LongEnough`), the configuration asks for no more than the defaults (`FitsDefaults`), data that is searched again is no shorter than a window (`EventIsSearchable`); section 4 has what happens without the last two |
| `BufferIsBounded` | `PassedInv`: a worker that was passed waits for more than there is, so freeing leaves less than one request; `BoundInv`: requests are bounded by `LargestRequest`, and an exception leaves what was read for the metric provider, once. For every configuration |
| `DetectionsAreReported` | `AwaitedInv`: a detected event is reported, or awaited under the id its request has, or began too early; `PassedInv` then says why the loop cannot end while it is awaited and its data is there. Assumes `EventsAreRecorded` (points of the event itself are stored) |
| `RisesAreReported` | `RiseInv`: as long as no window held the rise, all root mean squares are that of the power before it (`QuietRms`), so their median is too (`MedianIsLow`: a value that all of them have is the one in the middle), and the first period with the rise in it exceeds it (`HighExceedsLow`: the sum of squares grows, its length does not). `NothingIsSkipped` then says that a window holds the rise, `DetectionsAreReported` that its event is reported, and `FetchedInv` that the loop goes on until at most a queue of points is left, so that the window and the data are reached. Assumes `EventsAreRecorded`, that the first window holds the initial root mean squares (`FirstWindowHoldsRms`) and that an event covers the window it is detected in (`EventCoversWindow`); the shipped configuration has 4 * 240 points of root mean squares in a window of 1000 or more, and 6000 points before and 12000 of an event around a window of 1200 |

`ModelStorageProofs`, for any number of changes, restarts and crashes:

| theorem | argument |
|---|---|
| `TypeCorrect` | types; the storage thread runs only between its start and its join |
| `SavedModelsSurvive` | `Transit` follows one model from copy to rename: what is written is what was copied. With it `SavedCanBeLoaded` is inductive |
| `SavedChangesSurvive` | unless loading a complete archive has failed since the last save, the model contains what the archive does (`ModelIsAhead`), so the copy does (`CopyIsAhead`), and by `Transit` so does the backup when the archive is removed |

`BluedHdf5InputSourceProofs`, for every file, chunk size, queue and moment of a stop:

| theorem | argument |
|---|---|
| `FileIsStreamed` | `SizesInv` (a chunk lies in the file), `PositionInv` (what was written reaches up to the chunk, but for what is left of it), `LastInv` (unless somebody stops, `continue_reading` is cleared only by the last chunk) |
| `TimesAreClose` | `TimeInv`: a time that was noted is that of the last point of a chunk, under the id of the last point before the chunk (`SyncedAt`); `TimeFromSync` adds what the divisions in `getDataPointTime` and in the source round off. For any `FloatError`, as long as the distance of the two points fits in an `int` |
| `SourceTypes` | types; the queue is never longer than its maximal size |

`BluedInputSourceProofs`, for every location and all sizes of files, buffer, requests and queue:

| theorem | argument |
|---|---|
| `FilesAreStreamed` | `FlowInv`: as long as the converter takes points, what went into the queue is all of the files before and the lines of this one up to a multiple of the buffer's size, and the buffer goes on from there; what the end of a file delivers then depends on its size modulo the buffer's (`FileEnds`); the recursion of `FlattenSeq` over the files is unfolded by lemmas (`FlattenStep`) |
| `FilesAreConverted` | ... and the converter's thread only leaves its loop when the reader has passed all of it on and nothing is queued: a pop that returns nothing has found the queue empty after the end of the stream (`DrainedInv`) |

`DataClassifierProofs`, for any events, labels, label files, models and number of
neighbours:

| theorem | argument |
|---|---|
| `ClassifierIsCollection` | what each method of the label manager does to the sets of `EventCollection` (`MovedLabel`, `LabelById`, `LabelByTime`, `EventSetSame`): that the second `find_if` is only reached when no unlabeled entry has the id (`IndexOfIdMissed`) is why a label is never changed while its event is unlabeled. `StackInv` (an event is on the stack once, and was pushed) makes `pop_back` its one turn |
| `EventsAreKept`, `LabelsAreKept` | what each method of the label manager keeps, by its `swap` and `pop_back`; the least of a set of indices exists because < is well founded |
| `DoneMeansStored` | `ClassifierInv`: every pushed event is on the stack or in the manager |
| `TreesFit` | `TreeInv`: the tree is a prefix of the labelled events, and only labels by time come after it |
| `TypeCorrect` | what counts as labelled has the label of a device: pairs that were loaded are lines of the label file (`LoadedAreLines`), one of them is the earliest near an event (`FoundLabel`), and the majority among neighbours, which are labelled events by `TreeInv`, is one of their labels (`MajorityIs`). Assumes that in the models the program starts with the labelled events have labels, as in those it saves |

`ServerProofs`, for any number of servers of both builds, clients and signals:

| theorem | argument |
|---|---|
| `ServersAreReachable`, `QueuesGoWithServers`, `ExitsAreClean` | `ServerInv`: who has the name serves or was killed (`NameIsHeld`), what has stopped where in `run` (`Stopping`), and `Reachable`. A server's own steps (`OwnStep`), the ways the name changes (`NameStep`) and what other servers do (`OthersSame`) are separated |
| `TypeCorrect` | types, and: no message queue gets longer than it may |

`ExperimentsProofs`, for every directory of finitely many events of any shapes, label file and
number of partitions above the number of neighbours (`ExperimentAssumption`; 10 and 5 in the
code):

| theorem | argument |
|---|---|
| `ExperimentsInvariant` | `ExperimentsInv` is inductive: the stack holds loaded events once (`LoadedInv`); the labelled entries differ from each other and from the stack and have equally many features (`LabeledInv`); a loaded event is on the stack or archived with its label (`ArchiveInv`); the results, one after the other, are the first of the shuffled events, each with its own label (`ResultsInv`); if a fresh extractor gets through the one shape all events have, the calculator is fresh or as after that shape (`CalculatorInv`) |
| `EventsAreArchived` | the stack is empty when the archive is written, so `ArchiveInv` says that everything loaded is in it |
| `AlikeEventsAreSafe` | a calculator that has transformed as many points as before is as a new one after its first transform (`AgainForAsMany`), so every event of the one shape is extracted like the first, and all columns of the matrix have one height (`AlikeFit`) |
| `EventsAreTestedOnce` | `ResultsInv`: partitions are consecutive parts of one permutation, so no event is tested twice, and the remainder of the division is less than the number of partitions |
| `DroppingLeavesTheRest` | dropping a partition leaves the events before and after it; the last turn of a division with a remainder is excepted, as in the property |

Every invariant and action property of the passing runs is proved. Only model-checked is
liveness, for fairness and ENABLED are out of the prover's reach: `AddReturns`,
`QueuedPointsLeave`, `LoopEnds`, `PushedAreStored`, `ChangesAreSaved`, `RunnerReturns`,
`ConversionEnds`, `ShutdownIsObeyed`. `NothingLost` and `InsertsRespectMax` of the queue and
`NothingForgotten` of the classifier are only proved: `ImplementsBoundedStream` and
`ImplementsCollection` imply them in the runs. The theorems are about `Spec`; the runs with
liveness add fairness, which does not restrict the states.

The prover has no induction principle that takes an operator. Where a proof needs one it takes
the least counterexample of a concrete set (`LeastExists`, `LeastIs`), which exists because < is
well founded. This is why recursive functions (`FlattenSeq`, `LoadedLabels`, `SumOfSquares`)
have lemmas that say there is such a function, what its value is at every place, and what all
its values keep.

## 6. What is not modelled, and why

- Floating point: the values of features, FFT, normalisation, variance. TLC has no reals;
  the classifier's model lets any points be the nearest instead.
- Files and parsing: HDF5, label files, `ProgramConfiguration`. What matters to the other
  parts is modelled: storing an event may throw, a loaded label set drops pairs that
  are close to one it has, a model file may be incomplete, a text file may lack its header.
- The text of commands; `InputSource` but for what the main thread sees of it; the C
  interface, which puts a buffer of its own before `addDataPoints`.
- `simple_setup` of the experiments, which is the main loop of `DataStreamDistributor`
  without the catch; the layout of what `data_vis` prints.
- In the queue: the destructor, with which no thread may race, and several readers
  or writers at once, which the application does not have.
- Vendored code and tests; tests were read as documentation.

## 7. Plan

All core components have their models, each pipeline's safety its proof, and the queue and the
classifier the refinement of what they promise. What remains: the C interface, its
`addDataPoint` next to `InputSource`, two writers of one queue; and, when the classifier's
wait at the end is repaired, that its runner always returns.
