-------------------- MODULE DataStreamDistributorProofs ---------------------
(***************************************************************************)
(* The local buffer of the distributor is the part of the stream it stands *)
(* for, whatever the workers ask for, wherever the stream ends, and        *)
(* although a worker may throw between reading and freeing.  From that:    *)
(* requests are answered with the windows that were asked for, detection   *)
(* has no gaps, events are cut out where they were detected and are all    *)
(* reported, indices stay in the buffer and the buffer within its bound,   *)
(* for every stream and the configurations each theorem names.             *)
(***************************************************************************)
EXTENDS DataStreamDistributor, SequenceTheorems, FiniteSetTheorems,
        WellFoundedInduction, TLAPS

\* A worker whose turn is over wants nothing that lies past the buffer
PassedWorkersWait ==
  pc = "working" =>
    \A w \in Workers : w < worker_index => read_infos[w].next <= popped

BufferInv == TypeOK /\ BufferIsStream /\ PassedWorkersWait

-----------------------------------------------------------------------------
(* What the workers answer.                                                *)

\* The numbers that are computed from the meta data
LEMMA MetaType ==
  ASSUME NEW meta \in PowerMetaData
  PROVE  /\ minDataPointsNeeded(meta) \in Nat
         /\ meta.data_points_stored_before_event \in Nat
         /\ meta.data_points_stored_of_event \in Nat
         /\ meta.dataPointsPerPeriod \in Nat /\ meta.sample_rate \in Nat
<1>1. /\ meta.data_points_stored_before_event \in Nat
      /\ meta.data_points_stored_of_event \in Nat
      /\ meta.dataPointsPerPeriod \in Nat /\ meta.sample_rate \in Nat
  BY DEF PowerMetaData
<1>2. NumberOfRms * meta.dataPointsPerPeriod \in Nat
  BY <1>1, DetectorAssumption
<1>3. CompareAfter \in Nat
  BY DetectorAssumption
<1>4. Greater(NumberOfRms * meta.dataPointsPerPeriod, CompareAfter) \in Nat
  BY <1>2, <1>3 DEF Greater
<1> QED
  BY <1>1, <1>4 DEF minDataPointsNeeded

\* A worker's answer is a request
LEMMA AnswerType ==
  ASSUME NEW worker \in Workers, NEW window, NEW id \in Int
  PROVE  Answer(worker, window, id) \in Infos
<1>1. Meta \in PowerMetaData
  BY DetectorAssumption
<1>2. /\ minDataPointsNeeded(Meta) \in Nat /\ Before \in Nat /\ Of \in Nat
      /\ Period \in Nat /\ Meta.sample_rate \in Nat
  BY <1>1, MetaType DEF Before, Of, Period
<1>3. nextPeriod(Meta, id) \in Infos
  BY <1>2 DEF nextPeriod, NextReadInfos, Infos
<1>4. /\ getFirstDetectionPeriod(Meta, id) \in Infos
      /\ getNextDetectionPeriod(id) \in Infos
      /\ getEventData(id) \in Infos
      /\ getDataAfterEvent(id) \in Infos
  BY <1>2 DEF getFirstDetectionPeriod, getNextDetectionPeriod, getEventData,
              getDataAfterEvent, NextReadInfos, Infos, Before
<1>5. DetectorAnswer(window, id) \in Infos
  BY <1>4 DEF DetectorAnswer
<1> QED
  BY <1>3, <1>5 DEF Answer

-----------------------------------------------------------------------------
(* What happens to the buffer.                                             *)

\* The steps that only the place in the loop and the end of the stream know of
Halts == MissesEnd \/ SpuriousWakeup \/ WorkerAborts \/ WorkerReadsPastBuffer

\* They take nothing and give nothing
LEMMA HaltKeeps ==
  Halts => /\ UNCHANGED <<fixedVars, detectorVars, read_infos, data_queue,
                         current_global_buffer_pos, popped, worker_index,
                         one_worker_was_executed>>
           /\ stream_ended' = stream_ended \/ stream_ended'
           /\ pc' \in {"reading", "asleep", "aborted", "undefined"}
           /\ pc' \in {"reading", "asleep"} <=> pc \in {"reading", "asleep"}
           /\ pc' = "undefined" =>
                /\ worker_index \in Workers /\ pc = "working"
                /\ IndexPastBuffer(worker_index)
BY DEF Halts, MissesEnd, SpuriousWakeup, WorkerAborts, WorkerReadsPastBuffer,
       bufferVars

\* readBufferForNextRun: points are popped in the order of the stream
LEMMA AppendedPoints ==
  ASSUME NEW q \in Seq(Int), NEW pos \in Int, NEW first \in Int,
         NEW got \in Nat, pos + Len(q) = first,
         \A i \in 1..Len(q) : q[i] = pos + i - 1,
         NEW r, r = q \o [i \in 1..got |-> first + i - 1]
  PROVE  /\ r \in Seq(Int) /\ pos + Len(r) = first + got
         /\ \A i \in 1..Len(r) : r[i] = pos + i - 1
<1> DEFINE new == [i \in 1..got |-> first + i - 1]
<1>1. new \in Seq(Int) /\ Len(new) = got
  <2>1. new \in [1..got -> Int]
    OBVIOUS
  <2> QED
    BY <2>1
<1>2. \A i \in 1..got : new[i] = first + i - 1
  OBVIOUS
<1>3. r = q \o new
  OBVIOUS
<1> HIDE DEF new
<1>4. r \in Seq(Int) /\ Len(r) = Len(q) + got
  BY <1>1, <1>3
<1>5. ASSUME NEW i \in 1..Len(r)
      PROVE  r[i] = pos + i - 1
  <2>1. CASE i <= Len(q)
    BY <1>1, <1>3, <1>4, <2>1
  <2>2. CASE i > Len(q)
    <3>1. i - Len(q) \in 1..got
      BY <1>4, <2>2
    <3>2. r[i] = new[i - Len(q)]
      <4>1. i \in 1..Len(q) + Len(new) /\ i > Len(q)
        BY <1>1, <1>4, <2>2
      <4>2. (q \o new)[i] = new[i - Len(q)]
        BY <1>1, <4>1
      <4> QED
        BY <1>3, <4>2
    <3>3. new[i - Len(q)] = first + (i - Len(q)) - 1
      BY <1>2, <3>1
    <3>4. first + (i - Len(q)) - 1 = pos + i - 1
      <4>1. Len(q) \in Int /\ i \in Int
        BY <1>4
      <4> QED
        BY <4>1
    <3> QED
      BY <3>2, <3>3, <3>4
  <2> QED
    BY <1>4, <2>1, <2>2
<1>6. pos + Len(r) = first + got
  <2>1. Len(q) \in Int
    OBVIOUS
  <2> QED
    BY <1>4, <2>1
<1> QED
  BY <1>4, <1>5, <1>6

\* freeUnusedBuffer: the oldest points are erased
LEMMA ErasedPoints ==
  ASSUME NEW q \in Seq(Int), NEW pos \in Int, NEW n \in Nat, n <= Len(q),
         \A i \in 1..Len(q) : q[i] = pos + i - 1
  PROVE  LET r == SubSeq(q, n + 1, Len(q))
         IN  /\ r \in Seq(Int) /\ Len(r) = Len(q) - n
             /\ \A i \in 1..Len(r) : r[i] = pos + n + i - 1
<1> DEFINE r == SubSeq(q, n + 1, Len(q))
<1>1. r \in Seq(Int) /\ Len(r) = Len(q) - n
  OBVIOUS
<1>2. ASSUME NEW i \in 1..Len(r)
      PROVE  r[i] = pos + n + i - 1
  <2>1. r[i] = q[n + i] /\ n + i \in 1..Len(q)
    BY <1>1
  <2> QED
    BY <2>1
<1> QED
  BY <1>1, <1>2

\* The position freeUnusedBuffer keeps is not past what any worker wants
LEMMA EarliestIsWanted ==
  ASSUME read_infos \in [Workers -> Infos]
  PROVE  /\ earliest_pos_needed \in Int
         /\ \E w \in Workers : earliest_pos_needed <= read_infos[w].next
         /\ \A w \in Workers :
              earliest_pos_needed <= read_infos[w].next - read_infos[w].keep
<1> DEFINE wanted(w) == read_infos[w].next - read_infos[w].keep
           S == {wanted(w) : w \in Workers}
<1>1. \A w \in Workers : wanted(w) \in Int /\ wanted(w) <= read_infos[w].next
  BY DEF Infos
<1>2. S = {wanted(1), wanted(2)}
  BY DEF Workers, Detector, Metrics
<1>3. wanted(1) \in Int /\ wanted(2) \in Int
  BY <1>1 DEF Workers, Detector, Metrics
<1>4. \E x \in S : \A y \in S : x <= y
  <2> HIDE DEF wanted, S
  <2>1. CASE wanted(1) <= wanted(2)
    BY <1>2, <1>3, <2>1
  <2>2. CASE wanted(2) <= wanted(1)
    BY <1>2, <1>3, <2>2
  <2> QED
    BY <1>3, <2>1, <2>2
<1>5. earliest_pos_needed \in S /\ \A y \in S : earliest_pos_needed <= y
  BY <1>4 DEF earliest_pos_needed, Min
<1> QED
  BY <1>1, <1>5
-----------------------------------------------------------------------------
\* The buffer is empty in the beginning
LEMMA BufferInvInitially == Init => BufferInv
<1> SUFFICES ASSUME Init
             PROVE  BufferInv
  OBVIOUS
<1>1. DefaultMeta \in PowerMetaData
  BY DetectorAssumption
<1>2. /\ getFirstDetectionPeriod(DefaultMeta, 0) \in Infos
      /\ nextPeriod(DefaultMeta, 0) \in Infos
  BY <1>1, MetaType DEF getFirstDetectionPeriod, nextPeriod, NextReadInfos,
                        Infos
<1>3. read_infos \in [Workers -> Infos]
  BY <1>2 DEF Init, Workers, Detector, Metrics
<1>4. TypeOK
  <2>1. /\ pc = "reading" /\ worker_index = 1 /\ data_queue = <<>>
        /\ one_worker_was_executed = FALSE /\ stream_ended = FALSE
        /\ current_global_buffer_pos = 0 /\ popped = 0
    BY DEF Init, Detector
  <2>2. stream_ended \in BOOLEAN /\ one_worker_was_executed \in BOOLEAN
    BY <2>1
  <2>3. data_queue \in Seq(Int)
    BY <2>1
  <2> QED
    BY <1>3, <2>1, <2>2, <2>3 DEF TypeOK
<1>5. BufferIsStream /\ PassedWorkersWait
  BY DEF Init, BufferIsStream, PassedWorkersWait
<1> QED
  BY <1>4, <1>5 DEF BufferInv

\* Every step keeps buffer and position in step
LEMMA BufferInvKept == BufferInv /\ [Next]_vars => BufferInv'
<1> SUFFICES ASSUME BufferInv, [Next]_vars
             PROVE  BufferInv'
  OBVIOUS
<1> USE DEF BufferInv
<1>1. CASE ReadBufferForNextRun
  <2>1. PICK got \in 0..dataPointsNeededForNextRun :
          /\ data_queue' = data_queue \o [i \in 1..got |-> popped + i - 1]
          /\ popped' = popped + got
          /\ stream_ended' \in BOOLEAN
    BY <1>1 DEF ReadBufferForNextRun, Pops, TypeOK
  <2>2. got \in Nat
    OBVIOUS
  <2>3. /\ data_queue' \in Seq(Int)
        /\ current_global_buffer_pos + Len(data_queue') = popped'
        /\ \A i \in 1..Len(data_queue') :
             data_queue'[i] = current_global_buffer_pos + i - 1
    <3>1. /\ data_queue \in Seq(Int) /\ current_global_buffer_pos \in Int
          /\ popped \in Int
          /\ current_global_buffer_pos + Len(data_queue) = popped
          /\ \A i \in 1..Len(data_queue) :
               data_queue[i] = current_global_buffer_pos + i - 1
      BY DEF TypeOK, BufferIsStream
    <3> QED
      BY <2>1, <2>2, <3>1, AppendedPoints
  <2>4. /\ UNCHANGED <<current_global_buffer_pos, read_infos>>
        /\ worker_index' = 1 /\ pc' = "working"
        /\ one_worker_was_executed' = FALSE
    BY <1>1 DEF ReadBufferForNextRun, Detector
  <2>5. TypeOK'
    <3>1. popped' \in Nat
      BY <2>1, <2>2 DEF TypeOK
    <3>2. one_worker_was_executed' \in BOOLEAN
      BY <2>4
    <3> QED
      BY <2>1, <2>3, <2>4, <3>1, <3>2 DEF TypeOK
  <2>6. BufferIsStream'
    BY <2>3, <2>4 DEF BufferIsStream
  <2>7. PassedWorkersWait'
    BY <2>4 DEF PassedWorkersWait, Workers, Detector, Metrics
  <2> QED
    BY <2>5, <2>6, <2>7
<1>2. ASSUME NEW worker \in Workers, ExecuteWorkerOnce(worker)
      PROVE  BufferInv'
  <2>1. WindowId(worker) \in Int
    BY DEF TypeOK, Infos, WindowId, getIndexInLocalBufferforRead
  <2>2. Answer(worker, Window(worker), WindowId(worker)) \in Infos
    BY <2>1, AnswerType
  <2>3. /\ worker_index = worker /\ UNCHANGED <<bufferVars, pc, worker_index>>
        /\ one_worker_was_executed' = TRUE
        /\ read_infos' = [read_infos EXCEPT ![worker] =
                            Answer(worker, Window(worker), WindowId(worker))]
    BY <1>2 DEF ExecuteWorkerOnce
  <2> QED
    BY <2>2, <2>3
    DEF TypeOK, BufferIsStream, PassedWorkersWait, bufferVars
<1>3. CASE WorkerThrows \/ Halts
  BY <1>3, HaltKeeps DEF WorkerThrows, TypeOK, BufferIsStream,
      PassedWorkersWait, bufferVars, fixedVars
<1>4. CASE NextWorker
  <2>1. /\ worker_index \in Workers /\ ~IndexPastBuffer(worker_index)
        /\ worker_index' = worker_index + 1
        /\ UNCHANGED <<bufferVars, pc, read_infos, one_worker_was_executed>>
    BY <1>4 DEF NextWorker
  <2>2. read_infos[worker_index].next <= popped
    BY <2>1 DEF IndexPastBuffer, getIndexInLocalBufferforRead, TypeOK, Infos,
                BufferIsStream
  <2> QED
    BY <2>1, <2>2 DEF TypeOK, BufferIsStream, PassedWorkersWait, bufferVars,
                      Workers, Detector, Metrics
<1>5. CASE FreeUnusedBuffer
  <2>1. /\ pc' \in {"reading", "ended"} /\ pc = "working"
        /\ worker_index \notin Workers
        /\ UNCHANGED <<read_infos, popped, stream_ended, worker_index,
                       one_worker_was_executed>>
    BY <1>5 DEF FreeUnusedBuffer
  <2>2. earliest_pos_needed \in Int /\ earliest_pos_needed <= popped
    <3>1. \A w \in Workers : w < worker_index
      BY <2>1 DEF TypeOK, Workers, Detector, Metrics
    <3>2. \A w \in Workers : read_infos[w].next <= popped
      BY <2>1, <3>1 DEF PassedWorkersWait
    <3>3. \A w \in Workers : read_infos[w].next \in Int
      BY DEF TypeOK, Infos
    <3> QED
      BY <3>2, <3>3, EarliestIsWanted DEF TypeOK
  <2>3. CASE earliest_pos_needed <= current_global_buffer_pos
    BY <1>5, <2>1, <2>3 DEF FreeUnusedBuffer, TypeOK, BufferIsStream,
                            PassedWorkersWait
  <2>4. CASE ~(earliest_pos_needed <= current_global_buffer_pos)
    <3>1. /\ data_queue' =
               SubSeq(data_queue, elements_erased + 1, Len(data_queue))
          /\ current_global_buffer_pos' = earliest_pos_needed
      BY <1>5, <2>4 DEF FreeUnusedBuffer
    <3>2. elements_erased \in Nat /\ elements_erased <= Len(data_queue)
          /\ earliest_pos_needed = current_global_buffer_pos + elements_erased
      BY <2>2, <2>4 DEF elements_erased, TypeOK, BufferIsStream
    <3>3. /\ data_queue' \in Seq(Int)
          /\ Len(data_queue') = Len(data_queue) - elements_erased
          /\ \A i \in 1..Len(data_queue') :
               data_queue'[i] =
                 current_global_buffer_pos + elements_erased + i - 1
      BY <3>1, <3>2, ErasedPoints DEF TypeOK, BufferIsStream
    <3>4. TypeOK'
      BY <2>1, <2>2, <2>4, <3>1, <3>2, <3>3 DEF TypeOK
    <3>5. BufferIsStream'
      <4>1. /\ Len(data_queue) \in Nat /\ current_global_buffer_pos \in Int
            /\ current_global_buffer_pos + Len(data_queue) = popped
        BY DEF TypeOK, BufferIsStream
      <4>2. current_global_buffer_pos' =
              current_global_buffer_pos + elements_erased
        BY <3>1, <3>2
      <4>3. current_global_buffer_pos' + Len(data_queue') = popped'
        BY <2>1, <3>2, <3>3, <4>1, <4>2
      <4>4. \A i \in 1..Len(data_queue') :
              data_queue'[i] = current_global_buffer_pos' + i - 1
        BY <3>3, <4>2
      <4> QED
        BY <4>3, <4>4 DEF BufferIsStream
    <3>6. PassedWorkersWait'
      BY <2>1 DEF PassedWorkersWait
    <3> QED
      BY <3>4, <3>5, <3>6
  <2> QED
    BY <2>3, <2>4
<1>6. CASE UNCHANGED vars
  BY <1>6 DEF vars, fixedVars, loopVars, bufferVars, TypeOK, BufferIsStream,
      PassedWorkersWait
<1> QED
  BY <1>1, <1>2, <1>3, <1>4, <1>5, <1>6 DEF Next, Loop, Halts

-----------------------------------------------------------------------------
(***************************************************************************)
(* The types of what the distributor keeps.                                *)
(***************************************************************************)
THEOREM TypeCorrect == Spec => []TypeOK
<1>1. BufferInv => TypeOK
  BY DEF BufferInv
<1> QED
  BY <1>1, BufferInvInitially, BufferInvKept, PTL DEF Spec

(***************************************************************************)
(* The ids the workers get are the positions of their points in the        *)
(* stream: readBufferForNextRun and freeUnusedBuffer keep the buffer and   *)
(* its position in step.                                                   *)
(***************************************************************************)
THEOREM BufferHoldsTheStream == Spec => []BufferIsStream
<1>1. BufferInv => BufferIsStream
  BY DEF BufferInv
<1> QED
  BY <1>1, BufferInvInitially, BufferInvKept, PTL DEF Spec

-----------------------------------------------------------------------------
(* The windows are the requested ones.  What a worker asks for next is not *)
(* before the buffer; and neither is the data of an event, if it is        *)
(* detected in a window for which the detector has kept what was before:   *)
(* it detects nothing in others, as it has no root mean squares then.      *)

PastIsKept ==
  /\ \A w \in Workers : current_global_buffer_pos <= read_infos[w].next
  /\ \/ previous_rms = <<>>
     \/ read_infos[Detector].keep = Before
  /\ read_infos[Detector].keep = Before =>
       current_global_buffer_pos <= read_infos[Detector].next - Before + Period

RequestInv == BufferInv /\ PastIsKept

\* The numbers of the configuration
LEMMA MetaIsMeta ==
  /\ minDataPointsNeeded(Meta) \in Nat /\ Before \in Nat /\ Of \in Nat
  /\ Period \in Nat /\ Meta.sample_rate \in Nat
BY DetectorAssumption, MetaType DEF Before, Of, Period

\* The requested window is the one that is read
LEMMA WindowIsRequested ==
  ASSUME RequestInv, NEW w \in Workers
  PROVE  WindowId(w) = read_infos[w].next /\ read_infos[w].next >= 0
<1>1. /\ current_global_buffer_pos \in Nat /\ read_infos[w].next \in Int
      /\ current_global_buffer_pos <= read_infos[w].next
  BY DEF RequestInv, BufferInv, TypeOK, PastIsKept, Infos
<1> QED
  BY <1>1 DEF WindowId, getIndexInLocalBufferforRead

\* What the detector may answer to a window: it detects nothing in one for
\* which it has no root mean squares of others
LEMMA DetectorAnswers ==
  ASSUME previous_rms = <<>> \/ read_infos[Detector].keep = Before,
         NEW window, NEW id \in Int, DetectorWorks(window, id)
  PROVE  LET a == DetectorAnswer(window, id)
         IN  /\ requested_data_point_id' = a.next
             /\ \/ /\ a.keep = Before
                   /\ a.next = id + Before \/ a.next = id + Before + Of
                \/ /\ ~IsEventData(window, id) /\ window # <<>>
                   /\ a.keep = Before
                   /\ a.next = id + minDataPointsNeeded(Meta)
                \/ /\ previous_rms' = <<>> /\ detected_an_event'
                   /\ read_infos[Detector].keep = Before
                   /\ a.keep = 0 /\ a.read = Before + Of
                   /\ a.next = id - Before + Period
<1> DEFINE a == DetectorAnswer(window, id)
<1>1. requested_data_point_id' = a.next
  BY DEF DetectorWorks
<1>2. CASE window = <<>>
  <2>1. a = getFirstDetectionPeriod(Meta, id)
    BY <1>2 DEF DetectorAnswer, IsEventData
  <2>2. a.keep = Before /\ a.next = id + Before
    BY <2>1 DEF getFirstDetectionPeriod, NextReadInfos, Before
  <2> QED
    BY <1>1, <2>2
<1>3. CASE IsEventData(window, id)
  <2>1. a = getDataAfterEvent(id)
    BY <1>3 DEF DetectorAnswer, IsEventData
  <2>2. a.keep = Before /\ a.next = id + Before + Of
    BY <2>1 DEF getDataAfterEvent, NextReadInfos
  <2> QED
    BY <1>1, <2>2
<1>4. CASE window # <<>> /\ ~IsEventData(window, id) /\ ~detectEvent(window)
  <2>1. a = getNextDetectionPeriod(id)
    BY <1>4 DEF DetectorAnswer
  <2>2. a.keep = Before /\ a.next = id + minDataPointsNeeded(Meta)
    BY <2>1 DEF getNextDetectionPeriod, NextReadInfos
  <2> QED
    BY <1>1, <1>4, <2>2
<1>5. CASE window # <<>> /\ ~IsEventData(window, id) /\ detectEvent(window)
  <2>1. a = getEventData(id)
    BY <1>5 DEF DetectorAnswer
  <2>2. /\ a.keep = 0 /\ a.read = Before + Of
        /\ a.next = id - Before + Period
    BY <2>1 DEF getEventData, NextReadInfos
  <2>3. previous_rms' = <<>> /\ detected_an_event'
    BY <1>5 DEF DetectorWorks, NothingToDetect, ReportsEvent, DetectsEvent,
                DetectsNothing
  <2>4. previous_rms # <<>>
    <3>1. Len(previous_rms) + 1 >= NumberOfRms
      BY <1>5 DEF detectEvent
    <3> QED
      BY <3>1, DetectorAssumption
  <2> QED
    BY <1>1, <2>2, <2>3, <2>4
<1> QED
  BY <1>2, <1>3, <1>4, <1>5

\* Nothing was erased in the beginning
LEMMA RequestInvInitially == Init => RequestInv
<1> SUFFICES ASSUME Init
             PROVE  RequestInv
  OBVIOUS
<1>1. DefaultMeta.data_points_stored_before_event \in Nat
      /\ DefaultMeta.sample_rate \in Nat
  BY DetectorAssumption, MetaType
<1>2. /\ read_infos[Detector].next
           = DefaultMeta.data_points_stored_before_event
      /\ read_infos[Detector].keep
           = DefaultMeta.data_points_stored_before_event
      /\ read_infos[Metrics].next = DefaultMeta.sample_rate
      /\ current_global_buffer_pos = 0 /\ previous_rms = <<>>
  BY <1>1 DEF Init, DetectorInit, getFirstDetectionPeriod, nextPeriod,
              NextReadInfos, Detector, Metrics
<1> QED
  BY <1>1, <1>2, BufferInvInitially, MetaIsMeta
  DEF RequestInv, PastIsKept, Workers

\* Every step keeps what may still be asked for
LEMMA RequestInvKept ==
  ASSUME PastIsShort, RequestInv, [Next]_vars
  PROVE  RequestInv'
<1>1. BufferInv /\ BufferInv'
  BY BufferInvKept DEF RequestInv
<1>2. /\ \A w \in Workers : /\ read_infos[w].next \in Int
                            /\ read_infos[w].keep \in Nat
                            /\ read_infos[w].keep >= 0
      /\ current_global_buffer_pos \in Int
  BY <1>1 DEF BufferInv, TypeOK, Infos
<1>3. ASSUME UNCHANGED <<current_global_buffer_pos, read_infos, previous_rms>>
      PROVE  PastIsKept'
  BY <1>3 DEF RequestInv, PastIsKept
<1>4. ASSUME ReadBufferForNextRun \/ Halts \/ NextWorker
             \/ WorkerThrows \/ UNCHANGED vars
      PROVE  PastIsKept'
  BY <1>3, <1>4, HaltKeeps DEF ReadBufferForNextRun, NextWorker, WorkerThrows,
      ReportThrows, detectorVars, bufferVars, vars, fixedVars
<1>5. ASSUME NEW worker \in Workers, ExecuteWorkerOnce(worker)
      PROVE  PastIsKept'
  <2> DEFINE id == WindowId(worker)
             a == Answer(worker, Window(worker), id)
  <2>1. id = read_infos[worker].next /\ id \in Int
    BY <1>2, WindowIsRequested
  <2>2. /\ current_global_buffer_pos' = current_global_buffer_pos
        /\ read_infos' = [read_infos EXCEPT ![worker] = a]
    BY <1>5 DEF ExecuteWorkerOnce, bufferVars
  <2>3. read_infos'[worker] = a
        /\ \A w \in Workers \ {worker} : read_infos'[w] = read_infos[w]
    BY <1>1, <2>2 DEF BufferInv, TypeOK
  <2>4. current_global_buffer_pos <= id
    BY <2>1 DEF RequestInv, PastIsKept
  <2> HIDE DEF id, a
  <2>5. CASE worker = Metrics
    <3>1. a.next = id + Meta.sample_rate
      BY <2>5 DEF a, id, Answer, nextPeriod, NextReadInfos, Detector, Metrics
    <3>2. current_global_buffer_pos <= a.next
      BY <1>2, <2>1, <2>4, <3>1, MetaIsMeta
    <3>3. read_infos'[Detector] = read_infos[Detector]
      BY <2>3, <2>5 DEF Workers, Detector, Metrics
    <3>4. previous_rms' = previous_rms
      BY <1>5, <2>5 DEF ExecuteWorkerOnce, Detector, Metrics, detectorVars
    <3> QED
      BY <2>2, <2>3, <3>2, <3>3, <3>4 DEF RequestInv, PastIsKept
  <2>6. CASE worker = Detector
    <3>1. DetectorWorks(Window(worker), id)
      BY <1>5, <2>6 DEF ExecuteWorkerOnce, id
    <3>2. a = DetectorAnswer(Window(worker), id)
      BY <2>6 DEF a, id, Answer
    <3>3. PastIsKept /\ (previous_rms = <<>>
                           \/ read_infos[Detector].keep = Before)
      BY DEF RequestInv, PastIsKept
    <3>4. CASE /\ a.keep = Before
               /\ \/ a.next = id + minDataPointsNeeded(Meta)
                  \/ a.next = id + Before \/ a.next = id + Before + Of
      <4>1. /\ current_global_buffer_pos <= a.next
            /\ current_global_buffer_pos <= a.next - Before + Period
        BY <1>2, <2>1, <2>4, <3>4, MetaIsMeta DEF PastIsShort
      <4> QED
        BY <2>2, <2>3, <2>6, <3>3, <3>4, <4>1 DEF PastIsKept
    <3>5. CASE /\ previous_rms' = <<>> /\ read_infos[Detector].keep = Before
               /\ a.keep = 0 /\ a.next = id - Before + Period
      <4>1. current_global_buffer_pos <= id - Before + Period
        BY <2>1, <2>6, <3>3, <3>5 DEF PastIsKept
      <4>2. /\ current_global_buffer_pos <= a.next
            /\ a.keep = Before =>
                 current_global_buffer_pos <= a.next - Before + Period
        BY <1>2, <2>1, <3>5, <4>1, MetaIsMeta
      <4> QED
        BY <2>2, <2>3, <2>6, <3>3, <3>5, <4>2 DEF PastIsKept
    <3> QED
      BY <2>1, <3>1, <3>2, <3>3, <3>4, <3>5, DetectorAnswers
  <2> QED
    BY <2>5, <2>6 DEF Workers
<1>6. ASSUME FreeUnusedBuffer
      PROVE  PastIsKept'
  <2>1. UNCHANGED <<read_infos, previous_rms>>
    BY <1>6 DEF FreeUnusedBuffer, detectorVars
  <2>2. CASE UNCHANGED current_global_buffer_pos
    BY <1>3, <2>1, <2>2
  <2>3. CASE current_global_buffer_pos' = earliest_pos_needed
    <3>1. earliest_pos_needed \in Int
      BY <1>1, EarliestIsWanted DEF BufferInv, TypeOK
    <3>2. \A w \in Workers :
            earliest_pos_needed <= read_infos[w].next - read_infos[w].keep
      BY <1>1, EarliestIsWanted DEF BufferInv, TypeOK
    <3>3. /\ \A w \in Workers : earliest_pos_needed <= read_infos[w].next
          /\ read_infos[Detector].keep = Before =>
               earliest_pos_needed
                 <= read_infos[Detector].next - Before + Period
      BY <1>2, <3>1, <3>2, MetaIsMeta DEF Workers
    <3> QED
      BY <2>1, <2>3, <3>3 DEF RequestInv, PastIsKept
  <2> QED
    BY <1>6, <2>2, <2>3 DEF FreeUnusedBuffer
<1> QED
  BY <1>1, <1>4, <1>5, <1>6 DEF Next, Loop, Halts, RequestInv

-----------------------------------------------------------------------------
(* A long past is kept from the first answer of the detector on, but the   *)
(* stream may not have one yet.  As long as no slot throws, the detector   *)
(* searches no window of an event's data but one that was to begin before  *)
(* the stream, and then the buffer has all of the stream.                  *)

LongPastIsKept ==
  /\ requested_data_point_id = read_infos[Detector].next
  /\ \A w \in Workers :
       current_global_buffer_pos <= Greater(read_infos[w].next, 0)
  /\ \/ previous_rms = <<>>
     \/ read_infos[Detector].keep = Before
  /\ \/ /\ read_infos[Detector].keep = Before
        /\ current_global_buffer_pos
             <= Greater(read_infos[Detector].next - Before + Period, 0)
     \/ /\ current_global_buffer_pos = 0
        /\ read_infos[Detector].next <= read_infos[Detector].keep
     \/ /\ detected_an_event
        /\ read_infos[Detector].keep = 0 /\ read_infos[Detector].next >= 0
        /\ read_infos[Detector].read = Before + Of

LongInv == BufferInv /\ (slots_throw \/ LongPastIsKept)

\* What WindowId is when the buffer does not begin behind the request
LEMMA WindowIdOfLongPast ==
  ASSUME BufferInv, LongPastIsKept, NEW w \in Workers
  PROVE  /\ WindowId(w) = Greater(read_infos[w].next, 0)
         /\ WindowId(w) \in Int
         /\ WindowId(w) >= current_global_buffer_pos
         /\ WindowId(w) >= read_infos[w].next
<1>1. /\ current_global_buffer_pos \in Int /\ read_infos[w].next \in Int
      /\ current_global_buffer_pos >= 0
      /\ current_global_buffer_pos <= Greater(read_infos[w].next, 0)
  BY DEF BufferInv, TypeOK, LongPastIsKept, Infos
<1> QED
  BY <1>1 DEF WindowId, getIndexInLocalBufferforRead, Greater

\* A worker gets as many points as it has asked for
LEMMA WindowLength ==
  ASSUME BufferInv, NEW w \in Workers, ~IndexPastBuffer(w),
         WindowInBuffer(w)
  PROVE  Len(Window(w)) = read_infos[w].read
<1> DEFINE k == getIndexInLocalBufferforRead(w)
           r == read_infos[w].read
<1>1. /\ data_queue \in Seq(Int) /\ r \in Nat /\ k \in Nat
  BY DEF BufferInv, TypeOK, Infos, getIndexInLocalBufferforRead
<1>2. Len(data_queue) - k >= r /\ Window(w) = SubSeq(data_queue, k + 1, k + r)
  BY DEF WindowInBuffer, Window
<1> HIDE DEF k, r
<1> QED
  BY <1>1, <1>2 DEF r

\* The same with a long past: nothing was erased in the beginning
LEMMA LongPastInitially == Init => LongInv
<1> SUFFICES ASSUME Init
             PROVE  LongPastIsKept
  BY BufferInvInitially DEF LongInv
<1>1. DefaultMeta.data_points_stored_before_event \in Nat
      /\ DefaultMeta.sample_rate \in Nat
  BY DetectorAssumption, MetaType
<1>2. /\ read_infos[Detector].next
           = DefaultMeta.data_points_stored_before_event
      /\ read_infos[Detector].keep
           = DefaultMeta.data_points_stored_before_event
      /\ requested_data_point_id
           = DefaultMeta.data_points_stored_before_event
      /\ read_infos[Metrics].next = DefaultMeta.sample_rate
      /\ current_global_buffer_pos = 0 /\ previous_rms = <<>>
  BY <1>1 DEF Init, DetectorInit, getFirstDetectionPeriod, nextPeriod,
              NextReadInfos, Detector, Metrics
<1> QED
  BY <1>1, <1>2 DEF LongPastIsKept, Workers, Greater

\* A step of the detector, from the window it is called with
LEMMA DetectorKeepsLongPast ==
  ASSUME ~PastIsShort, BufferInv, LongPastIsKept, ExecuteWorkerOnce(Detector)
  PROVE  LongPastIsKept'
<1> DEFINE window == Window(Detector)
           id == WindowId(Detector)
           a == DetectorAnswer(window, id)
           pos == current_global_buffer_pos
           infos == read_infos[Detector]
<1>1. /\ DetectorWorks(window, id) /\ UNCHANGED current_global_buffer_pos
      /\ read_infos' = [read_infos EXCEPT ![Detector] = a]
  BY DEF ExecuteWorkerOnce, Answer, bufferVars
<1>2. /\ read_infos'[Detector] = a
      /\ read_infos'[Metrics] = read_infos[Metrics]
  BY <1>1 DEF BufferInv, TypeOK, Workers, Detector, Metrics
<1>3. /\ id = Greater(infos.next, 0) /\ id \in Int
      /\ id >= pos /\ id >= infos.next
  BY WindowIdOfLongPast DEF Workers
<1>4. /\ pos \in Int /\ pos >= 0 /\ infos.next \in Int /\ infos.keep \in Nat
      /\ pos <= Greater(infos.next, 0)
      /\ requested_data_point_id = infos.next
      /\ \/ infos.keep = Before /\ pos <= Greater(infos.next - Before + Period, 0)
         \/ pos = 0 /\ infos.next <= infos.keep
         \/ /\ detected_an_event
            /\ infos.keep = 0 /\ infos.next >= 0
            /\ infos.read = Before + Of
  BY DEF BufferInv, TypeOK, Infos, LongPastIsKept, Workers
<1>5. /\ Before > 0 /\ Before > minDataPointsNeeded(Meta) + Period
  BY MetaIsMeta DEF PastIsShort
<1>6. /\ requested_data_point_id' = a.next
      /\ \/ /\ a.keep = Before
            /\ a.next = id + Before \/ a.next = id + Before + Of
         \/ /\ ~IsEventData(window, id) /\ window # <<>>
            /\ a.keep = Before
            /\ a.next = id + minDataPointsNeeded(Meta)
         \/ /\ previous_rms' = <<>> /\ detected_an_event'
            /\ infos.keep = Before
            /\ a.keep = 0 /\ a.read = Before + Of
            /\ a.next = id - Before + Period
  BY <1>1, <1>3, DetectorAnswers DEF LongPastIsKept
<1>7. pos <= Greater(read_infos[Metrics].next, 0)
  BY DEF LongPastIsKept, Workers
<1>8. SUFFICES /\ pos <= Greater(a.next, 0)
               /\ previous_rms' = <<>> \/ a.keep = Before
               /\ \/ /\ a.keep = Before
                     /\ pos <= Greater(a.next - Before + Period, 0)
                  \/ pos = 0 /\ a.next <= a.keep
                  \/ /\ detected_an_event' /\ a.keep = 0 /\ a.next >= 0
                     /\ a.read = Before + Of
  BY <1>1, <1>2, <1>4, <1>6, <1>7 DEF LongPastIsKept, Workers
<1> HIDE DEF window, id, a
<1>9. CASE a.keep = Before
           /\ (a.next = id + Before \/ a.next = id + Before + Of)
  <2>1. pos <= a.next /\ pos <= a.next - Before + Period
    BY <1>3, <1>4, <1>9, MetaIsMeta
  <2> QED
    BY <1>3, <1>4, <1>9, <2>1, MetaIsMeta DEF Greater
<1>10. CASE ~IsEventData(window, id) /\ window # <<>> /\ a.keep = Before
            /\ a.next = id + minDataPointsNeeded(Meta)
  <2>1. pos <= Greater(a.next, 0)
    BY <1>3, <1>4, <1>10, MetaIsMeta DEF Greater
  <2>2. ~(detected_an_event /\ infos.next >= 0)
    BY <1>3, <1>4, <1>10 DEF IsEventData, Greater
  <2>3. CASE pos <= Greater(infos.next - Before + Period, 0)
    <3>1. pos <= Greater(a.next - Before + Period, 0)
      <4>1. a.next \in Int /\ infos.next \in Int /\ a.next >= infos.next
            /\ Before \in Int /\ Period \in Int /\ pos \in Int
        BY <1>3, <1>4, <1>10, MetaIsMeta
      <4> HIDE DEF infos, pos
      <4> QED
        BY <4>1, <2>3 DEF Greater
    <3> QED
      BY <1>10, <2>1, <3>1
  <2>4. CASE pos = 0
    <3>1. pos <= Greater(a.next - Before + Period, 0)
      BY <1>3, <1>10, <2>4, MetaIsMeta DEF Greater
    <3> QED
      BY <1>10, <2>1, <3>1
  <2> QED
    BY <1>4, <2>2, <2>3, <2>4
<1>11. CASE /\ previous_rms' = <<>> /\ detected_an_event'
            /\ infos.keep = Before /\ a.keep = 0 /\ a.read = Before + Of
            /\ a.next = id - Before + Period
  <2>1. pos <= Greater(infos.next - Before + Period, 0)
    BY <1>4, <1>5, <1>11, MetaIsMeta DEF Greater
  <2>2. pos <= Greater(a.next, 0)
    BY <1>3, <1>4, <1>11, <2>1, MetaIsMeta DEF Greater
  <2>3. (pos = 0 /\ a.next <= 0) \/ a.next >= 0
    BY <1>3, <1>4, <1>11, <2>2, MetaIsMeta DEF Greater
  <2> QED
    BY <1>11, <2>2, <2>3
<1> QED
  BY <1>6, <1>9, <1>10, <1>11

\* ... and every step keeps what may still be asked for, if no slot throws
LEMMA LongPastKept ==
  ASSUME ~PastIsShort, LongInv, [Next]_vars
  PROVE  LongInv'
<1>1. BufferInv /\ BufferInv' /\ slots_throw' = slots_throw
  BY BufferInvKept, HaltKeeps DEF LongInv, Next, Loop, ReadBufferForNextRun,
      ExecuteWorkerOnce, WorkerThrows, Halts, NextWorker, FreeUnusedBuffer,
      vars, fixedVars
<1>2. SUFFICES ASSUME ~slots_throw, LongPastIsKept
               PROVE  LongPastIsKept'
  BY <1>1 DEF LongInv
<1>3. ASSUME UNCHANGED <<current_global_buffer_pos, read_infos, previous_rms,
                         requested_data_point_id, detected_an_event>>
      PROVE  LongPastIsKept'
  BY <1>2, <1>3 DEF LongPastIsKept
<1>4. CASE ReadBufferForNextRun \/ Halts \/ NextWorker
           \/ UNCHANGED vars
  BY <1>3, <1>4, HaltKeeps DEF ReadBufferForNextRun, NextWorker, detectorVars,
      bufferVars, vars, fixedVars
<1>5. CASE ExecuteWorkerOnce(Detector)
  BY <1>1, <1>2, <1>5, DetectorKeepsLongPast
<1>6. CASE ExecuteWorkerOnce(Metrics)
  <2> DEFINE id == WindowId(Metrics)
             a == nextPeriod(Meta, id)
  <2>1. /\ UNCHANGED <<current_global_buffer_pos, detectorVars>>
        /\ read_infos' = [read_infos EXCEPT ![Metrics] = a]
    BY <1>6 DEF ExecuteWorkerOnce, bufferVars, Answer, Detector, Metrics
  <2>2. /\ read_infos'[Metrics] = a
        /\ read_infos'[Detector] = read_infos[Detector]
    BY <1>1, <2>1 DEF BufferInv, TypeOK, Workers, Detector, Metrics
  <2>3. id \in Int /\ id >= current_global_buffer_pos
    BY <1>1, <1>2, WindowIdOfLongPast DEF Workers
  <2>4. a.next = id + Meta.sample_rate
    BY DEF nextPeriod, NextReadInfos
  <2> HIDE DEF id, a
  <2>5. current_global_buffer_pos \in Int /\ current_global_buffer_pos >= 0
    BY <1>1, <1>2 DEF BufferInv, TypeOK, LongPastIsKept
  <2>6. current_global_buffer_pos <= Greater(a.next, 0)
    BY <2>3, <2>4, <2>5, MetaIsMeta DEF Greater
  <2> QED
    BY <1>2, <2>1, <2>2, <2>6 DEF LongPastIsKept, Workers, detectorVars
<1>7. CASE WorkerThrows
  <2>1. /\ ~IndexPastBuffer(Detector) /\ WindowInBuffer(Detector)
        /\ Len(Window(Detector)) < Before + Of
        /\ UNCHANGED <<current_global_buffer_pos, read_infos, previous_rms,
                       requested_data_point_id>>
    BY <1>2, <1>7 DEF WorkerThrows, ReportThrows, bufferVars
  <2>2. Len(Window(Detector)) = read_infos[Detector].read
        /\ read_infos[Detector].read \in Nat
    BY <1>1, <2>1, WindowLength DEF Workers, BufferInv, TypeOK, Infos
  <2>3. read_infos[Detector].read # Before + Of
    BY <2>1, <2>2, MetaIsMeta
  <2> QED
    BY <1>2, <2>1, <2>3 DEF LongPastIsKept
<1>8. CASE FreeUnusedBuffer
  <2>1. UNCHANGED <<read_infos, detectorVars>>
    BY <1>8 DEF FreeUnusedBuffer
  <2>2. CASE UNCHANGED current_global_buffer_pos
    BY <1>3, <2>1, <2>2 DEF detectorVars
  <2>3. CASE /\ earliest_pos_needed > current_global_buffer_pos
             /\ current_global_buffer_pos' = earliest_pos_needed
    <3>1. /\ earliest_pos_needed \in Int
          /\ \A w \in Workers :
               earliest_pos_needed <= read_infos[w].next - read_infos[w].keep
      BY <1>1, EarliestIsWanted DEF BufferInv, TypeOK
    <3>2. /\ \A w \in Workers : /\ read_infos[w].next \in Int
                                /\ read_infos[w].keep \in Nat
          /\ current_global_buffer_pos \in Int
          /\ current_global_buffer_pos >= 0
      BY <1>1, <1>2 DEF BufferInv, TypeOK, Infos, LongPastIsKept
    <3>3. \A w \in Workers : earliest_pos_needed <= Greater(read_infos[w].next, 0)
      BY <3>1, <3>2 DEF Greater
    <3>4. /\ earliest_pos_needed >= 0
          /\ read_infos[Detector].keep = Before =>
               earliest_pos_needed
                 <= Greater(read_infos[Detector].next - Before + Period, 0)
      BY <2>3, <3>1, <3>2, MetaIsMeta DEF Workers, Greater
    <3>5. ~(current_global_buffer_pos = 0
              /\ read_infos[Detector].next <= read_infos[Detector].keep)
      BY <2>3, <3>1, <3>2 DEF Workers
    <3> QED
      BY <1>2, <2>1, <2>3, <3>3, <3>4, <3>5 DEF LongPastIsKept, detectorVars
  <2> QED
    <3>1. \/ UNCHANGED current_global_buffer_pos
          \/ /\ ~(earliest_pos_needed <= current_global_buffer_pos)
             /\ current_global_buffer_pos' = earliest_pos_needed
      BY <1>8 DEF FreeUnusedBuffer
    <3>2. earliest_pos_needed \in Int /\ current_global_buffer_pos \in Int
      BY <1>1, EarliestIsWanted DEF BufferInv, TypeOK
    <3> QED
      BY <2>2, <2>3, <3>1, <3>2
<1> QED
  BY <1>4, <1>5, <1>6, <1>7, <1>8 DEF Next, Loop, Halts, Workers

(***************************************************************************)
(* Every worker is called with the window it asked for, in every           *)
(* configuration: getIndexInLocalBufferforRead never has to answer a       *)
(* request for points that are gone, unless a slot has thrown and what is  *)
(* stored before an event does not fit into a window and a period.         *)
(***************************************************************************)
THEOREM RequestsAreAnswered == Spec => ReadsAtRequestedPosition
<1>1. CASE PastIsShort
  <2>1. Init => RequestInv
    BY RequestInvInitially
  <2>2. RequestInv /\ [Next]_vars => RequestInv'
    BY <1>1, RequestInvKept
  <2>3. RequestInv /\ [Next]_vars =>
          [\A w \in Workers :
             ExecuteWorkerOnce(w) /\ (slots_throw => PastIsShort)
               => WindowId(w) = Greater(read_infos[w].next, 0)]_vars
    BY WindowIsRequested DEF Greater
  <2> QED
    BY <2>1, <2>2, <2>3, PTL DEF Spec, ReadsAtRequestedPosition
<1>2. CASE ~PastIsShort
  <2>1. Init => LongInv
    BY LongPastInitially
  <2>2. LongInv /\ [Next]_vars => LongInv'
    BY <1>2, LongPastKept
  <2>3. LongInv /\ [Next]_vars =>
          [\A w \in Workers :
             ExecuteWorkerOnce(w) /\ (slots_throw => PastIsShort)
               => WindowId(w) = Greater(read_infos[w].next, 0)]_vars
    BY <1>2, WindowIdOfLongPast DEF LongInv
  <2> QED
    BY <2>1, <2>2, <2>3, PTL DEF Spec, ReadsAtRequestedPosition
<1> QED
  BY <1>1, <1>2

-----------------------------------------------------------------------------
(* Where events are cut out.  If the detector gets the window it asks for, *)
(* the next one after a detection is that of the event's data.  If it gets *)
(* another one, the past of the event is long, and the windows it takes    *)
(* for the event's data from then on are too short for createEvent.        *)

EventsHaveData == Before + Of > 0

\* A part of the stream, without a gap
IsCutFromStream(points, first) ==
  /\ points # <<>> /\ points[1] = first
  /\ \A i \in 1..Len(points) - 1 : points[i + 1] = points[i] + 1

IsPlaced(e) ==
  LET points == e.before_event \o e.event
  IN  /\ points # <<>>
      /\ points[1] + Before - Period \in detections
      /\ \A i \in 1..Len(points) - 1 : points[i + 1] = points[i] + 1

PlaceInv ==
  /\ requested_data_point_id = read_infos[Detector].next
  /\ detected_an_event =>
       \/ /\ requested_data_point_id + Before - Period \in detections
          /\ read_infos[Detector].read = Before + Of
       \/ ~PastIsShort /\ read_infos[Detector].read < Before + Of
  /\ \A e \in reported : IsPlaced(e)

\* A window that lies in the buffer is a part of the stream
LEMMA WindowIsCut ==
  ASSUME BufferInv, NEW w \in Workers, ~IndexPastBuffer(w),
         WindowInBuffer(w), read_infos[w].read > 0
  PROVE  Window(w) \in Seq(Int) /\ IsCutFromStream(Window(w), WindowId(w))
<1> DEFINE k == getIndexInLocalBufferforRead(w)
           r == read_infos[w].read
           q == data_queue
           pos == current_global_buffer_pos
           window == SubSeq(q, k + 1, k + r)
<1>1. /\ q \in Seq(Int) /\ pos \in Int /\ r \in Nat
      /\ \A i \in 1..Len(q) : q[i] = pos + i - 1
  BY DEF BufferInv, TypeOK, BufferIsStream, Infos
<1>2. k \in Nat
  BY DEF BufferInv, TypeOK, Infos, getIndexInLocalBufferforRead
<1>3. Len(q) - k >= r /\ r > 0 /\ Len(q) \in Nat
  BY <1>1 DEF WindowInBuffer
<1>4. Window(w) = window /\ WindowId(w) = pos + k
  BY DEF Window, WindowId
<1> HIDE DEF k, r, q, pos
<1>5. /\ window \in Seq(Int) /\ Len(window) = r
      /\ \A i \in 1..r : window[i] = q[k + i]
  BY <1>1, <1>2, <1>3
<1> HIDE DEF window
<1>6. \A i \in 1..r : k + i \in 1..Len(q)
  BY <1>1, <1>2, <1>3
<1>7. \A i \in 1..r : window[i] = pos + (k + i) - 1
  BY <1>1, <1>5, <1>6
<1>8. 1 \in 1..r /\ \A i \in 1..r - 1 : i \in 1..r /\ i + 1 \in 1..r
  BY <1>1, <1>3
<1>9. window[1] = pos + k
  BY <1>1, <1>2, <1>7, <1>8
<1>10. ASSUME NEW i \in 1..r - 1
       PROVE  window[i + 1] = window[i] + 1
  BY <1>1, <1>2, <1>7, <1>8
<1>11. window # <<>>
  BY <1>1, <1>3, <1>5
<1> QED
  BY <1>4, <1>5, <1>9, <1>10, <1>11 DEF IsCutFromStream

\* The two parts of the event are the window
LEMMA EventIsWindow ==
  ASSUME NEW window \in Seq(Int), Len(window) >= Before + Of
  PROVE  SubSeq(window, 1, Before)
           \o SubSeq(window, Before + 1, Len(window)) = window
<1> DEFINE n == Len(window)
           a == SubSeq(window, 1, Before)
           b == SubSeq(window, Before + 1, n)
<1>1. n \in Nat /\ Before \in Nat /\ Before <= n
  BY MetaIsMeta
<1>2. /\ a \in Seq(Int) /\ Len(a) = Before
      /\ \A i \in 1..Before : a[i] = window[i]
  BY <1>1
<1>3. /\ b \in Seq(Int) /\ Len(b) = n - Before
      /\ \A i \in 1..n - Before : b[i] = window[Before + i]
  BY <1>1
<1> HIDE DEF a, b
<1> DEFINE c == a \o b
<1>4. c \in Seq(Int) /\ Len(c) = n
  BY <1>1, <1>2, <1>3
<1>5. ASSUME NEW i \in 1..Len(a) + Len(b)
      PROVE  c[i] = IF i <= Len(a) THEN a[i] ELSE b[i - Len(a)]
  BY <1>2, <1>3, ConcatProperties, Zenon
<1> HIDE DEF c, n
<1>6. n = Len(window)
  BY DEF n
<1>7. ASSUME NEW i \in 1..n
      PROVE  c[i] = window[i]
  <2>1. c[i] = IF i <= Before THEN a[i] ELSE b[i - Before]
    <3>1. i \in 1..Len(a) + Len(b)
      BY <1>1, <1>2, <1>3
    <3> QED
      BY <1>2, <1>5, <3>1
  <2>2. CASE i <= Before
    <3>1. i \in 1..Before
      BY <1>1, <2>2
    <3> QED
      BY <1>2, <2>1, <2>2, <3>1
  <2>3. CASE ~(i <= Before)
    <3>1. i - Before \in 1..n - Before /\ Before + (i - Before) = i
      BY <1>1, <2>3
    <3>2. b[i - Before] = window[Before + (i - Before)]
      BY <1>3, <3>1
    <3> QED
      BY <2>1, <2>3, <3>1, <3>2
  <2> QED
    BY <2>2, <2>3
<1>8. c = window
  <2>1. DOMAIN c = 1..n /\ DOMAIN window = 1..n
    BY <1>4, <1>6
  <2>2. /\ c = [i \in DOMAIN c |-> c[i]]
        /\ window = [i \in DOMAIN window |-> window[i]]
    BY <1>4
  <2> QED
    BY <1>7, <2>1, <2>2
<1> QED
  BY <1>8 DEF c, a, b, n

\* Every step keeps what is known of the awaited event
LEMMA PlaceInvKept ==
  ASSUME EventsHaveData, BufferInv, PastIsShort => PastIsKept, PlaceInv,
         [Next]_vars
  PROVE  PlaceInv'
<1>1. ASSUME UNCHANGED <<read_infos, requested_data_point_id, detections,
                         reported>>,
             detected_an_event' => detected_an_event
      PROVE  PlaceInv'
  BY <1>1 DEF PlaceInv, IsPlaced
<1>2. CASE ReadBufferForNextRun \/ Halts \/ NextWorker
           \/ WorkerThrows \/ FreeUnusedBuffer \/ UNCHANGED vars
  BY <1>1, <1>2, HaltKeeps DEF ReadBufferForNextRun, NextWorker, WorkerThrows,
      ReportThrows, FreeUnusedBuffer, detectorVars, vars, fixedVars
<1>3. CASE ExecuteWorkerOnce(Metrics)
  <2>1. /\ UNCHANGED detectorVars
        /\ read_infos' = [read_infos EXCEPT ![Metrics] =
                            Answer(Metrics, Window(Metrics),
                                   WindowId(Metrics))]
    BY <1>3 DEF ExecuteWorkerOnce, Detector, Metrics
  <2>2. read_infos'[Detector] = read_infos[Detector]
    BY <2>1 DEF BufferInv, TypeOK, Workers, Detector, Metrics
  <2> QED
    BY <2>1, <2>2 DEF PlaceInv, IsPlaced, detectorVars
<1>4. CASE ExecuteWorkerOnce(Detector)
  <2> DEFINE window == Window(Detector)
             id == WindowId(Detector)
             a == DetectorAnswer(window, id)
             read == read_infos[Detector].read
  <2>1. /\ DetectorWorks(window, id) /\ ~IndexPastBuffer(Detector)
        /\ WindowInBuffer(Detector) /\ Detector \in Workers
        /\ read_infos' = [read_infos EXCEPT ![Detector] = a]
    BY <1>4 DEF ExecuteWorkerOnce, Answer, Workers
  <2>2. read_infos'[Detector] = a /\ requested_data_point_id' = a.next
    BY <2>1 DEF BufferInv, TypeOK, DetectorWorks
  <2>3. id \in Int /\ read \in Nat /\ Len(window) = read
    BY <2>1, WindowLength
    DEF BufferInv, TypeOK, Infos, WindowId, getIndexInLocalBufferforRead
  <2>4. read > 0 => window \in Seq(Int) /\ IsCutFromStream(window, id)
    BY <2>1, WindowIsCut
  <2>5. PastIsShort => id = read_infos[Detector].next
    BY <2>1, WindowIsRequested DEF RequestInv
  <2> HIDE DEF window, id, a, read
  <2>6. detected_an_event =>
          \/ /\ requested_data_point_id + Before - Period \in detections
             /\ read = Before + Of /\ read > 0
          \/ ~PastIsShort /\ read < Before + Of
    BY MetaIsMeta DEF PlaceInv, EventsHaveData, read
  <2>7. detected_an_event /\ PastIsShort => IsEventData(window, id)
    BY <2>4, <2>5, <2>6 DEF IsEventData, IsCutFromStream, PlaceInv
  <2>8. CASE ReportsEvent(window, id)
    <3> DEFINE e == [before_event |-> SubSeq(window, 1, Before),
                     event |-> SubSeq(window, Before + 1, Len(window))]
    <3>1. /\ detected_an_event /\ requested_data_point_id = id
          /\ Len(window) >= Before + Of
          /\ detected_an_event' = FALSE /\ detections' = detections
          /\ reported' = reported \union {e}
      BY <2>8 DEF ReportsEvent, IsEventData
    <3>2. requested_data_point_id + Before - Period \in detections /\ read > 0
      BY <2>3, <2>6, <3>1, MetaIsMeta
    <3>3. window \in Seq(Int) /\ IsCutFromStream(window, id)
      BY <2>4, <3>2
    <3>4. e.before_event \o e.event = window
      BY <3>1, <3>3, EventIsWindow
    <3> HIDE DEF e
    <3>5. IsPlaced(e)
      BY <3>1, <3>2, <3>3, <3>4 DEF IsPlaced, IsCutFromStream
    <3> QED
      BY <2>2, <3>1, <3>5 DEF PlaceInv, IsPlaced
  <2>9. CASE DetectsEvent(window, id)
    <3>1. /\ detections' = detections \union {id} /\ reported' = reported
          /\ a = getEventData(id)
      BY <2>9 DEF DetectsEvent, DetectorAnswer, a
    <3>2. a.next = id - Before + Period /\ a.read = Before + Of
      BY <3>1 DEF getEventData, NextReadInfos
    <3>3. a.next + Before - Period = id
      BY <2>3, <3>2, MetaIsMeta
    <3> QED
      BY <2>2, <3>1, <3>2, <3>3 DEF PlaceInv, IsPlaced
  <2>10. CASE NothingToDetect(window) \/ DetectsNothing(window, id)
    <3>1. UNCHANGED <<detected_an_event, detections, reported>>
      BY <2>10 DEF NothingToDetect, DetectsNothing
    <3>2. ~IsEventData(window, id)
      BY <2>10 DEF NothingToDetect, DetectsNothing, IsEventData
    <3>3. a.read = minDataPointsNeeded(Meta)
      BY <2>10, <3>2 DEF NothingToDetect, DetectsNothing, DetectorAnswer, a,
         getFirstDetectionPeriod, getNextDetectionPeriod, NextReadInfos
    <3>4. ~PastIsShort => a.read < Before + Of
      BY <3>3, MetaIsMeta DEF PastIsShort
    <3>5. detected_an_event => ~PastIsShort
      BY <2>7, <3>2
    <3> QED
      BY <2>2, <3>1, <3>4, <3>5 DEF PlaceInv, IsPlaced
  <2> QED
    BY <2>1, <2>8, <2>9, <2>10 DEF DetectorWorks
<1> QED
  BY <1>2, <1>3, <1>4 DEF Next, Loop, Halts, Workers

(***************************************************************************)
(* An event is made of the points around the window it was detected in, in *)
(* every configuration of which an event has data: although the detector   *)
(* knows the data of an event only by the id it has asked for, may get     *)
(* another window than it has asked for, and storing may throw.            *)
(***************************************************************************)
THEOREM EventsArePlaced ==
  ASSUME EventsHaveData
  PROVE  Spec => []EventsAreWhereDetected
<1>1. Init => BufferInv /\ RequestInv /\ PlaceInv
  <2> SUFFICES ASSUME Init
               PROVE  PlaceInv
    BY BufferInvInitially, RequestInvInitially
  <2>1. DefaultMeta.data_points_stored_before_event \in Nat
    BY DetectorAssumption, MetaType
  <2> QED
    BY <2>1 DEF Init, DetectorInit, getFirstDetectionPeriod, nextPeriod,
                NextReadInfos, Detector, PlaceInv
<1>2. PlaceInv => EventsAreWhereDetected
  BY DEF PlaceInv, IsPlaced, EventsAreWhereDetected
<1>3. BufferInv /\ [Next]_vars => BufferInv'
  BY BufferInvKept
<1>4. CASE PastIsShort
  <2>1. RequestInv /\ [Next]_vars => RequestInv'
    BY <1>4, RequestInvKept
  <2>2. RequestInv /\ PlaceInv /\ [Next]_vars => PlaceInv'
    BY PlaceInvKept DEF RequestInv
  <2> QED
    BY <1>1, <1>2, <2>1, <2>2, PTL DEF Spec
<1>5. CASE ~PastIsShort
  <2>1. BufferInv /\ PlaceInv /\ [Next]_vars => PlaceInv'
    BY <1>5, PlaceInvKept
  <2> QED
    BY <1>1, <1>2, <1>3, <2>1, PTL DEF Spec
<1> QED
  BY <1>4, <1>5
-----------------------------------------------------------------------------
(* What the detector searches.  It gets a window of the configuration, or  *)
(* the first one, or the data of an event: those it searches only if a     *)
(* slot has thrown or they were to begin before the stream, and then the   *)
(* past of an event is longer than a window.                               *)

AnswerableInv ==
  /\ BufferInv
  /\ IF PastIsShort THEN PastIsKept ELSE slots_throw \/ LongPastIsKept

\* Requests can be answered in the beginning
LEMMA AnswerableInitially == Init => AnswerableInv
BY RequestInvInitially, LongPastInitially DEF AnswerableInv, RequestInv, LongInv

\* ... and after every step
LEMMA AnswerableKept == AnswerableInv /\ [Next]_vars => AnswerableInv'
<1>1. CASE PastIsShort
  BY <1>1, RequestInvKept DEF AnswerableInv, RequestInv
<1>2. CASE ~PastIsShort
  BY <1>2, LongPastKept DEF AnswerableInv, LongInv
<1> QED
  BY <1>1, <1>2

\* The window a worker gets is the one it asked for
LEMMA AnsweredWindow ==
  ASSUME AnswerableInv, NEW w \in Workers
  PROVE  /\ ~slots_throw \/ PastIsShort =>
              /\ WindowId(w) = Greater(read_infos[w].next, 0)
              /\ current_global_buffer_pos <= Greater(read_infos[w].next, 0)
         /\ PastIsShort => read_infos[w].next >= 0
         /\ WindowId(w) \in Int /\ read_infos[w].next \in Int
<1>1. BufferInv /\ WindowId(w) \in Int /\ read_infos[w].next \in Int
      /\ current_global_buffer_pos \in Nat
  BY DEF AnswerableInv, BufferInv, TypeOK, Infos, WindowId,
         getIndexInLocalBufferforRead
<1>2. CASE PastIsShort
  <2>1. WindowId(w) = read_infos[w].next /\ read_infos[w].next >= 0
    BY <1>2, WindowIsRequested DEF AnswerableInv, RequestInv
  <2>2. current_global_buffer_pos <= read_infos[w].next
    BY <1>2 DEF AnswerableInv, PastIsKept
  <2> QED
    BY <1>1, <2>1, <2>2 DEF Greater
<1>3. CASE ~PastIsShort
  BY <1>1, <1>3, WindowIdOfLongPast DEF AnswerableInv, LongPastIsKept
<1> QED
  BY <1>2, <1>3

\* A detection window has a period at least
LEMMA WindowsAreLong ==
  ASSUME NEW meta \in PowerMetaData
  PROVE  /\ minDataPointsNeeded(meta) >= meta.dataPointsPerPeriod
         /\ meta.dataPointsPerPeriod > 0
<1>1. meta.dataPointsPerPeriod \in Nat \ {0}
  BY DEF PowerMetaData
<1>2. NumberOfRms * meta.dataPointsPerPeriod \in Nat /\ CompareAfter \in Nat
  BY <1>1, DetectorAssumption
<1> QED
  BY <1>1, <1>2 DEF minDataPointsNeeded, Greater

\* The detector has not been called since it was added
AtStart ==
  /\ read_infos[Detector] = FirstRequest /\ ~detected_an_event
  /\ previous_rms = <<>> /\ current_global_buffer_pos = 0

SearchInv ==
  /\ requested_data_point_id = read_infos[Detector].next
  /\ \/ AtStart
     \/ read_infos[Detector].read = minDataPointsNeeded(Meta)
     \/ /\ read_infos[Detector].read = Before + Of
        /\ slots_throw \/ detected_an_event

\* The detector's first request is the beginning of the stream
LEMMA FirstRequestIs ==
  /\ FirstRequest.keep = 0 /\ FirstRequest.next = 0
  /\ FirstRequest.read = minDataPointsNeeded(DefaultMeta)
BY DistributorAssumption
DEF FirstRequest, getFirstDetectionPeriod, NextReadInfos

\* The detector searches from the start
LEMMA SearchInvInitially == Init => SearchInv
BY FirstRequestIs DEF Init, DetectorInit, SearchInv, FirstRequest,
   getFirstDetectionPeriod, NextReadInfos, Detector, AtStart

\* What the detector searches is at least a window long
LEMMA SearchedIsLong ==
  ASSUME AnswerableInv, SearchInv, EventIsSearchable,
         ~IndexPastBuffer(Detector), WindowInBuffer(Detector),
         Window(Detector) # <<>>,
         ~IsEventData(Window(Detector), WindowId(Detector)), ~AtStart
  PROVE  minDataPointsNeeded(Meta) <= Len(Window(Detector))
<1> DEFINE read == read_infos[Detector].read
<1>1. Len(Window(Detector)) = read /\ read \in Nat
  BY WindowLength DEF AnswerableInv, BufferInv, TypeOK, Infos, Workers
<1>2. CASE slots_throw /\ read = Before + Of
  BY <1>1, <1>2 DEF EventIsSearchable
<1>3. CASE ~slots_throw /\ detected_an_event /\ read = Before + Of
  <2>1. WindowId(Detector) # read_infos[Detector].next
    BY <1>3 DEF IsEventData, SearchInv
  <2>2. ~PastIsShort
    BY <1>3, <2>1, AnsweredWindow DEF Greater, Workers
  <2> QED
    BY <1>1, <1>3, <2>2, MetaIsMeta DEF PastIsShort
<1> QED
  BY <1>1, <1>2, <1>3, MetaIsMeta DEF SearchInv

\* The answer to a window and the request after it
LEMMA DetectorAnswerIs ==
  ASSUME BufferInv, ExecuteWorkerOnce(Detector)
  PROVE  LET a == DetectorAnswer(Window(Detector), WindowId(Detector))
         IN  /\ DetectorWorks(Window(Detector), WindowId(Detector))
             /\ read_infos'[Detector] = a
             /\ read_infos'[Metrics] = read_infos[Metrics]
             /\ requested_data_point_id' = a.next
             /\ ~IndexPastBuffer(Detector) /\ WindowInBuffer(Detector)
             /\ UNCHANGED <<bufferVars, slots_throw, power, pc, worker_index>>
<1>1. /\ DetectorWorks(Window(Detector), WindowId(Detector))
      /\ read_infos' = [read_infos EXCEPT ![Detector] =
                          DetectorAnswer(Window(Detector), WindowId(Detector))]
      /\ ~IndexPastBuffer(Detector) /\ WindowInBuffer(Detector)
      /\ UNCHANGED <<bufferVars, slots_throw, power, pc, worker_index>>
  BY DEF ExecuteWorkerOnce, Answer, fixedVars
<1> QED
  BY <1>1 DEF BufferInv, TypeOK, Workers, Detector, Metrics, DetectorWorks

\* No answer asks for a window behind what was searched
LEMMA DetectorStep ==
  ASSUME AnswerableInv, SearchInv, ExecuteWorkerOnce(Detector)
  PROVE  /\ SearchInv'
         /\ read_infos'[Detector].read = minDataPointsNeeded(Meta)
              \/ read_infos'[Detector].read = Before + Of
         /\ /\ EventIsSearchable
            /\ AtStart =>
                 minDataPointsNeeded(Meta) <= minDataPointsNeeded(DefaultMeta)
            => read_infos'[Detector].next
                 <= WindowId(Detector) + Len(Window(Detector))
<1> DEFINE window == Window(Detector)
           id == WindowId(Detector)
           a == DetectorAnswer(window, id)
           read == read_infos[Detector].read
<1>1. /\ DetectorWorks(window, id) /\ read_infos'[Detector] = a
      /\ requested_data_point_id' = a.next
      /\ ~IndexPastBuffer(Detector) /\ WindowInBuffer(Detector)
      /\ slots_throw' = slots_throw
  BY DetectorAnswerIs DEF AnswerableInv
<1>2. /\ id \in Int /\ Len(window) = read /\ read \in Nat
  BY <1>1, AnsweredWindow, WindowLength
  DEF AnswerableInv, BufferInv, TypeOK, Infos, Workers
<1>3. /\ minDataPointsNeeded(Meta) >= Period /\ Period > 0
      /\ minDataPointsNeeded(DefaultMeta) > 0
      /\ minDataPointsNeeded(DefaultMeta) \in Nat
  <2>1. \A meta \in {Meta, DefaultMeta} :
          /\ meta.dataPointsPerPeriod \in Nat
          /\ minDataPointsNeeded(meta) \in Nat
          /\ minDataPointsNeeded(meta) >= meta.dataPointsPerPeriod
          /\ meta.dataPointsPerPeriod > 0
    BY DetectorAssumption, WindowsAreLong, MetaType
  <2> QED
    BY <2>1 DEF Period
<1>4. SUFFICES
        /\ \/ a.read = minDataPointsNeeded(Meta)
           \/ a.read = Before + Of /\ detected_an_event'
        /\ /\ EventIsSearchable
           /\ AtStart =>
                minDataPointsNeeded(Meta) <= minDataPointsNeeded(DefaultMeta)
           => a.next <= id + read
  BY <1>1, <1>2 DEF SearchInv
<1>5. CASE NothingToDetect(window)
  <2>1. window = <<>> /\ a = getFirstDetectionPeriod(Meta, id)
    BY <1>5 DEF NothingToDetect, DetectorAnswer, IsEventData
  <2>2. a.read = minDataPointsNeeded(Meta) /\ a.next = id + Before
    BY <2>1 DEF getFirstDetectionPeriod, NextReadInfos, Before
  <2>3. read = 0
    BY <1>2, <2>1
  <2>4. Before = 0
    BY <1>3, <2>3, FirstRequestIs, MetaIsMeta DEF SearchInv, AtStart
  <2> QED
    BY <1>2, <2>2, <2>3, <2>4
<1>6. CASE ReportsEvent(window, id)
  <2>1. a = getDataAfterEvent(id) /\ Before + Of <= read
    BY <1>2, <1>6 DEF ReportsEvent, IsEventData, DetectorAnswer
  <2>2. a.read = minDataPointsNeeded(Meta) /\ a.next = id + Before + Of
    BY <2>1 DEF getDataAfterEvent, NextReadInfos
  <2> QED
    BY <1>2, <2>1, <2>2, MetaIsMeta
<1>7. CASE DetectsEvent(window, id)
  <2>1. a = getEventData(id) /\ detected_an_event' /\ previous_rms # <<>>
    <3>1. Len(previous_rms) + 1 >= NumberOfRms
      BY <1>7 DEF DetectsEvent, detectEvent
    <3>2. previous_rms # <<>>
      BY <3>1, DetectorAssumption
    <3> QED
      BY <1>7, <3>2 DEF DetectsEvent, DetectorAnswer
  <2>2. a.read = Before + Of /\ a.next = id - Before + Period
    BY <2>1 DEF getEventData, NextReadInfos
  <2>3. EventIsSearchable => minDataPointsNeeded(Meta) <= read
    BY <1>1, <1>2, <1>7, <2>1, SearchedIsLong DEF DetectsEvent, AtStart
  <2> QED
    BY <1>2, <1>3, <2>1, <2>2, <2>3, MetaIsMeta
<1>8. CASE DetectsNothing(window, id)
  <2>1. a = getNextDetectionPeriod(id)
    BY <1>8 DEF DetectsNothing, DetectorAnswer
  <2>2. a.read = minDataPointsNeeded(Meta)
        /\ a.next = id + minDataPointsNeeded(Meta)
    BY <2>1 DEF getNextDetectionPeriod, NextReadInfos
  <2>3. EventIsSearchable /\ ~AtStart
          => minDataPointsNeeded(Meta) <= read
    BY <1>1, <1>2, <1>8, SearchedIsLong DEF DetectsNothing
  <2> QED
    BY <1>2, <1>3, <2>2, <2>3, FirstRequestIs, MetaIsMeta DEF AtStart
<1> QED
  BY <1>1, <1>5, <1>6, <1>7, <1>8 DEF DetectorWorks

\* Every step leaves it searching or waiting for an event
LEMMA SearchInvKept ==
  ASSUME AnswerableInv, SearchInv, [Next]_vars
  PROVE  SearchInv'
<1>1. CASE ExecuteWorkerOnce(Detector)
  BY <1>1, DetectorStep
<1>2. CASE ExecuteWorkerOnce(Metrics)
  <2>1. /\ UNCHANGED <<detectorVars, bufferVars, slots_throw>>
        /\ read_infos' = [read_infos EXCEPT ![Metrics] =
                            Answer(Metrics, Window(Metrics),
                                   WindowId(Metrics))]
    BY <1>2 DEF ExecuteWorkerOnce, Detector, Metrics, fixedVars
  <2>2. read_infos'[Detector] = read_infos[Detector]
    BY <2>1 DEF AnswerableInv, BufferInv, TypeOK, Workers, Detector, Metrics
  <2> QED
    BY <2>1, <2>2 DEF SearchInv, AtStart, detectorVars, bufferVars
<1>3. CASE ReadBufferForNextRun \/ Halts \/ NextWorker
           \/ UNCHANGED vars
  BY <1>3, HaltKeeps DEF ReadBufferForNextRun, NextWorker, vars, detectorVars,
      bufferVars, SearchInv, AtStart, fixedVars
<1>4. CASE WorkerThrows
  <2>1. /\ UNCHANGED <<read_infos, requested_data_point_id, previous_rms,
                       current_global_buffer_pos, slots_throw>>
        /\ ~IndexPastBuffer(Detector) /\ WindowInBuffer(Detector)
        /\ Len(Window(Detector)) < Before + Of \/ slots_throw
        /\ detected_an_event' = FALSE
    BY <1>4 DEF WorkerThrows, ReportThrows, bufferVars, fixedVars
  <2>2. ~slots_throw => read_infos[Detector].read # Before + Of
    BY <2>1, WindowLength, MetaIsMeta DEF AnswerableInv, Workers
  <2> QED
    BY <2>1, <2>2 DEF SearchInv, AtStart
<1>5. CASE FreeUnusedBuffer
  <2>1. UNCHANGED <<read_infos, detectorVars, slots_throw>>
    BY <1>5 DEF FreeUnusedBuffer, fixedVars
  <2>2. read_infos[Detector] = FirstRequest => earliest_pos_needed <= 0
    BY FirstRequestIs, EarliestIsWanted
    DEF AnswerableInv, BufferInv, TypeOK, Workers
  <2>3. read_infos[Detector] = FirstRequest /\ current_global_buffer_pos = 0
          => current_global_buffer_pos' = 0
    BY <1>5, <2>2 DEF FreeUnusedBuffer
  <2> QED
    BY <2>1, <2>3 DEF SearchInv, AtStart, detectorVars
<1> QED
  BY <1>1, <1>2, <1>3, <1>4, <1>5 DEF Next, Loop, Halts, Workers

\* So it is at all times
LEMMA SearchInvHolds == Spec => [](AnswerableInv /\ SearchInv)
<1>1. Init => AnswerableInv /\ SearchInv
  BY AnswerableInitially, SearchInvInitially
<1>2. AnswerableInv /\ SearchInv /\ [Next]_vars => (AnswerableInv /\ SearchInv)'
  BY AnswerableKept, SearchInvKept
<1> QED
  BY <1>1, <1>2, PTL DEF Spec

(***************************************************************************)
(* Detection leaves no gap, in every configuration: whatever the detector  *)
(* answers, its next window begins no later than the one it was called     *)
(* with ends, but for the first window if that is too short.               *)
(***************************************************************************)
THEOREM NothingIsSkipped == Spec => DetectorSkipsNothing
<1>1. ASSUME AnswerableInv, SearchInv, Next,
             read_infos'[Detector] # read_infos[Detector]
      PROVE  ExecuteWorkerOnce(Detector)
  <2>1. ~ExecuteWorkerOnce(Metrics)
    <3> SUFFICES ASSUME ExecuteWorkerOnce(Metrics)
                 PROVE  FALSE
      OBVIOUS
    <3>1. \E a : read_infos' = [read_infos EXCEPT ![Metrics] = a]
      BY DEF ExecuteWorkerOnce
    <3> QED
      BY <1>1, <3>1
      DEF AnswerableInv, BufferInv, TypeOK, Workers, Detector, Metrics
  <2> QED
    BY <1>1, <2>1, HaltKeeps DEF Next, Loop, Workers, ReadBufferForNextRun,
        WorkerThrows, Halts, NextWorker, FreeUnusedBuffer, fixedVars
<1>2. AnswerableInv /\ SearchInv /\ [Next]_vars =>
        [/\ read_infos'[Detector] # read_infos[Detector]
         /\ EventIsSearchable
         /\ read_infos[Detector] = FirstRequest =>
              minDataPointsNeeded(Meta) <= minDataPointsNeeded(DefaultMeta)
         => read_infos'[Detector].next
              <= WindowId(Detector) + Len(Window(Detector))]_vars
  BY <1>1, DetectorStep DEF AtStart
<1> QED
  BY <1>2, SearchInvHolds, PTL DEF Spec, DetectorSkipsNothing
-----------------------------------------------------------------------------
(* Requests do not begin past what has been popped, once the first read    *)
(* has brought a second of the defaults.                                   *)

NothingRead ==
  /\ pc \in {"reading", "asleep"} /\ popped = 0
  /\ read_infos[Detector] = FirstRequest
  /\ read_infos[Metrics].next = DefaultMeta.sample_rate

StayInv ==
  /\ power \in PowerCurves
  /\ pc # "undefined"
  /\ read_infos[Metrics].read \in {Meta.sample_rate, DefaultMeta.sample_rate}
  /\ \/ NothingRead
     \/ /\ popped >= DefaultMeta.sample_rate
        /\ \A w \in Workers : read_infos[w].next <= popped

StayConditions == LongEnough /\ FitsDefaults /\ EventIsSearchable

\* The answer of the metric provider
LEMMA MetricsStep ==
  ASSUME BufferInv, ExecuteWorkerOnce(Metrics)
  PROVE  /\ read_infos'[Metrics] = nextPeriod(Meta, WindowId(Metrics))
         /\ read_infos'[Detector] = read_infos[Detector]
         /\ ~IndexPastBuffer(Metrics) /\ WindowInBuffer(Metrics)
         /\ pc = "working" /\ worker_index = Metrics
         /\ UNCHANGED <<detectorVars, bufferVars, slots_throw, power, pc,
                        worker_index>>
<1>1. /\ read_infos' = [read_infos EXCEPT ![Metrics] =
                          nextPeriod(Meta, WindowId(Metrics))]
      /\ ~IndexPastBuffer(Metrics) /\ WindowInBuffer(Metrics)
      /\ pc = "working" /\ worker_index = Metrics
      /\ UNCHANGED <<detectorVars, bufferVars, slots_throw, power, pc,
                     worker_index>>
  BY DEF ExecuteWorkerOnce, Answer, Detector, Metrics, fixedVars
<1> QED
  BY <1>1 DEF BufferInv, TypeOK, Workers, Detector, Metrics

\* A window that is in the buffer ends with what has been popped, or before
LEMMA WindowEnds ==
  ASSUME BufferInv, NEW w \in Workers, ~IndexPastBuffer(w), WindowInBuffer(w)
  PROVE  /\ WindowId(w) \in Nat /\ read_infos[w].read \in Nat
         /\ WindowId(w) + read_infos[w].read <= popped
         /\ WindowId(w) >= current_global_buffer_pos
         /\ WindowId(w) >= read_infos[w].next
         /\ Len(Window(w)) = read_infos[w].read
BY WindowLength
DEF BufferInv, TypeOK, BufferIsStream, Infos, WindowInBuffer, WindowId,
    getIndexInLocalBufferforRead

\* What readBufferForNextRun asks the queue for
LEMMA NeededIs ==
  ASSUME BufferInv
  PROVE  /\ dataPointsNeededForNextRun \in Int
         /\ \A w \in Workers :
              read_infos[w].next + read_infos[w].read
                <= popped + dataPointsNeededForNextRun
         /\ \E w \in Workers :
              read_infos[w].next + read_infos[w].read
                = popped + dataPointsNeededForNextRun
<1> DEFINE wanted(w) == read_infos[w].next + read_infos[w].read
           S == {wanted(w) : w \in Workers}
<1>1. \A w \in Workers : wanted(w) \in Int
  BY DEF BufferInv, TypeOK, Infos
<1>2. S = {wanted(1), wanted(2)}
  BY DEF Workers, Detector, Metrics
<1>3. wanted(1) \in Int /\ wanted(2) \in Int
  BY <1>1 DEF Workers, Detector, Metrics
<1>4. \E x \in S : \A y \in S : x >= y
  <2> HIDE DEF wanted, S
  <2> QED
    BY <1>2, <1>3
<1>5. Max(S) \in S /\ \A y \in S : Max(S) >= y
  <2> HIDE DEF S
  <2> QED
    BY <1>4 DEF Max
<1>6. /\ Len(data_queue) \in Int /\ current_global_buffer_pos \in Int
      /\ popped = current_global_buffer_pos + Len(data_queue)
  BY DEF BufferInv, TypeOK, BufferIsStream
<1>7. dataPointsNeededForNextRun
        = Max(S) - Len(data_queue) - current_global_buffer_pos
  BY DEF dataPointsNeededForNextRun
<1>8. PICK v \in Workers : Max(S) = wanted(v)
  BY <1>5
<1>9. \A w \in Workers : wanted(w) <= Max(S)
  BY <1>1, <1>5, <1>8
<1> HIDE DEF S, wanted
<1>10. Max(S) \in Int
  BY <1>1, <1>8
<1>11. Max(S) = popped + dataPointsNeededForNextRun
       /\ dataPointsNeededForNextRun \in Int
  BY <1>6, <1>7, <1>10
<1> QED
  BY <1>8, <1>9, <1>11 DEF wanted

\* The first answer of the detector, when it has no root mean squares
LEMMA FirstAnswer ==
  ASSUME AnswerableInv, AtStart, ExecuteWorkerOnce(Detector)
  PROVE  read_infos'[Detector].next = minDataPointsNeeded(Meta)
<1> DEFINE window == Window(Detector)
           id == WindowId(Detector)
<1>1. read_infos'[Detector] = DetectorAnswer(window, id)
      /\ ~IndexPastBuffer(Detector) /\ WindowInBuffer(Detector)
  BY DetectorAnswerIs DEF AnswerableInv
<1>2. id = 0
  BY FirstRequestIs
  DEF AtStart, WindowId, getIndexInLocalBufferforRead
<1>3. window # <<>>
  <2>1. Len(window) = minDataPointsNeeded(DefaultMeta)
    BY <1>1, WindowLength, FirstRequestIs DEF AtStart, AnswerableInv, Workers
  <2>2. minDataPointsNeeded(DefaultMeta) > 0
    BY DetectorAssumption, WindowsAreLong, MetaType
  <2> QED
    BY <2>1, <2>2
<1>4. ~IsEventData(window, id) /\ ~detectEvent(window)
  <2>1. Len(previous_rms) = 0
    BY DEF AtStart
  <2> QED
    BY <2>1, DetectorAssumption DEF IsEventData, detectEvent, AtStart
<1>5. DetectorAnswer(window, id) = getNextDetectionPeriod(id)
  BY <1>3, <1>4 DEF DetectorAnswer
<1> QED
  BY <1>1, <1>2, <1>5, MetaIsMeta DEF getNextDetectionPeriod, NextReadInfos

\* No index is past the buffer in the beginning
LEMMA StayInitially == Init => StayInv
<1> SUFFICES ASSUME Init
             PROVE  StayInv
  OBVIOUS
<1>1. DefaultMeta.sample_rate \in Nat
  BY DetectorAssumption, MetaType
<1>2. /\ read_infos[Detector] = FirstRequest
      /\ read_infos[Metrics].next = DefaultMeta.sample_rate
      /\ read_infos[Metrics].read = DefaultMeta.sample_rate
  BY <1>1 DEF Init, FirstRequest, nextPeriod, NextReadInfos, Detector, Metrics
<1> QED
  BY <1>2 DEF Init, StayInv, NothingRead

\* Every step keeps the requests within what was popped
LEMMA StayKept ==
  ASSUME StayConditions, AnswerableInv, SearchInv, StayInv, [Next]_vars
  PROVE  StayInv'
<1>1. /\ BufferInv
      /\ DefaultMeta.sample_rate \in Nat /\ Meta.sample_rate \in Nat
      /\ Meta.sample_rate <= DefaultMeta.sample_rate
      /\ minDataPointsNeeded(Meta) <= DefaultMeta.sample_rate
      /\ popped \in Nat
      /\ \A w \in Workers : read_infos[w].next \in Int
                            /\ read_infos[w].read \in Nat
      /\ power' \in PowerCurves
  BY DetectorAssumption, MetaType, MetaIsMeta, HaltKeeps DEF AnswerableInv,
      BufferInv, TypeOK, Infos, StayConditions, FitsDefaults, StayInv, Next,
      Loop, ReadBufferForNextRun, ExecuteWorkerOnce, WorkerThrows, Halts,
      NextWorker, FreeUnusedBuffer, vars, fixedVars
<1>2. CASE ExecuteWorkerOnce(Detector)
  <2>1. /\ read_infos'[Metrics] = read_infos[Metrics]
        /\ ~IndexPastBuffer(Detector) /\ WindowInBuffer(Detector)
        /\ UNCHANGED <<popped, pc>> /\ pc = "working"
    BY <1>1, <1>2, DetectorAnswerIs DEF bufferVars, ExecuteWorkerOnce
  <2>2. /\ WindowId(Detector) + Len(Window(Detector)) <= popped
        /\ WindowId(Detector) \in Nat /\ Len(Window(Detector)) \in Nat
    BY <1>1, <2>1, WindowEnds DEF Workers
  <2>3. read_infos'[Detector].next <= popped
    <3>1. CASE AtStart => minDataPointsNeeded(Meta)
                            <= minDataPointsNeeded(DefaultMeta)
      <4>1. /\ read_infos'[Detector].next
                 <= WindowId(Detector) + Len(Window(Detector))
            /\ read_infos'[Detector].next \in Int
        BY <1>2, <3>1, DetectorStep, BufferInvKept DEF StayConditions,
            AnswerableInv, Next, Loop, Halts, Workers, BufferInv, TypeOK, Infos
      <4> QED
        BY <1>1, <2>2, <4>1
    <3>2. CASE AtStart
      <4>1. read_infos'[Detector].next = minDataPointsNeeded(Meta)
        BY <1>1, <1>2, <3>2, FirstAnswer
      <4>2. popped >= DefaultMeta.sample_rate
        BY <1>1, <2>1 DEF StayInv, NothingRead
      <4> QED
        BY <1>1, <4>1, <4>2, MetaIsMeta
    <3> QED
      BY <3>1, <3>2
  <2>4. popped >= DefaultMeta.sample_rate
        /\ read_infos[Metrics].next <= popped
    BY <2>1 DEF StayInv, NothingRead, Workers
  <2> QED
    BY <1>1, <2>1, <2>3, <2>4 DEF StayInv, Workers
<1>3. CASE ExecuteWorkerOnce(Metrics)
  <2>1. /\ read_infos'[Metrics] = nextPeriod(Meta, WindowId(Metrics))
        /\ read_infos'[Detector] = read_infos[Detector]
        /\ ~IndexPastBuffer(Metrics) /\ WindowInBuffer(Metrics)
        /\ pc = "working" /\ UNCHANGED <<popped, pc>>
    BY <1>1, <1>3, MetricsStep DEF bufferVars
  <2>2. /\ read_infos'[Metrics].read = Meta.sample_rate
        /\ read_infos'[Metrics].next = WindowId(Metrics) + Meta.sample_rate
    BY <2>1 DEF nextPeriod, NextReadInfos
  <2>3. /\ WindowId(Metrics) + read_infos[Metrics].read <= popped
        /\ WindowId(Metrics) \in Nat
    BY <1>1, <2>1, WindowEnds DEF Workers
  <2>4. Meta.sample_rate <= read_infos[Metrics].read
    BY <1>1 DEF StayInv
  <2>5. popped >= DefaultMeta.sample_rate
        /\ read_infos[Detector].next <= popped
    BY <2>1 DEF StayInv, NothingRead, Workers
  <2>6. read_infos'[Metrics].next <= popped
    BY <1>1, <2>2, <2>3, <2>4 DEF Workers
  <2> QED
    BY <1>1, <2>1, <2>2, <2>5, <2>6 DEF StayInv, Workers
<1>4. CASE ReadBufferForNextRun
  <2>1. PICK got \in 0..dataPointsNeededForNextRun :
          Pops(dataPointsNeededForNextRun, got) /\ popped' = popped + got
    BY <1>4 DEF ReadBufferForNextRun
  <2>2. pc' = "working" /\ UNCHANGED read_infos
    BY <1>4 DEF ReadBufferForNextRun
  <2>3. popped' >= popped /\ popped' \in Nat /\ got \in Nat
    BY <1>1, <2>1
  <2>4. CASE NothingRead
    <3>1. dataPointsNeededForNextRun >= DefaultMeta.sample_rate
          /\ dataPointsNeededForNextRun \in Int
      BY <1>1, <2>4, NeededIs DEF NothingRead, Workers
    <3>2. got = dataPointsNeededForNextRun
            \/ StreamLength - popped - got <= QueueCapacity
      BY <2>1 DEF Pops
    <3>3. StreamLength \in Int
      BY DistributorAssumption, FS_CardinalityType DEF StayInv, StreamLength
    <3>4. popped' >= DefaultMeta.sample_rate
      BY <1>1, <2>1, <2>3, <2>4, <3>1, <3>2, <3>3, DistributorAssumption
      DEF StayConditions, LongEnough, NothingRead
    <3>5. \A w \in Workers : read_infos[w].next <= popped'
      BY <1>1, <2>3, <2>4, <3>4, FirstRequestIs DEF NothingRead, Workers
    <3> QED
      BY <1>1, <2>2, <3>4, <3>5 DEF StayInv
  <2>5. CASE popped >= DefaultMeta.sample_rate
             /\ \A w \in Workers : read_infos[w].next <= popped
    BY <1>1, <2>2, <2>3, <2>5 DEF StayInv
  <2> QED
    BY <2>4, <2>5 DEF StayInv
<1>5. CASE Halts
  <2>1. ASSUME worker_index \in Workers, pc = "working",
               IndexPastBuffer(worker_index)
        PROVE  FALSE
    <3>1. read_infos[worker_index].next > popped
      BY <1>1, <2>1 DEF IndexPastBuffer, getIndexInLocalBufferforRead,
         BufferInv, TypeOK, BufferIsStream
    <3> QED
      BY <1>1, <2>1, <3>1 DEF StayInv, NothingRead
  <2>2. UNCHANGED <<power, read_infos, popped>> /\ pc' # "undefined"
    BY <1>5, <2>1, HaltKeeps DEF fixedVars
  <2>3. NothingRead => NothingRead'
    BY <1>5, <2>2, HaltKeeps DEF NothingRead
  <2> QED
    BY <1>1, <2>2, <2>3 DEF StayInv
<1>6. CASE NextWorker \/ FreeUnusedBuffer \/ WorkerThrows
  <2>1. /\ UNCHANGED <<read_infos, popped>> /\ pc = "working"
        /\ pc' # "undefined"
    BY <1>6 DEF NextWorker, FreeUnusedBuffer, WorkerThrows, bufferVars
  <2> QED
    BY <1>1, <2>1 DEF StayInv, NothingRead
<1>7. CASE UNCHANGED vars
  BY <1>7 DEF vars, fixedVars, loopVars, bufferVars, StayInv, NothingRead
<1> QED
  BY <1>2, <1>3, <1>4, <1>5, <1>6, <1>7 DEF Next, Loop, Halts, Workers

(***************************************************************************)
(* The main loop never calls a worker with iterators past the end of its   *)
(* buffer, in every configuration that asks for no more than the defaults  *)
(* and whatever the stream, if it is longer than a second by what can be   *)
(* lost at its end, and also if slots throw.                               *)
(***************************************************************************)
THEOREM NothingIsUndefined == Spec => []WorkersStayInBuffer
<1> DEFINE Inv == StayConditions => StayInv
<1>1. Init => Inv
  BY StayInitially
<1>2. [Next]_vars => (StayConditions' => StayConditions)
  BY HaltKeeps DEF Next, Loop, ReadBufferForNextRun, ExecuteWorkerOnce,
      WorkerThrows, Halts, NextWorker, FreeUnusedBuffer, vars, StayConditions,
      LongEnough, StreamLength, EventIsSearchable, fixedVars
<1>3. AnswerableInv /\ SearchInv /\ Inv /\ [Next]_vars => Inv'
  BY <1>2, StayKept
<1>4. Inv => WorkersStayInBuffer
  BY DEF StayConditions, StayInv, WorkersStayInBuffer
<1> QED
  BY <1>1, <1>3, <1>4, SearchInvHolds, PTL DEF Spec
-----------------------------------------------------------------------------
(* The size of the buffer.  When a worker's turn is over, its next window  *)
(* is not in the buffer.  Freeing leaves less than the worker that needs   *)
(* the oldest points asks for and keeps; what is read for the other one    *)
(* comes on top, until the buffer is freed again.                          *)

PassedInv ==
  LET Waits(w) == popped < Greater(read_infos[w].next,
                                   current_global_buffer_pos)
                             + read_infos[w].read
  IN  /\ pc = "working" =>
           \A w \in Workers : w < worker_index => Waits(w)
      /\ pc = "ended" => \A w \in Workers : Waits(w)

\* No worker was passed in the beginning
LEMMA PassedInitially == Init => PassedInv
BY DEF Init, PassedInv

\* A worker that was passed waits for more than there is
LEMMA PassedKept ==
  ASSUME BufferInv, PassedInv, [Next]_vars
  PROVE  PassedInv'
<1>1. /\ popped \in Nat /\ current_global_buffer_pos \in Nat
      /\ worker_index \in 1..3
      /\ \A w \in Workers : read_infos[w].next \in Int
                            /\ read_infos[w].read \in Nat
      /\ current_global_buffer_pos + Len(data_queue) = popped
      /\ data_queue \in Seq(Int)
  BY DEF BufferInv, TypeOK, BufferIsStream, Infos
<1>2. CASE ReadBufferForNextRun
  BY <1>2 DEF ReadBufferForNextRun, PassedInv, Workers, Detector, Metrics
<1>3. CASE WorkerThrows \/ Halts
  BY <1>3, HaltKeeps DEF WorkerThrows, PassedInv, fixedVars
<1>4. CASE ExecuteWorkerOnce(Detector)
  <2>1. /\ pc' = "working" /\ worker_index' = Detector
    BY <1>4 DEF ExecuteWorkerOnce
  <2> QED
    BY <2>1 DEF PassedInv, Workers, Detector, Metrics
<1>5. CASE ExecuteWorkerOnce(Metrics)
  <2>1. /\ pc' = "working" /\ pc = "working"
        /\ worker_index = Metrics /\ worker_index' = Metrics
        /\ UNCHANGED <<popped, current_global_buffer_pos>>
        /\ read_infos'[Detector] = read_infos[Detector]
    BY <1>5, MetricsStep DEF bufferVars
  <2> QED
    BY <2>1 DEF PassedInv, Workers, Detector, Metrics
<1>6. CASE NextWorker
  <2>1. /\ worker_index \in Workers /\ ~IndexPastBuffer(worker_index)
        /\ ~WindowInBuffer(worker_index)
        /\ worker_index' = worker_index + 1 /\ pc = "working"
        /\ UNCHANGED <<popped, current_global_buffer_pos, read_infos, pc>>
    BY <1>6 DEF NextWorker, bufferVars
  <2>2. popped < Greater(read_infos[worker_index].next,
                         current_global_buffer_pos)
                   + read_infos[worker_index].read
    BY <1>1, <2>1 DEF WindowInBuffer, getIndexInLocalBufferforRead, Greater
  <2>3. \A w \in Workers : w < worker_index + 1 =>
          w < worker_index \/ w = worker_index
    BY <1>1 DEF Workers, Detector, Metrics
  <2> QED
    BY <2>1, <2>2, <2>3 DEF PassedInv
<1>7. CASE FreeUnusedBuffer
  <2>1. /\ pc = "working" /\ worker_index \notin Workers
        /\ pc' \in {"reading", "ended"} /\ UNCHANGED <<popped, read_infos>>
    BY <1>7 DEF FreeUnusedBuffer
  <2>2. /\ current_global_buffer_pos' \in Int
        /\ current_global_buffer_pos' >= current_global_buffer_pos
    BY <1>1, <1>7, EarliestIsWanted DEF FreeUnusedBuffer, BufferInv, TypeOK
  <2>3. \A w \in Workers : w < worker_index
    BY <1>1, <2>1 DEF Workers, Detector, Metrics
  <2>4. ASSUME NEW w \in Workers
        PROVE  popped < Greater(read_infos[w].next, current_global_buffer_pos')
                          + read_infos[w].read
    <3>1. popped < Greater(read_infos[w].next, current_global_buffer_pos)
                     + read_infos[w].read
      BY <2>1, <2>3 DEF PassedInv
    <3> QED
      BY <1>1, <2>2, <3>1 DEF Greater
  <2> QED
    BY <2>1, <2>4 DEF PassedInv
<1>8. CASE UNCHANGED vars
  BY <1>8 DEF vars, fixedVars, loopVars, bufferVars, PassedInv
<1> QED
  BY <1>2, <1>3, <1>4, <1>5, <1>6, <1>7, <1>8 DEF Next, Loop, Halts, Workers

\* The position freeUnusedBuffer keeps is what some worker needs
LEMMA EarliestIsNeeded ==
  ASSUME read_infos \in [Workers -> Infos]
  PROVE  \E w \in Workers :
           earliest_pos_needed = read_infos[w].next - read_infos[w].keep
<1> DEFINE wanted(w) == read_infos[w].next - read_infos[w].keep
           S == {wanted(w) : w \in Workers}
<1>1. S = {wanted(1), wanted(2)}
  BY DEF Workers, Detector, Metrics
<1>2. wanted(1) \in Int /\ wanted(2) \in Int
  BY DEF Workers, Detector, Metrics, Infos
<1>3. \E x \in S : \A y \in S : x <= y
  <2> HIDE DEF wanted, S
  <2> QED
    BY <1>1, <1>2
<1>4. earliest_pos_needed \in S
  BY <1>3 DEF earliest_pos_needed, Min
<1> QED
  BY <1>4

\* The greatest of five numbers is none less than any of them
LEMMA GreatestOfFive ==
  ASSUME NEW a \in Int, NEW b \in Int, NEW c \in Int, NEW d \in Int, NEW e \in Int
  PROVE  LET m == Max({a, b, c, d, e})
         IN  m \in Int /\ a <= m /\ b <= m /\ c <= m /\ d <= m /\ e <= m
<1> DEFINE S == {a, b, c, d, e}
<1>1. \E x \in S : \A y \in S : x >= y
  <2>1. PICK x \in {a, b} : x >= a /\ x >= b
    OBVIOUS
  <2>2. PICK y \in {x, c} : y >= x /\ y >= c
    OBVIOUS
  <2>3. PICK z \in {y, d} : z >= y /\ z >= d
    OBVIOUS
  <2>4. PICK u \in {z, e} : u >= z /\ u >= e
    OBVIOUS
  <2> QED
    BY <2>1, <2>2, <2>3, <2>4
<1>2. Max(S) \in S /\ \A y \in S : Max(S) >= y
  <2> HIDE DEF S
  <2> QED
    BY <1>1 DEF Max
<1> QED
  BY <1>2

FasterRate == Greater(Meta.sample_rate, DefaultMeta.sample_rate)

\* The largest request is none less than any request there is
LEMMA Largest ==
  /\ LargestRequest \in Int /\ FasterRate \in Nat
  /\ Before + minDataPointsNeeded(Meta) <= LargestRequest
  /\ Before + Of <= LargestRequest
  /\ Meta.sample_rate <= LargestRequest
  /\ minDataPointsNeeded(DefaultMeta) <= LargestRequest
  /\ DefaultMeta.sample_rate <= LargestRequest
  /\ Meta.sample_rate <= FasterRate /\ DefaultMeta.sample_rate <= FasterRate
  /\ LargestRequest > 0
<1>1. /\ minDataPointsNeeded(DefaultMeta) \in Nat
      /\ DefaultMeta.sample_rate \in Nat /\ Meta.sample_rate > 0
  BY DetectorAssumption, DistributorAssumption, MetaType
<1>2. /\ Before + minDataPointsNeeded(Meta) \in Int /\ Before + Of \in Int
      /\ Meta.sample_rate \in Int /\ DefaultMeta.sample_rate \in Int
      /\ minDataPointsNeeded(DefaultMeta) \in Int
  BY <1>1, MetaIsMeta
<1>3. /\ LargestRequest \in Int
      /\ Before + minDataPointsNeeded(Meta) <= LargestRequest
      /\ Before + Of <= LargestRequest
      /\ Meta.sample_rate <= LargestRequest
      /\ minDataPointsNeeded(DefaultMeta) <= LargestRequest
      /\ DefaultMeta.sample_rate <= LargestRequest
  BY <1>2, GreatestOfFive, Zenon DEF LargestRequest
<1> QED
  BY <1>1, <1>3, MetaIsMeta DEF FasterRate, Greater

BoundInv ==
  LET pos   == current_global_buffer_pos
      bound == pos + LargestRequest + FasterRate
  IN  /\ \A w \in Workers :
           read_infos[w].keep + read_infos[w].read <= LargestRequest
      /\ read_infos[Metrics].keep = 0
      /\ read_infos[Metrics].read <= FasterRate
      /\ popped <= bound
      /\ pc \in {"reading", "asleep"} =>
           \A w \in Workers : read_infos[w].next + read_infos[w].read <= bound
      /\ pc = "working" /\ worker_index = Detector =>
           read_infos[Metrics].next + read_infos[Metrics].read <= bound
      /\ pc \in {"reading", "asleep"} /\ worker_index \notin Workers =>
           popped < pos + LargestRequest

\* The bound of the buffer holds in the beginning
LEMMA BoundInitially == Init => BoundInv
<1> SUFFICES ASSUME Init
             PROVE  BoundInv
  OBVIOUS
<1>1. /\ read_infos[Detector] = FirstRequest /\ worker_index = Detector
      /\ read_infos[Metrics].keep = 0
      /\ read_infos[Metrics].read = DefaultMeta.sample_rate
      /\ read_infos[Metrics].next = 0 + DefaultMeta.sample_rate
      /\ popped = 0 /\ current_global_buffer_pos = 0 /\ pc = "reading"
  BY DEF Init, FirstRequest, nextPeriod, NextReadInfos, Detector, Metrics
<1>2. /\ DefaultMeta.sample_rate \in Nat
      /\ minDataPointsNeeded(DefaultMeta) \in Nat
  BY DetectorAssumption, MetaType
<1> QED
  BY <1>1, <1>2, FirstRequestIs, Largest DEF BoundInv, Workers

\* No answer of the detector is past the largest request
LEMMA AnswerIsSmall ==
  ASSUME NEW window, NEW id
  PROVE  LET a == DetectorAnswer(window, id)
         IN  a.keep + a.read <= LargestRequest
<1>1. /\ getFirstDetectionPeriod(Meta, id).keep = Before
      /\ getFirstDetectionPeriod(Meta, id).read = minDataPointsNeeded(Meta)
      /\ getNextDetectionPeriod(id).keep = Before
      /\ getNextDetectionPeriod(id).read = minDataPointsNeeded(Meta)
      /\ getDataAfterEvent(id).keep = Before
      /\ getDataAfterEvent(id).read = minDataPointsNeeded(Meta)
      /\ getEventData(id).keep = 0 /\ getEventData(id).read = Before + Of
  BY DEF getFirstDetectionPeriod, getNextDetectionPeriod, getDataAfterEvent,
         getEventData, NextReadInfos, Before
<1>2. \/ DetectorAnswer(window, id) = getFirstDetectionPeriod(Meta, id)
      \/ DetectorAnswer(window, id) = getNextDetectionPeriod(id)
      \/ DetectorAnswer(window, id) = getDataAfterEvent(id)
      \/ DetectorAnswer(window, id) = getEventData(id)
  BY DEF DetectorAnswer
<1> QED
  BY <1>1, <1>2, Largest, MetaIsMeta

\* Every step keeps the buffer within its bound
LEMMA BoundKept ==
  ASSUME BufferInv, PassedInv, BoundInv, [Next]_vars
  PROVE  BoundInv'
<1> DEFINE pos == current_global_buffer_pos
           bound == pos + LargestRequest + FasterRate
<1>1. /\ popped \in Nat /\ pos \in Nat /\ worker_index \in 1..3
      /\ \A w \in Workers : /\ read_infos[w].next \in Int
                            /\ read_infos[w].read \in Nat
                            /\ read_infos[w].keep \in Nat
      /\ bound \in Int
  BY Largest DEF BufferInv, TypeOK, Infos
<1>2. CASE ReadBufferForNextRun
  <2>1. PICK got \in 0..dataPointsNeededForNextRun : popped' = popped + got
    BY <1>2 DEF ReadBufferForNextRun
  <2>2. /\ pc = "reading" /\ pc' = "working" /\ worker_index' = Detector
        /\ UNCHANGED <<read_infos, current_global_buffer_pos>>
    BY <1>2 DEF ReadBufferForNextRun
  <2>3. popped + dataPointsNeededForNextRun <= bound
    BY <1>1, <2>2, NeededIs DEF BoundInv
  <2>4. popped' <= bound
    BY <1>1, <2>1, <2>3, NeededIs
  <2> QED
    BY <2>2, <2>4 DEF BoundInv, Workers
<1>3. CASE ExecuteWorkerOnce(Detector)
  <2>1. /\ read_infos'[Detector] =
             DetectorAnswer(Window(Detector), WindowId(Detector))
        /\ read_infos'[Metrics] = read_infos[Metrics]
        /\ UNCHANGED <<popped, current_global_buffer_pos, pc, worker_index>>
        /\ pc = "working"
    BY <1>3, DetectorAnswerIs DEF bufferVars, ExecuteWorkerOnce
  <2>2. read_infos'[Detector].keep + read_infos'[Detector].read
          <= LargestRequest
    BY <2>1, AnswerIsSmall
  <2> QED
    BY <2>1, <2>2 DEF BoundInv, Workers
<1>4. CASE ExecuteWorkerOnce(Metrics)
  <2>1. /\ read_infos'[Metrics] = nextPeriod(Meta, WindowId(Metrics))
        /\ read_infos'[Detector] = read_infos[Detector]
        /\ UNCHANGED <<popped, current_global_buffer_pos, pc, worker_index>>
        /\ pc = "working" /\ worker_index = Metrics
    BY <1>4, MetricsStep DEF bufferVars
  <2>2. /\ read_infos'[Metrics].keep = 0
        /\ read_infos'[Metrics].read = Meta.sample_rate
    BY <2>1 DEF nextPeriod, NextReadInfos
  <2> QED
    BY <2>1, <2>2, Largest, MetaIsMeta DEF BoundInv, Workers, Detector, Metrics
<1>5. CASE WorkerThrows
  <2>1. /\ pc = "working" /\ pc' = "reading" /\ worker_index = Detector
        /\ ~IndexPastBuffer(Detector) /\ WindowInBuffer(Detector)
        /\ UNCHANGED <<popped, current_global_buffer_pos, read_infos,
                       worker_index>>
    BY <1>5 DEF WorkerThrows, bufferVars
  <2>2. /\ WindowId(Detector) + read_infos[Detector].read <= popped
        /\ WindowId(Detector) >= read_infos[Detector].next
        /\ WindowId(Detector) \in Nat
    BY <2>1, WindowEnds DEF Workers
  <2>3. read_infos[Detector].next + read_infos[Detector].read <= bound
    BY <1>1, <2>2 DEF BoundInv, Workers
  <2> QED
    BY <2>1, <2>3 DEF BoundInv, Workers
<1>6. CASE Halts \/ NextWorker
  BY <1>6, HaltKeeps DEF NextWorker, bufferVars, BoundInv, Workers, Detector,
      Metrics, fixedVars
<1>7. CASE FreeUnusedBuffer
  <2> DEFINE next == current_global_buffer_pos'
  <2>1. /\ pc = "working" /\ worker_index \notin Workers
        /\ pc' \in {"reading", "ended"}
        /\ UNCHANGED <<popped, read_infos, worker_index>>
    BY <1>7 DEF FreeUnusedBuffer
  <2>2. /\ next \in Int /\ next >= pos /\ next >= earliest_pos_needed
        /\ earliest_pos_needed \in Int
    BY <1>1, <1>7, EarliestIsWanted DEF FreeUnusedBuffer, BufferInv, TypeOK
  <2>3. PICK m \in Workers :
          earliest_pos_needed = read_infos[m].next - read_infos[m].keep
    BY EarliestIsNeeded DEF BufferInv, TypeOK
  <2>4. \A w \in Workers :
          /\ read_infos[w].next <= popped
          /\ popped < Greater(read_infos[w].next, pos) + read_infos[w].read
    <3>1. \A w \in Workers : w < worker_index
      BY <1>1, <2>1 DEF Workers, Detector, Metrics
    <3> QED
      BY <2>1, <3>1 DEF PassedInv, PassedWorkersWait, BufferInv
  <2>5. \A w \in Workers :
          read_infos[w].keep + read_infos[w].read <= LargestRequest
    BY DEF BoundInv
  <2> HIDE DEF next
  <2>6. popped < next + read_infos[m].keep + read_infos[m].read
    BY <1>1, <2>2, <2>3, <2>4 DEF Greater
  <2>7. popped < next + LargestRequest
    BY <1>1, <2>2, <2>5, <2>6, Largest
  <2>8. /\ read_infos[Metrics].keep = 0
        /\ read_infos[Metrics].read <= FasterRate
    BY DEF BoundInv
  <2>9. read_infos[Metrics].next + read_infos[Metrics].read
          <= next + LargestRequest + FasterRate
    BY <1>1, <2>2, <2>4, <2>7, <2>8, Largest DEF Workers
  <2>10. read_infos[Detector].next + read_infos[Detector].read
           <= next + LargestRequest + FasterRate
    <3>1. CASE m = Detector
      BY <1>1, <2>2, <2>3, <2>5, <3>1, Largest DEF Workers
    <3>2. CASE m = Metrics
      <4>1. popped < next + FasterRate
        BY <1>1, <2>2, <2>6, <2>8, <3>2, Largest DEF Workers
      <4>2. /\ read_infos[Detector].next <= popped
            /\ read_infos[Detector].read <= LargestRequest
        BY <1>1, <2>4, <2>5, Largest DEF Workers
      <4> QED
        BY <1>1, <2>2, <4>1, <4>2, Largest DEF Workers
    <3> QED
      BY <3>1, <3>2 DEF Workers
  <2>11. popped <= next + LargestRequest + FasterRate
    BY <1>1, <2>2, <2>7, Largest
  <2> QED
    BY <2>1, <2>5, <2>7, <2>8, <2>9, <2>10, <2>11
    DEF BoundInv, Workers, next
<1>8. CASE UNCHANGED vars
  BY <1>8 DEF vars, fixedVars, loopVars, bufferVars, BoundInv
<1> QED
  BY <1>2, <1>3, <1>4, <1>5, <1>6, <1>7, <1>8 DEF Next, Loop, Halts, Workers

\* Passed workers wait at all times
LEMMA PassedInvHolds == Spec => [](BufferInv /\ PassedInv)
<1>1. Init => BufferInv /\ PassedInv
  BY BufferInvInitially, PassedInitially
<1>2. BufferInv /\ PassedInv /\ [Next]_vars => (BufferInv /\ PassedInv)'
  BY BufferInvKept, PassedKept
<1> QED
  BY <1>1, <1>2, PTL DEF Spec

(***************************************************************************)
(* The local buffer is bounded by what the workers ask for, whatever the   *)
(* stream, and also if every slot throws: in every configuration.          *)
(***************************************************************************)
THEOREM BufferIsBounded == Spec => []BufferStaysBounded
<1>1. BufferInv /\ PassedInv /\ BoundInv /\ [Next]_vars => BoundInv'
  BY BoundKept
<1>2. BufferInv /\ BoundInv => BufferStaysBounded
  <2> SUFFICES ASSUME BufferInv, BoundInv, pc = "reading"
               PROVE  BufferStaysBounded
    BY DEF BufferStaysBounded
  <2>1. /\ Len(data_queue) = popped - current_global_buffer_pos
        /\ popped \in Nat /\ current_global_buffer_pos \in Nat
    BY DEF BufferInv, TypeOK, BufferIsStream
  <2> QED
    BY <2>1, Largest DEF BoundInv, BufferStaysBounded, FasterRate
<1> QED
  BY <1>1, <1>2, PassedInvHolds, BoundInitially, PTL DEF Spec
-----------------------------------------------------------------------------
(* What has been detected is reported.  Until it is, the detector waits    *)
(* for the data of the event, and nothing else is in between: the window   *)
(* it is called with next is the one it recognises by its id.              *)

EventsAreRecorded == Of > 0

IsReported(id) ==
  \E e \in reported :
    /\ id + Period \in Range(e.event)
    /\ \A point \in id + Period - Before..id + Period + Of - 1 :
         point \in Range(e.before_event \o e.event)

IsAwaited(id) ==
  /\ detected_an_event
  /\ read_infos[Detector].next = id - Before + Period
  /\ read_infos[Detector].read = Before + Of

AwaitedInv ==
  ~slots_throw =>
    \A id \in detections :
      id \in Int /\ (id + Period < Before \/ IsReported(id) \/ IsAwaited(id))

\* The points of a window, by their positions in the stream
LEMMA WindowPoints ==
  ASSUME BufferInv, NEW w \in Workers, ~IndexPastBuffer(w), WindowInBuffer(w)
  PROVE  /\ Window(w) \in Seq(Int)
         /\ \A i \in 1..read_infos[w].read : Window(w)[i] = WindowId(w) + i - 1
<1> DEFINE k == getIndexInLocalBufferforRead(w)
           r == read_infos[w].read
           q == data_queue
           pos == current_global_buffer_pos
<1>1. /\ q \in Seq(Int) /\ pos \in Int /\ r \in Nat
      /\ \A i \in 1..Len(q) : q[i] = pos + i - 1
  BY DEF BufferInv, TypeOK, BufferIsStream, Infos
<1>2. k \in Nat
  BY DEF BufferInv, TypeOK, Infos, getIndexInLocalBufferforRead
<1>3. Len(q) - k >= r /\ Len(q) \in Nat
  BY <1>1 DEF WindowInBuffer
<1>4. Window(w) = SubSeq(q, k + 1, k + r) /\ WindowId(w) = pos + k
  BY DEF Window, WindowId
<1> HIDE DEF k, r, q, pos
<1>5. /\ Window(w) \in Seq(Int)
      /\ \A i \in 1..r : Window(w)[i] = q[k + i]
  BY <1>1, <1>2, <1>3, <1>4
<1>6. \A i \in 1..r : k + i \in 1..Len(q)
  BY <1>1, <1>2, <1>3
<1>7. \A i \in 1..r : Window(w)[i] = WindowId(w) + i - 1
  BY <1>1, <1>2, <1>4, <1>5, <1>6
<1> QED
  BY <1>5, <1>7 DEF r

\* The window that is awaited is reported when the detector is called
LEMMA AwaitedIsReported ==
  ASSUME EventsAreRecorded, AnswerableInv, SearchInv, ~slots_throw,
         ExecuteWorkerOnce(Detector),
         NEW id \in Int, IsAwaited(id), id + Period >= Before
  PROVE  IsReported(id)'
<1> DEFINE window == Window(Detector)
           e == [before_event |-> SubSeq(window, 1, Before),
                 event        |-> SubSeq(window, Before + 1, Len(window))]
<1>1. /\ DetectorWorks(window, WindowId(Detector))
      /\ ~IndexPastBuffer(Detector) /\ WindowInBuffer(Detector)
  BY DetectorAnswerIs DEF AnswerableInv
<1>2. /\ window \in Seq(Int) /\ Len(window) = Before + Of
      /\ \A i \in 1..Before + Of : window[i] = WindowId(Detector) + i - 1
  BY <1>1, WindowPoints, WindowLength DEF AnswerableInv, Workers, IsAwaited
<1>3. WindowId(Detector) = id - Before + Period
      /\ WindowId(Detector) = requested_data_point_id
  BY AnsweredWindow, MetaIsMeta
  DEF IsAwaited, SearchInv, Workers, Greater
<1>4. window # <<>>
  BY <1>2, MetaIsMeta DEF EventsAreRecorded
<1>5. ReportsEvent(window, WindowId(Detector))
  <2>1. IsEventData(window, WindowId(Detector))
    BY <1>3, <1>4 DEF IsEventData, IsAwaited
  <2> QED
    BY <1>1, <1>4, <2>1 DEF DetectorWorks, NothingToDetect, DetectsEvent,
       DetectsNothing
<1>6. e \in reported'
  BY <1>5 DEF ReportsEvent
<1>7. e.event = SubSeq(window, Before + 1, Before + Of)
  BY <1>2
<1> HIDE DEF window, e
<1>8. 1 \in DOMAIN e.event /\ e.event[1] = window[Before + 1]
  BY <1>2, <1>7, MetaIsMeta DEF EventsAreRecorded
<1>9. window[Before + 1] = id + Period
  BY <1>2, <1>3, MetaIsMeta DEF EventsAreRecorded
<1>10. e.before_event \o e.event = window
  <2>1. Len(window) >= Before + Of
    BY <1>2, MetaIsMeta
  <2>2. /\ e.before_event = SubSeq(window, 1, Before)
        /\ e.event = SubSeq(window, Before + 1, Len(window))
    BY DEF e
  <2> QED
    BY <1>2, <2>1, <2>2, EventIsWindow
<1>11. ASSUME NEW point \in id + Period - Before..id + Period + Of - 1
       PROVE  point \in Range(e.before_event \o e.event)
  <2>1. PICK i \in 1..Before + Of : point = id - Before + Period + i - 1
    <3>1. /\ point - (id - Before + Period) + 1 \in 1..Before + Of
          /\ point = id - Before + Period
                       + (point - (id - Before + Period) + 1) - 1
      BY MetaIsMeta
    <3> QED
      BY <3>1
  <2>2. window[i] = point /\ i \in DOMAIN window
    BY <1>2, <1>3, <2>1, MetaIsMeta
  <2> QED
    BY <1>10, <2>2 DEF Range
<1> QED
  BY <1>6, <1>8, <1>9, <1>11 DEF IsReported, Range

\* Nothing is detected in the beginning
LEMMA AwaitedInitially == Init => AwaitedInv
BY DEF Init, DetectorInit, AwaitedInv

\* A detected event stays awaited until it is reported
LEMMA AwaitedKept ==
  ASSUME EventsAreRecorded, AnswerableInv, SearchInv, AwaitedInv, [Next]_vars
  PROVE  AwaitedInv'
<1>1. slots_throw' = slots_throw
  BY HaltKeeps DEF Next, Loop, ReadBufferForNextRun, ExecuteWorkerOnce,
      WorkerThrows, Halts, NextWorker, FreeUnusedBuffer, vars, fixedVars
<1> SUFFICES ASSUME ~slots_throw, NEW id \in detections'
             PROVE  /\ id \in Int
                    /\ (id + Period < Before \/ IsReported(id)
                          \/ IsAwaited(id))'
  BY <1>1 DEF AwaitedInv
<1>2. ASSUME UNCHANGED <<detections, reported, detected_an_event>>,
             read_infos'[Detector] = read_infos[Detector]
      PROVE  /\ id \in Int
             /\ (id + Period < Before \/ IsReported(id) \/ IsAwaited(id))'
  BY <1>2 DEF AwaitedInv, IsReported, IsAwaited
<1>3. CASE ReadBufferForNextRun \/ Halts \/ NextWorker
           \/ FreeUnusedBuffer \/ UNCHANGED vars
  BY <1>2, <1>3, HaltKeeps DEF ReadBufferForNextRun, NextWorker,
      FreeUnusedBuffer, detectorVars, vars, fixedVars
<1>4. CASE ExecuteWorkerOnce(Metrics)
  BY <1>2, <1>4, MetricsStep DEF detectorVars, AnswerableInv
<1>5. CASE WorkerThrows
  <2>1. /\ Len(Window(Detector)) < Before + Of
        /\ ~IndexPastBuffer(Detector) /\ WindowInBuffer(Detector)
        /\ UNCHANGED <<read_infos, detections, reported>>
    BY <1>5 DEF WorkerThrows, ReportThrows
  <2>2. read_infos[Detector].read # Before + Of
    BY <2>1, WindowLength, MetaIsMeta DEF AnswerableInv, Workers
  <2> QED
    BY <2>1, <2>2 DEF AwaitedInv, IsReported, IsAwaited
<1>6. CASE ExecuteWorkerOnce(Detector)
  <2> DEFINE window == Window(Detector)
             at == WindowId(Detector)
  <2>1. /\ DetectorWorks(window, at)
        /\ read_infos'[Detector] = DetectorAnswer(window, at)
        /\ at \in Int
    BY <1>6, DetectorAnswerIs, AnsweredWindow DEF AnswerableInv, Workers
  <2>2. \/ UNCHANGED detections
        \/ detections' = detections \union {at} /\ DetectsEvent(window, at)
    BY <2>1 DEF DetectorWorks, NothingToDetect, ReportsEvent, DetectsEvent,
       DetectsNothing
  <2>3. reported \subseteq reported'
    BY <2>1 DEF DetectorWorks, NothingToDetect, ReportsEvent, DetectsEvent,
       DetectsNothing
  <2>4. CASE id \in detections
    <3>1. id \in Int /\ (id + Period < Before \/ IsReported(id) \/ IsAwaited(id))
      BY <2>4 DEF AwaitedInv
    <3>2. IsReported(id) => IsReported(id)'
      BY <2>3 DEF IsReported
    <3>3. IsAwaited(id) /\ ~(id + Period < Before) => IsReported(id)'
      BY <1>6, <3>1, MetaIsMeta, AwaitedIsReported
    <3> QED
      BY <3>1, <3>2, <3>3
  <2>5. CASE id = at /\ DetectsEvent(window, at)
    <3>1. DetectorAnswer(window, at) = getEventData(at) /\ detected_an_event'
      BY <2>5 DEF DetectsEvent, DetectorAnswer
    <3>2. IsAwaited(id)'
      BY <2>1, <2>5, <3>1 DEF IsAwaited, getEventData, NextReadInfos
    <3> QED
      BY <2>1, <2>5, <3>2
  <2> QED
    BY <2>2, <2>4, <2>5
<1> QED
  BY <1>3, <1>4, <1>5, <1>6 DEF Next, Loop, Halts, Workers

(***************************************************************************)
(* No detected event is lost, in every configuration that records events:  *)
(* when the loop has ended and no slot has thrown, it is reported, or the  *)
(* stream ended within its data, or its data would begin before the        *)
(* stream.                                                                 *)
(***************************************************************************)
THEOREM DetectionsAreReported ==
  ASSUME EventsAreRecorded
  PROVE  Spec => []DetectedIsReported
<1>1. AnswerableInv /\ SearchInv /\ AwaitedInv /\ [Next]_vars => AwaitedInv'
  BY AwaitedKept
<1>2. AnswerableInv /\ PassedInv /\ AwaitedInv => DetectedIsReported
  <2> SUFFICES ASSUME AnswerableInv, PassedInv, AwaitedInv, pc = "ended",
                      ~slots_throw, NEW id \in detections,
                      ~(id + Period < Before), ~IsReported(id)
               PROVE  popped < id + Period + Of
    BY DEF DetectedIsReported, IsReported
  <2>1. id \in Int /\ IsAwaited(id)
    BY DEF AwaitedInv
  <2>2. popped < Greater(read_infos[Detector].next, current_global_buffer_pos)
                   + read_infos[Detector].read
    BY DEF PassedInv, Workers
  <2>3. current_global_buffer_pos <= Greater(read_infos[Detector].next, 0)
    BY AnsweredWindow DEF Workers
  <2>4. current_global_buffer_pos \in Nat /\ popped \in Nat
    BY DEF AnswerableInv, BufferInv, TypeOK
  <2> QED
    BY <2>1, <2>2, <2>3, <2>4, MetaIsMeta DEF IsAwaited, Greater
<1> QED
  BY <1>1, <1>2, SearchInvHolds, PassedInvHolds, AwaitedInitially, PTL DEF Spec
-----------------------------------------------------------------------------
(* What the detector computes.  A root mean square is a sum over a window, *)
(* by a recursive function; the median is found by counting.               *)

Rms == [sum : Nat, len : Nat]

Square(point) == power[point] * power[point]

\* The sum of the squares up to a point, from the one before it
NextSum(sum, window, n) == sum + Square(window[n])

\* What the recursive function in rootMeanSquareOfAmpere is up to point n
Sums(f, window, n) ==
  f = [i \in 0..n |-> IF i = 0 THEN 0
                      ELSE f[i - 1] + power[window[i]] * power[window[i]]]

\* A set of natural numbers that is not empty has a least one
LEMMA LeastIs ==
  ASSUME NEW T, T \subseteq Nat, T # {}
  PROVE  \E m \in T : \A t \in T : m <= t
<1> DEFINE R == OpToRel(<, Nat)
<1>1. IsWellFoundedOn(R, Nat)
  BY NatLessThanWellFounded, Zenon
<1>2. \A y, z \in Nat : z < y => <<z, y>> \in R
  BY DEF OpToRel
<1> HIDE DEF R
<1>3. PICK m \in T : \A t \in T : <<t, m>> \notin R
  BY <1>1, WFMin
<1>4. ASSUME NEW t \in T
      PROVE  m <= t
  <2>1. t \in Nat /\ m \in Nat /\ ~(t < m)
    BY <1>2, <1>3
  <2> QED
    BY <2>1
<1> QED
  BY <1>4

\* Its value at every point
LEMMA SumsAt ==
  ASSUME NEW f, NEW window, NEW n \in Nat, Sums(f, window, n), NEW i \in 0..n
  PROVE  f[i] = IF i = 0 THEN 0 ELSE NextSum(f[i - 1], window, i)
<1> DEFINE g == [j \in 0..n |->
                   IF j = 0 THEN 0 ELSE NextSum(f[j - 1], window, j)]
<1>1. f = g
  BY Zenon DEF Sums, NextSum, Square
<1>2. g[i] = IF i = 0 THEN 0 ELSE NextSum(f[i - 1], window, i)
  BY Zenon
<1> HIDE DEF g
<1> QED
  BY <1>1, <1>2, Zenon

\* There is such a function
LEMMA SumsExists ==
  ASSUME NEW window, NEW n \in Nat
  PROVE  \E f : Sums(f, window, n)
<1> DEFINE T == {k \in Nat : ~ \E f : Sums(f, window, k)}
<1>1. SUFFICES ASSUME T # {}
               PROVE  FALSE
  OBVIOUS
<1>2. PICK m \in T : \A k \in T : m <= k
  <2> HIDE DEF T
  <2>1. T \subseteq Nat
    BY DEF T
  <2> QED
    BY <1>1, <2>1, LeastIs
<1>3. m \in Nat /\ ~ \E f : Sums(f, window, m)
  OBVIOUS
<1>4. m # 0
  <2>1. PICK f : f = [i \in 0..0 |-> 0]
    OBVIOUS
  <2>2. \A i \in 0..0 : i = 0
    OBVIOUS
  <2>3. f = [i \in 0..0 |-> IF i = 0 THEN 0 ELSE NextSum(f[i - 1], window, i)]
    BY <2>1, <2>2, Zenon
  <2>4. Sums(f, window, 0)
    BY <2>3, Zenon DEF Sums, NextSum, Square
  <2> QED
    BY <1>3, <2>4
<1>5. m - 1 \in Nat /\ m - 1 \notin T
  BY <1>2, <1>3, <1>4
<1>6. PICK f : Sums(f, window, m - 1)
  BY <1>5
<1> DEFINE atF(i) == IF i = 0 THEN 0 ELSE NextSum(f[i - 1], window, i)
<1>7. PICK g : g = [i \in 0..m |-> atF(i)]
  OBVIOUS
<1> DEFINE atG(i) == IF i = 0 THEN 0 ELSE NextSum(g[i - 1], window, i)
<1>8. \A i \in 0..m : atF(i) = atG(i)
  <2>1. TAKE i \in 0..m
  <2>2. ASSUME i # 0
        PROVE  g[i - 1] = f[i - 1]
    <3>1. i - 1 \in 0..m - 1 /\ i - 1 \in 0..m
      BY <1>3, <2>2
    <3>2. f[i - 1] = atF(i - 1)
      BY <1>5, <1>6, <3>1, SumsAt
    <3> HIDE DEF atF
    <3>3. g[i - 1] = atF(i - 1)
      BY <1>7, <3>1, Zenon
    <3> QED
      BY <3>2, <3>3, Zenon
  <2> QED
    BY <2>2, Zenon
<1>9. g = [i \in 0..m |-> atG(i)]
  <2> HIDE DEF atF, atG
  <2> QED
    BY <1>7, <1>8, Zenon
<1>10. Sums(g, window, m)
  BY <1>9, Zenon DEF Sums, NextSum, Square
<1> QED
  BY <1>3, <1>10, Zenon

\* A sum of squares that are c at least
LEMMA SumGrows ==
  ASSUME NEW c \in Nat, NEW f, NEW window, NEW n \in Nat, Sums(f, window, n),
         \A i \in 1..n : Square(window[i]) \in Nat /\ Square(window[i]) >= c
  PROVE  /\ f[n] \in Nat /\ f[n] >= c * n
         /\ (\A i \in 1..n : Square(window[i]) = c) => f[n] = c * n
         /\ (\E i \in 1..n : Square(window[i]) > c) => f[n] > c * n
<1> DEFINE Fits(k) ==
             /\ f[k] \in Nat /\ f[k] >= c * k
             /\ (\A i \in 1..k : Square(window[i]) = c) => f[k] = c * k
             /\ (\E i \in 1..k : Square(window[i]) > c) => f[k] > c * k
           T == {k \in 0..n : ~Fits(k)}
<1>1. SUFFICES ASSUME T # {}
               PROVE  FALSE
  OBVIOUS
<1>2. PICK m \in T : \A k \in T : m <= k
  <2> HIDE DEF T
  <2>1. T \subseteq Nat
    BY DEF T
  <2> QED
    BY <1>1, <2>1, LeastIs
<1>3. m \in 0..n /\ ~Fits(m)
  OBVIOUS
<1>4. f[m] = IF m = 0 THEN 0 ELSE NextSum(f[m - 1], window, m)
  BY <1>3, SumsAt
<1>5. m # 0
  <2>1. ASSUME m = 0
        PROVE  Fits(m)
    BY <1>4, <2>1
  <2> QED
    BY <1>3, <2>1
<1>6. m \in 1..n /\ m - 1 \in 0..n /\ m - 1 \in Nat /\ ~(m <= m - 1)
  BY <1>3, <1>5
<1>7. Fits(m - 1)
  BY <1>2, <1>6
<1> DEFINE s == Square(window[m])
<1>8. f[m] = f[m - 1] + s /\ s \in Nat /\ s >= c
  BY <1>4, <1>5, <1>6 DEF NextSum
<1>9. c * m = c * (m - 1) + c /\ c * (m - 1) \in Nat
  BY <1>6
<1>10. \A i \in 1..m : i \in 1..m - 1 \/ i = m
  BY <1>6
<1> HIDE DEF s
<1>11. f[m] \in Nat /\ f[m] >= c * m
  BY <1>7, <1>8, <1>9
<1>12. ASSUME \A i \in 1..m : Square(window[i]) = c
       PROVE  f[m] = c * m
  <2>1. \A i \in 1..m - 1 : i \in 1..m
    BY <1>6
  <2>2. s = c /\ f[m - 1] = c * (m - 1)
    BY <1>6, <1>7, <1>12, <2>1 DEF s
  <2> QED
    BY <1>8, <1>9, <2>2
<1>13. ASSUME NEW i \in 1..m, Square(window[i]) > c
       PROVE  f[m] > c * m
  <2>1. CASE i = m
    BY <1>7, <1>8, <1>9, <1>13, <2>1 DEF s
  <2>2. CASE i \in 1..m - 1
    <3>1. f[m - 1] > c * (m - 1)
      BY <1>7, <1>13, <2>2
    <3> QED
      BY <1>7, <1>8, <1>9, <3>1
  <2> QED
    BY <1>10, <2>1, <2>2
<1>14. Fits(m)
  BY <1>11, <1>12, <1>13
<1> QED
  BY <1>3, <1>14

\* The root mean square of a window of a power of which the square is c, and
\* of one with a greater power
IsLow(r, c)  == r \in Rms /\ r.len > 0 /\ r.sum = c * r.len
IsHigh(r, c) == r \in Rms /\ r.len > 0 /\ r.sum > c * r.len

\* rootMeanSquareOfAmpere of a window, of which no point is lower than c
LEMMA RmsOfWindow ==
  ASSUME NEW c \in Nat, NEW window, Len(window) \in Nat, Len(window) > 0,
         \A i \in 1..Len(window) :
           Square(window[i]) \in Nat /\ Square(window[i]) >= c
  PROVE  LET r == rootMeanSquareOfAmpere(window)
         IN  /\ (\A i \in 1..Len(window) : Square(window[i]) = c)
                  => IsLow(r, c)
             /\ (\E i \in 1..Len(window) : Square(window[i]) > c)
                  => IsHigh(r, c)
<1> DEFINE r == rootMeanSquareOfAmpere(window)
<1>1. PICK n \in Nat : n = Len(window)
  OBVIOUS
<1>2. PICK f : Sums(f, window, n) /\ r = [sum |-> f[n], len |-> n]
  <2> DEFINE f == CHOOSE f : Sums(f, window, n)
  <2>1. Sums(f, window, n)
    BY SumsExists, Zenon
  <2>2. r = [sum |-> f[n], len |-> n]
    BY <1>1, Zenon DEF rootMeanSquareOfAmpere, Sums
  <2> QED
    BY <2>1, <2>2, Zenon
<1> HIDE DEF r
<1>3. \A i \in 1..n : Square(window[i]) \in Nat /\ Square(window[i]) >= c
  BY <1>1
<1>4. /\ f[n] \in Nat /\ f[n] >= c * n
      /\ (\A i \in 1..n : Square(window[i]) = c) => f[n] = c * n
      /\ (\E i \in 1..n : Square(window[i]) > c) => f[n] > c * n
  BY <1>2, <1>3, SumGrows
<1>5. r \in Rms /\ r.len = n /\ r.sum = f[n]
  BY <1>2, <1>4 DEF Rms
<1> QED
  BY <1>1, <1>4, <1>5 DEF IsLow, IsHigh, r

\* A product grows with its factors
LEMMA ProductGrows ==
  ASSUME NEW x \in Nat, NEW y \in Nat, NEW l \in Nat, l > 0, x > y
  PROVE  x * l > y * l
<1>1. PICK d \in Nat : x = y + d /\ d > 0
  <2>1. x - y \in Nat /\ x = y + (x - y) /\ x - y > 0
    OBVIOUS
  <2> QED
    BY <2>1
<1>2. x * l = y * l + d * l
  BY <1>1
<1>3. d * l > 0 /\ d * l \in Nat /\ y * l \in Nat
  BY <1>1
<1> QED
  BY <1>2, <1>3

\* Low ones do not exceed each other, high ones exceed them
LEMMA HighExceedsLow ==
  ASSUME NEW c \in Nat, NEW r, NEW s, IsLow(s, c)
  PROVE  /\ IsLow(r, c) => ~Exceeds(r, s)
         /\ IsHigh(r, c) => Exceeds(r, s)
         /\ IsHigh(r, c) => ~IsLow(r, c)
<1>1. s.len \in Nat /\ s.len > 0 /\ s.sum = c * s.len
  BY DEF IsLow, Rms
<1>2. ASSUME IsLow(r, c)
      PROVE  ~Exceeds(r, s)
  <2>1. r.len \in Nat /\ r.sum = c * r.len
    BY <1>2 DEF IsLow, Rms
  <2>2. (c * r.len) * s.len = (c * s.len) * r.len
        /\ (c * r.len) * s.len \in Nat
    BY <1>1, <2>1
  <2> QED
    BY <1>1, <2>1, <2>2 DEF Exceeds
<1>3. ASSUME IsHigh(r, c)
      PROVE  Exceeds(r, s)
  <2>1. r.len \in Nat /\ r.sum \in Nat /\ r.sum > c * r.len
        /\ c * r.len \in Nat
    BY <1>3 DEF IsHigh, Rms
  <2>2. r.sum * s.len > (c * r.len) * s.len
    BY <1>1, <2>1, ProductGrows
  <2>3. (c * r.len) * s.len = (c * s.len) * r.len
    BY <1>1, <2>1
  <2> QED
    BY <1>1, <2>2, <2>3 DEF Exceeds
<1>4. IsHigh(r, c) => ~IsLow(r, c)
  BY DEF IsHigh, IsLow, Rms
<1> QED
  BY <1>2, <1>3, <1>4

\* Of low ones and at most one high one, the median is a low one
LEMMA MedianIsLow ==
  ASSUME NEW c \in Nat, NEW n \in Nat, n >= 2,
         NEW rms \in Seq(Rms), Len(rms) = n + 1,
         \A i \in 1..n : IsLow(rms[i], c),
         IsLow(rms[n + 1], c) \/ IsHigh(rms[n + 1], c)
  PROVE  IsLow(getMedianPrevRMS(rms), c)
<1> DEFINE below(r) == {i \in DOMAIN rms : Exceeds(r, rms[i])}
           upTo(r)  == {i \in DOMAIN rms : ~Exceeds(rms[i], r)}
           half     == Len(rms) \div 2
           Middle(r) == Cardinality(below(r)) <= half
                          /\ Cardinality(upTo(r)) > half
<1>1. /\ DOMAIN rms = 1..n + 1 /\ 1..n \subseteq 1..n + 1
      /\ IsFiniteSet(1..n + 1) /\ Cardinality(1..n) = n /\ 1 \in 1..n
  <2>1. PICK m \in Nat : m = n + 1
    OBVIOUS
  <2>2. IsFiniteSet(1..m)
    BY FS_Interval
  <2>3. Cardinality(1..n) = IF 1 > n THEN 0 ELSE n - 1 + 1
    BY FS_Interval
  <2>4. Cardinality(1..n) = n
    BY <2>3
  <2> QED
    BY <2>1, <2>2, <2>4
<1>2. half \in Nat /\ half < n
  OBVIOUS
<1>3. ASSUME NEW S, 1..n \subseteq S, S \subseteq 1..n + 1
      PROVE  Cardinality(S) > half
  <2>1. IsFiniteSet(S)
    BY <1>1, <1>3, FS_Subset
  <2>2. Cardinality(1..n) <= Cardinality(S) /\ Cardinality(S) \in Nat
    BY <1>3, <2>1, FS_Subset, FS_CardinalityType
  <2> HIDE DEF half
  <2> QED
    BY <1>1, <1>2, <2>2
<1>4. IsLow(rms[1], c)
  BY <1>1
<1>5. \A i \in 1..n + 1 : IsLow(rms[i], c) \/ IsHigh(rms[i], c)
  <2>1. \A i \in 1..n + 1 : i \in 1..n \/ i = n + 1
    OBVIOUS
  <2> QED
    BY <2>1
<1>6. \A i \in 1..n + 1 : ~Exceeds(rms[1], rms[i])
  <2>1. ASSUME NEW i \in 1..n + 1
        PROVE  ~Exceeds(rms[1], rms[i])
    <3>1. CASE IsLow(rms[i], c)
      BY <1>4, <3>1, HighExceedsLow
    <3>2. CASE IsHigh(rms[i], c)
      <4>1. Exceeds(rms[i], rms[1])
        BY <1>4, <3>2, HighExceedsLow
      <4>2. /\ rms[1].sum \in Nat /\ rms[1].len \in Nat
            /\ rms[i].sum \in Nat /\ rms[i].len \in Nat
        BY <1>4, <3>2 DEF IsLow, IsHigh, Rms
      <4>3. /\ rms[1].sum * rms[i].len \in Nat
            /\ rms[i].sum * rms[1].len \in Nat
        BY <4>2
      <4> QED
        BY <4>1, <4>3 DEF Exceeds
    <3> QED
      BY <1>5, <3>1, <3>2
  <2> QED
    BY <2>1
<1>7. Middle(rms[1])
  <2>1. below(rms[1]) = {}
    BY <1>1, <1>6
  <2>2. 1..n \subseteq upTo(rms[1]) /\ upTo(rms[1]) \subseteq 1..n + 1
    <3>1. \A i \in 1..n : ~Exceeds(rms[i], rms[1])
      BY <1>4, HighExceedsLow
    <3> QED
      BY <1>1, <3>1
  <2> HIDE DEF below, upTo
  <2>3. Cardinality(upTo(rms[1])) > half
    BY <1>3, <2>2
  <2>4. Cardinality(below(rms[1])) = 0
    BY <2>1, FS_EmptySet
  <2> HIDE DEF half
  <2> QED
    BY <1>2, <2>3, <2>4
<1>8. ASSUME NEW j \in 1..n + 1, Middle(rms[j])
      PROVE  IsLow(rms[j], c)
  <2> SUFFICES ASSUME IsHigh(rms[j], c)
               PROVE  FALSE
    BY <1>5
  <2>1. \A i \in 1..n : Exceeds(rms[j], rms[i])
    BY HighExceedsLow
  <2>2. 1..n \subseteq below(rms[j]) /\ below(rms[j]) \subseteq 1..n + 1
    BY <1>1, <2>1
  <2> HIDE DEF below, upTo
  <2>3. Cardinality(below(rms[j])) > half
    BY <1>3, <2>2
  <2>4. IsFiniteSet(below(rms[j]))
    BY <1>1, <2>2, FS_Subset
  <2>5. Cardinality(below(rms[j])) \in Nat
    BY <2>4, FS_CardinalityType
  <2> HIDE DEF half
  <2> QED
    BY <1>2, <1>8, <2>3, <2>5
<1>9. getMedianPrevRMS(rms) = CHOOSE r \in Range(rms) : Middle(r)
  BY DEF getMedianPrevRMS
<1> HIDE DEF Middle
<1>10. \E r \in Range(rms) : Middle(r)
  <2>1. rms[1] \in Range(rms)
    BY <1>1 DEF Range
  <2> QED
    BY <1>7, <2>1
<1>11. PICK r : r = getMedianPrevRMS(rms) /\ r \in Range(rms) /\ Middle(r)
  BY <1>9, <1>10, Zenon
<1>12. PICK j \in 1..n + 1 : r = rms[j]
  BY <1>1, <1>11 DEF Range
<1> QED
  BY <1>8, <1>11, <1>12, Zenon

\* previous_rms when everything it was computed from was c
QuietRms(rms, c) ==
  /\ rms \in Seq(Rms) /\ Len(rms) = NumberOfRms + 1
  /\ \A i \in 1..NumberOfRms + 1 : IsLow(rms[i], c)

\* A part of a window
LEMMA PartOfWindow ==
  ASSUME NEW c \in Nat, NEW window \in Seq(Int), NEW first \in Nat,
         NEW n \in Nat, n > 0, first + n <= Len(window),
         \A i \in 1..Len(window) : Square(window[i]) = c
  PROVE  IsLow(rootMeanSquareOfAmpere(SubSeq(window, first + 1, first + n)), c)
<1> DEFINE part == SubSeq(window, first + 1, first + n)
<1>1. /\ part \in Seq(Int) /\ Len(part) = n
      /\ \A i \in 1..n : part[i] = window[first + i]
  OBVIOUS
<1>2. \A i \in 1..n : first + i \in 1..Len(window)
  OBVIOUS
<1> HIDE DEF part
<1>3. \A i \in 1..n : Square(part[i]) = c
  BY <1>1, <1>2, Zenon
<1>4. \A i \in 1..Len(part) :
        Square(part[i]) = c /\ Square(part[i]) \in Nat /\ Square(part[i]) >= c
  BY <1>1, <1>3
<1>5. Len(part) \in Nat /\ Len(part) > 0
  BY <1>1
<1> QED
  BY <1>4, <1>5, RmsOfWindow DEF part

\* The first window fills previous_rms
LEMMA FirstRms ==
  ASSUME NEW c \in Nat, NEW window \in Seq(Int), previous_rms = <<>>,
         NumberOfRms * Period <= Len(window),
         \A i \in 1..Len(window) : Square(window[i]) = c
  PROVE  QuietRms(RmsWith(window), c)
<1> DEFINE r == rootMeanSquareOfAmpere(window)
           initial == initializePreviousRMS(window)
           pushed == Append(previous_rms, r)
<1>1. NumberOfRms \in Nat /\ NumberOfRms >= 2 /\ Period \in Nat /\ Period > 0
  BY DetectorAssumption, MetaIsMeta, WindowsAreLong DEF Period
<1>2. IsLow(r, c)
  <2>1. NumberOfRms * Period = Period + (NumberOfRms - 1) * Period
        /\ (NumberOfRms - 1) * Period \in Nat
    BY <1>1
  <2>2. Len(window) \in Nat /\ Len(window) > 0
    BY <1>1, <2>1
  <2>3. \A i \in 1..Len(window) :
          Square(window[i]) \in Nat /\ Square(window[i]) >= c
    OBVIOUS
  <2> QED
    BY <2>2, <2>3, RmsOfWindow
<1>3. ASSUME NEW i \in 1..NumberOfRms
      PROVE  IsLow(initial[i], c)
  <2>1. PICK first \in Nat : first = (i - 1) * Period
    BY <1>1
  <2>2. i * Period = first + Period
    BY <1>1, <2>1
  <2>3. NumberOfRms * Period = i * Period + (NumberOfRms - i) * Period
        /\ (NumberOfRms - i) * Period \in Nat
    BY <1>1
  <2>4. first + Period <= Len(window)
    BY <1>1, <2>2, <2>3
  <2>5. initial[i] =
          rootMeanSquareOfAmpere(SubSeq(window, first + 1, first + Period))
    BY <2>1, <2>2, Zenon DEF initializePreviousRMS
  <2>6. IsLow(rootMeanSquareOfAmpere(
                SubSeq(window, first + 1, first + Period)), c)
    BY <1>1, <2>4, PartOfWindow
  <2> QED
    BY <2>5, <2>6
<1>4. initial \in Seq(Rms) /\ Len(initial) = NumberOfRms
  <2>1. DOMAIN initial = 1..NumberOfRms
    BY DEF initializePreviousRMS
  <2>2. initial = [i \in 1..NumberOfRms |-> initial[i]]
    BY <2>1 DEF initializePreviousRMS
  <2>3. \A i \in 1..NumberOfRms : initial[i] \in Rms
    BY <1>3 DEF IsLow
  <2> HIDE DEF initial
  <2>4. initial \in [1..NumberOfRms -> Rms]
    BY <2>2, <2>3
  <2> QED
    BY <1>1, <2>4
<1>5. r \in Rms
  BY <1>2 DEF IsLow
<1> HIDE DEF r, initial
<1>6. pushed \in Seq(Rms) /\ Len(pushed) = 1 /\ pushed[1] = r
  BY <1>5
<1>7. RmsWith(window) = pushed \o initial
  <2>1. ~(Len(pushed) > NumberOfRms) /\ Len(pushed) < NumberOfRms
    BY <1>1, <1>6
  <2> QED
    BY <2>1, Zenon DEF RmsWith, r, initial
<1> HIDE DEF pushed
<1> DEFINE s == pushed \o initial
<1>8. /\ s \in Seq(Rms) /\ Len(s) = NumberOfRms + 1 /\ s[1] = r
      /\ \A i \in 1..NumberOfRms : s[i + 1] = initial[i]
  <2>1. s \in Seq(Rms) /\ Len(s) = NumberOfRms + 1
    <3>1. s \in Seq(Rms) /\ Len(s) = Len(pushed) + Len(initial)
      BY <1>4, <1>6, ConcatProperties, Zenon
    <3> HIDE DEF s
    <3> QED
      BY <1>1, <1>4, <1>6, <3>1
  <2>2. ASSUME NEW k \in 1..Len(pushed) + Len(initial)
        PROVE  s[k] = IF k <= Len(pushed) THEN pushed[k]
                      ELSE initial[k - Len(pushed)]
    BY <1>4, <1>6, ConcatProperties, Zenon
  <2> HIDE DEF s
  <2>3. ASSUME NEW i \in 1..NumberOfRms
        PROVE  s[i + 1] = initial[i]
    <3>1. PICK k : k = i + 1 /\ k \in 1..1 + NumberOfRms /\ ~(k <= 1)
                   /\ k - 1 = i
      BY <1>1
    <3>2. s[k] = initial[k - 1]
      BY <1>4, <1>6, <2>2, <3>1
    <3> QED
      BY <3>1, <3>2
  <2>4. s[1] = pushed[1]
    <3>1. 1 \in 1..1 + NumberOfRms
      BY <1>1
    <3> QED
      BY <1>4, <1>6, <2>2, <3>1
  <2> QED
    BY <1>6, <2>1, <2>3, <2>4
<1> HIDE DEF s
<1>9. ASSUME NEW i \in 1..NumberOfRms + 1
      PROVE  IsLow(s[i], c)
  <2>1. CASE i = 1
    BY <1>2, <1>8, <2>1
  <2>2. CASE i # 1
    <3>1. PICK k \in 1..NumberOfRms : i = k + 1
      <4>1. i - 1 \in 1..NumberOfRms /\ i = (i - 1) + 1
        BY <1>1, <2>2
      <4> QED
        BY <4>1
    <3> QED
      BY <1>3, <1>8, <3>1
  <2> QED
    BY <2>1, <2>2
<1> QED
  BY <1>7, <1>8, <1>9 DEF QuietRms, s

\* Every other one takes the place of the oldest
LEMMA NextRms ==
  ASSUME NEW c, QuietRms(previous_rms, c), NEW window,
         rootMeanSquareOfAmpere(window) \in Rms
  PROVE  LET s == RmsWith(window)
         IN  /\ s \in Seq(Rms) /\ Len(s) = NumberOfRms + 1
             /\ \A i \in 1..NumberOfRms : IsLow(s[i], c)
             /\ s[NumberOfRms + 1] = rootMeanSquareOfAmpere(window)
<1> DEFINE r == rootMeanSquareOfAmpere(window)
           pushed == Append(previous_rms, r)
           s == Tail(pushed)
<1> HIDE DEF r
<1>1. /\ NumberOfRms \in Nat
      /\ previous_rms \in Seq(Rms) /\ Len(previous_rms) = NumberOfRms + 1
      /\ \A i \in 1..NumberOfRms + 1 : IsLow(previous_rms[i], c)
      /\ r \in Rms
  BY DetectorAssumption DEF QuietRms, r
<1>2. /\ pushed \in Seq(Rms) /\ Len(pushed) = NumberOfRms + 2
      /\ \A i \in 1..NumberOfRms + 1 : pushed[i] = previous_rms[i]
      /\ pushed[NumberOfRms + 2] = r
  BY <1>1
<1>3. RmsWith(window) = s
  <2>1. Len(pushed) > NumberOfRms /\ ~(Len(pushed) < NumberOfRms)
    BY <1>1, <1>2
  <2> QED
    BY <2>1, Zenon DEF RmsWith, r
<1> HIDE DEF pushed
<1>4. /\ s \in Seq(Rms) /\ Len(s) = NumberOfRms + 1
      /\ \A i \in 1..NumberOfRms + 1 : s[i] = pushed[i + 1]
  BY <1>1, <1>2
<1> HIDE DEF s
<1>5. \A i \in 1..NumberOfRms :
        i \in 1..NumberOfRms + 1 /\ i + 1 \in 1..NumberOfRms + 1
  BY <1>1
<1>6. \A i \in 1..NumberOfRms : IsLow(s[i], c)
  <2>1. ASSUME NEW i \in 1..NumberOfRms
        PROVE  IsLow(s[i], c)
    <3>1. PICK k \in 1..NumberOfRms + 1 : k = i + 1
      BY <1>5
    <3>2. s[i] = pushed[k] /\ pushed[k] = previous_rms[k]
      BY <1>2, <1>4, <1>5, <3>1
    <3> QED
      BY <1>1, <3>2
  <2> QED
    BY <2>1
<1>7. s[NumberOfRms + 1] = r
  <2>1. NumberOfRms + 1 \in 1..NumberOfRms + 1
    BY <1>1
  <2>2. s[NumberOfRms + 1] = pushed[(NumberOfRms + 1) + 1]
    BY <1>4, <2>1
  <2>3. (NumberOfRms + 1) + 1 = NumberOfRms + 2
    BY <1>1
  <2> QED
    BY <1>2, <2>2, <2>3
<1> QED
  BY <1>3, <1>4, <1>6, <1>7 DEF r

\* The detector finds a rise, and nothing else
LEMMA RiseIsDetected ==
  ASSUME NEW c \in Nat, QuietRms(previous_rms, c), NEW window
  PROVE  LET r == rootMeanSquareOfAmpere(window)
         IN  /\ IsLow(r, c) => ~detectEvent(window)
                                 /\ QuietRms(RmsWith(window), c)
             /\ IsHigh(r, c) => detectEvent(window)
<1> DEFINE r == rootMeanSquareOfAmpere(window)
           s == RmsWith(window)
           median == getMedianPrevRMS(s)
<1>1. /\ NumberOfRms \in Nat /\ NumberOfRms >= 2
      /\ Len(previous_rms) + 1 >= NumberOfRms
  BY DetectorAssumption DEF QuietRms
<1>2. detectEvent(window) <=> Exceeds(r, median)
  BY <1>1 DEF detectEvent
<1>3. ASSUME IsLow(r, c) \/ IsHigh(r, c)
      PROVE  /\ s \in Seq(Rms) /\ Len(s) = NumberOfRms + 1
             /\ \A i \in 1..NumberOfRms : IsLow(s[i], c)
             /\ s[NumberOfRms + 1] = r
  <2>1. r \in Rms
    BY <1>3 DEF IsLow, IsHigh
  <2> QED
    BY <2>1, NextRms
<1> HIDE DEF r, s
<1>4. ASSUME IsLow(r, c) \/ IsHigh(r, c)
      PROVE  IsLow(median, c)
  <2>1. /\ s \in Seq(Rms) /\ Len(s) = NumberOfRms + 1
        /\ \A i \in 1..NumberOfRms : IsLow(s[i], c)
        /\ IsLow(s[NumberOfRms + 1], c) \/ IsHigh(s[NumberOfRms + 1], c)
    BY <1>3, <1>4
  <2> QED
    BY <1>1, <2>1, MedianIsLow
<1> HIDE DEF median
<1>5. ASSUME IsLow(r, c)
      PROVE  QuietRms(s, c)
  <2>1. \A i \in 1..NumberOfRms + 1 : i \in 1..NumberOfRms \/ i = NumberOfRms + 1
    BY <1>1
  <2> QED
    BY <1>3, <1>5, <2>1 DEF QuietRms
<1> QED
  BY <1>2, <1>4, <1>5, HighExceedsLow DEF r, s

\* A stream is a function from the positions of its points
LEMMA StreamPoints ==
  ASSUME power \in PowerCurves
  PROVE  /\ StreamLength \in Nat /\ DOMAIN power = 0..StreamLength - 1
         /\ \A x \in 0..StreamLength - 1 : power[x] \in Nat
<1>1. /\ IsFiniteSet(DOMAIN power)
      /\ power \in [0..Cardinality(DOMAIN power) - 1 -> Nat]
  BY DistributorAssumption
<1>2. StreamLength \in Nat /\ power \in [0..StreamLength - 1 -> Nat]
  BY <1>1, FS_CardinalityType DEF StreamLength
<1> QED
  BY <1>2

\* The points before a rise are quiet, those after it are not
LEMMA RisePoints ==
  ASSUME power \in PowerCurves, NEW p, RisesAt(p)
  PROVE  /\ p \in 1..StreamLength - 1 /\ Square(p - 1) \in Nat
         /\ \A x \in 0..StreamLength - 1 :
              /\ x < p => Square(x) = Square(p - 1)
              /\ x >= p => Square(x) \in Nat /\ Square(x) > Square(p - 1)
<1>1. /\ StreamLength \in Nat /\ DOMAIN power = 0..StreamLength - 1
      /\ \A x \in 0..StreamLength - 1 : power[x] \in Nat
  BY StreamPoints
<1>2. /\ p \in 0..StreamLength - 1 /\ p > 0 /\ power[p - 1] < power[p]
      /\ \A i, j \in 0..StreamLength - 1 :
           power[i] = power[j] <=> (i < p <=> j < p)
  BY <1>1 DEF RisesAt
<1>3. p - 1 \in 0..StreamLength - 1 /\ p - 1 < p /\ ~(p < p)
  BY <1>1, <1>2
<1>4. PICK a \in Nat, b \in Nat : a = power[p - 1] /\ b = power[p] /\ a < b
  BY <1>1, <1>2, <1>3
<1>5. a * a \in Nat /\ b * b \in Nat /\ b * b > a * a
  <2>1. b * b > a * b
    BY <1>4, ProductGrows
  <2>2. a * b = a * a + a * (b - a) /\ a * (b - a) \in Nat /\ a * a \in Nat
    BY <1>4
  <2> QED
    BY <2>1, <2>2
<1>6. ASSUME NEW x \in 0..StreamLength - 1
      PROVE  (x < p => power[x] = a) /\ (x >= p => power[x] = b)
  BY <1>1, <1>2, <1>3, <1>4
<1> QED
  BY <1>1, <1>2, <1>3, <1>4, <1>5, <1>6 DEF Square

\* A window before a rise is quiet, and one the rise is in is not
LEMMA WindowAtRise ==
  ASSUME power \in PowerCurves, NEW p, RisesAt(p),
         NEW window \in Seq(Int), NEW id \in Nat, NEW n \in Nat, n > 0,
         Len(window) = n, \A i \in 1..n : window[i] = id + i - 1,
         id + n <= StreamLength
  PROVE  /\ id + n <= p =>
              /\ \A i \in 1..Len(window) : Square(window[i]) = Square(p - 1)
              /\ IsLow(rootMeanSquareOfAmpere(window), Square(p - 1))
         /\ id <= p /\ p < id + n =>
              IsHigh(rootMeanSquareOfAmpere(window), Square(p - 1))
<1>1. PICK c \in Nat : c = Square(p - 1)
  BY RisePoints
<1>2. /\ p \in 1..StreamLength - 1 /\ StreamLength \in Nat
      /\ \A x \in 0..StreamLength - 1 :
           /\ x < p => Square(x) = c
           /\ x >= p => Square(x) \in Nat /\ Square(x) > c
  BY <1>1, RisePoints, StreamPoints
<1>3. ASSUME NEW i \in 1..n
      PROVE  /\ window[i] < p => Square(window[i]) = c
             /\ window[i] >= p =>
                  Square(window[i]) \in Nat /\ Square(window[i]) > c
             /\ window[i] \in Int
  <2>1. PICK x \in 0..StreamLength - 1 : x = window[i]
    <3>1. id + i - 1 \in 0..StreamLength - 1
      BY <1>2
    <3> QED
      BY <3>1
  <2> QED
    BY <1>2, <2>1
<1>4. \A i \in 1..Len(window) :
        Square(window[i]) \in Nat /\ Square(window[i]) >= c
  <2>1. ASSUME NEW i \in 1..n
        PROVE  Square(window[i]) \in Nat /\ Square(window[i]) >= c
    BY <1>2, <1>3
  <2> QED
    BY <2>1
<1>5. ASSUME id + n <= p
      PROVE  /\ \A i \in 1..Len(window) : Square(window[i]) = c
             /\ IsLow(rootMeanSquareOfAmpere(window), c)
  <2>1. \A i \in 1..Len(window) : Square(window[i]) = c
    <3>1. ASSUME NEW i \in 1..n
          PROVE  Square(window[i]) = c
      <4>1. window[i] = id + i - 1 /\ id + i - 1 < p
        BY <1>2, <1>5
      <4> QED
        BY <1>3, <4>1
    <3> QED
      BY <3>1
  <2> QED
    BY <1>4, <2>1, RmsOfWindow
<1>6. ASSUME id <= p, p < id + n
      PROVE  IsHigh(rootMeanSquareOfAmpere(window), c)
  <2>1. PICK i \in 1..n : i = p - id + 1
    BY <1>2, <1>6
  <2>2. window[i] = p
    BY <1>2, <2>1
  <2>3. Square(window[i]) > c /\ i \in 1..Len(window)
    BY <1>2, <1>3, <2>2
  <2> QED
    BY <1>4, <2>3, RmsOfWindow
<1> QED
  BY <1>1, <1>5, <1>6

-----------------------------------------------------------------------------
(* A rise is found.  Until then, the detector searches the stream in front *)
(* of it, window by window, and has root mean squares of quiet ones only.  *)

\* The initial root mean squares are those of parts of the first window
FirstWindowHoldsRms ==
  NumberOfRms * Period <= minDataPointsNeeded(DefaultMeta)

\* The data of an event begins no later, and ends no earlier, than the window
\* it is detected in
EventCoversWindow ==
  Period <= Before /\ minDataPointsNeeded(Meta) <= Period + Of

\* A rise with enough stream before it
IsSought(p) ==
  /\ RisesAt(p)
  /\ p >= minDataPointsNeeded(DefaultMeta)
  /\ p + Period >= Before + minDataPointsNeeded(Meta)

IsFound(p) ==
  \E id \in detections : id <= p /\ p < id + minDataPointsNeeded(Meta)

IsAhead(p) ==
  /\ ~detected_an_event
  /\ 0 <= read_infos[Detector].next /\ read_infos[Detector].next <= p
  /\ \/ read_infos[Detector] = FirstRequest /\ previous_rms = <<>>
     \/ /\ read_infos[Detector].read = minDataPointsNeeded(Meta)
        /\ QuietRms(previous_rms, Square(p - 1))

RiseInv ==
  /\ power \in PowerCurves
  /\ popped <= StreamLength
  /\ ~slots_throw =>
       \A p \in DOMAIN power : IsSought(p) => IsFound(p) \/ IsAhead(p)

\* The detector moves on towards the rise, or finds it
LEMMA SearchFindsRise ==
  ASSUME FirstWindowHoldsRms, EventCoversWindow,
         AnswerableInv, RiseInv, ~slots_throw, ExecuteWorkerOnce(Detector),
         NEW p, IsSought(p), IsAhead(p)
  PROVE  IsFound(p)' \/ IsAhead(p)'
<1> DEFINE window == Window(Detector)
           id == WindowId(Detector)
           a == DetectorAnswer(window, id)
           n == read_infos[Detector].read
           c == Square(p - 1)
           W == minDataPointsNeeded(Meta)
<1>1. /\ DetectorWorks(window, id) /\ read_infos'[Detector] = a
      /\ ~IndexPastBuffer(Detector) /\ WindowInBuffer(Detector)
      /\ power' = power
  BY DetectorAnswerIs DEF AnswerableInv
<1>2. power \in PowerCurves /\ RisesAt(p)
  BY DEF RiseInv, IsSought
<1>3. /\ p \in Nat /\ c \in Nat /\ StreamLength \in Nat
  BY <1>2, RisePoints, StreamPoints
<1>4. W \in Nat /\ Period \in Nat /\ Before \in Nat /\ Period > 0 /\ W > 0
      /\ W <= p
  <2>1. W \in Nat /\ Period \in Nat /\ Before \in Nat
    BY MetaIsMeta
  <2>2. Period > 0 /\ W >= Period
    BY DetectorAssumption, WindowsAreLong DEF Period
  <2>3. p + Period >= Before + W /\ Period <= Before
    BY DEF IsSought, EventCoversWindow
  <2> HIDE DEF W
  <2> QED
    BY <1>3, <2>1, <2>2, <2>3
<1>5. /\ id = read_infos[Detector].next /\ id \in Nat /\ id <= p
  BY AnsweredWindow DEF IsAhead, Greater, Workers
<1>6. /\ window \in Seq(Int) /\ Len(window) = n /\ n \in Nat
      /\ \A i \in 1..n : window[i] = id + i - 1
      /\ id + n <= StreamLength
  <2>1. /\ id + n <= popped /\ n \in Nat /\ popped \in Nat
        /\ popped <= StreamLength /\ id \in Nat
    BY <1>1, WindowEnds
    DEF AnswerableInv, Workers, RiseInv, BufferInv, TypeOK
  <2>2. Len(window) = n /\ window \in Seq(Int)
        /\ \A i \in 1..n : window[i] = id + i - 1
    BY <1>1, WindowLength, WindowPoints DEF AnswerableInv, Workers
  <2> HIDE DEF id, n, window
  <2> QED
    BY <1>3, <2>1, <2>2
<1>7. ~detected_an_event
  BY DEF IsAhead
<1> HIDE DEF window, id, n, a, c, W
<1>8. ~IsEventData(window, id)
  BY <1>7 DEF IsEventData
<1>9. ASSUME window # <<>>, ~detectEvent(window), id + W <= p,
             QuietRms(RmsWith(window), c)
      PROVE  IsAhead(p)'
  <2>1. DetectsNothing(window, id)
    BY <1>1, <1>8, <1>9 DEF DetectorWorks, NothingToDetect, ReportsEvent,
       DetectsEvent
  <2>2. previous_rms' = RmsWith(window) /\ ~detected_an_event'
    BY <1>7, <2>1 DEF DetectsNothing
  <2>3. a = getNextDetectionPeriod(id)
    BY <1>8, <1>9 DEF DetectorAnswer, a
  <2>4. read_infos'[Detector].next = id + W /\ read_infos'[Detector].read = W
    BY <1>1, <2>3 DEF getNextDetectionPeriod, NextReadInfos, W
  <2>5. Square(p - 1)' = c
    BY <1>1 DEF Square, c
  <2> QED
    BY <1>4, <1>5, <1>9, <2>2, <2>4, <2>5 DEF IsAhead, W
<1>10. CASE read_infos[Detector] = FirstRequest /\ previous_rms = <<>>
  <2>1. /\ id = 0 /\ n = minDataPointsNeeded(DefaultMeta) /\ n > 0
        /\ id + n <= p
    <3>1. id = 0 /\ n = minDataPointsNeeded(DefaultMeta)
      BY <1>5, <1>10, FirstRequestIs DEF n
    <3>2. minDataPointsNeeded(DefaultMeta) > 0
      BY DetectorAssumption, WindowsAreLong, MetaType
    <3> QED
      BY <1>6, <3>1, <3>2 DEF IsSought
  <2>2. \A i \in 1..Len(window) : Square(window[i]) = c
    BY <1>2, <1>5, <1>6, <2>1, WindowAtRise DEF c
  <2>3. NumberOfRms * Period <= Len(window)
    BY <1>6, <2>1 DEF FirstWindowHoldsRms
  <2>4. QuietRms(RmsWith(window), c)
    BY <1>3, <1>6, <1>10, <2>2, <2>3, FirstRms
  <2>5. ~detectEvent(window)
    <3>1. Len(previous_rms) = 0
      BY <1>10
    <3> QED
      BY <3>1, DetectorAssumption DEF detectEvent
  <2>6. window # <<>> /\ id + W <= p
    BY <1>4, <1>6, <2>1
  <2> QED
    BY <1>9, <2>4, <2>5, <2>6
<1>11. CASE n = W /\ QuietRms(previous_rms, c)
  <2>1. window # <<>> /\ n > 0
    BY <1>4, <1>6, <1>11
  <2>2. CASE id + n <= p
    <3>1. IsLow(rootMeanSquareOfAmpere(window), c)
      BY <1>2, <1>5, <1>6, <2>1, <2>2, WindowAtRise DEF c
    <3>2. ~detectEvent(window) /\ QuietRms(RmsWith(window), c)
      BY <1>3, <1>11, <3>1, RiseIsDetected
    <3> QED
      BY <1>9, <1>11, <2>1, <2>2, <3>2
  <2>3. CASE p < id + n
    <3>1. IsHigh(rootMeanSquareOfAmpere(window), c)
      BY <1>2, <1>5, <1>6, <2>1, <2>3, WindowAtRise DEF c
    <3>2. detectEvent(window)
      BY <1>3, <1>11, <3>1, RiseIsDetected
    <3>3. DetectsEvent(window, id)
      BY <1>1, <1>8, <2>1, <3>2 DEF DetectorWorks, NothingToDetect,
         ReportsEvent, DetectsNothing
    <3>4. id \in detections'
      BY <3>3 DEF DetectsEvent
    <3> QED
      BY <1>5, <1>11, <2>3, <3>4 DEF IsFound, W
  <2>4. id + n \in Int /\ p \in Int
    BY <1>3, <1>5, <1>6
  <2> QED
    BY <2>2, <2>3, <2>4
<1> QED
  BY <1>10, <1>11 DEF IsAhead, n, c, W

\* Before the first step, every rise is ahead
LEMMA RiseInitially == Init => RiseInv
<1> SUFFICES ASSUME Init
             PROVE  RiseInv
  OBVIOUS
<1>1. power \in PowerCurves /\ popped = 0 /\ ~detected_an_event
      /\ previous_rms = <<>> /\ read_infos[Detector] = FirstRequest
  BY DEF Init, DetectorInit, FirstRequest, Detector
<1>2. StreamLength \in Nat
  BY <1>1, StreamPoints
<1>3. ASSUME NEW p, IsSought(p)
      PROVE  IsAhead(p)
  <2>1. p \in Nat
    BY <1>1, <1>3, RisePoints DEF IsSought
  <2> QED
    BY <1>1, <2>1, FirstRequestIs DEF IsAhead
<1> QED
  BY <1>1, <1>2, <1>3 DEF RiseInv

\* Every step leaves a rise ahead or finds it
LEMMA RiseKept ==
  ASSUME FirstWindowHoldsRms, EventCoversWindow, AnswerableInv, RiseInv,
         [Next]_vars
  PROVE  RiseInv'
<1>1. power' = power /\ slots_throw' = slots_throw
  BY HaltKeeps DEF Next, Loop, ReadBufferForNextRun, ExecuteWorkerOnce,
      WorkerThrows, Halts, NextWorker, FreeUnusedBuffer, vars, fixedVars
<1>2. popped' <= StreamLength
  <2>1. popped \in Nat /\ StreamLength \in Nat /\ popped <= StreamLength
    BY StreamPoints DEF RiseInv, AnswerableInv, BufferInv, TypeOK
  <2>2. ASSUME ReadBufferForNextRun
        PROVE  popped' <= StreamLength
    <3>1. PICK got \in 0..dataPointsNeededForNextRun :
            popped' = popped + got /\ got <= StreamLength - popped
      BY <2>2 DEF ReadBufferForNextRun, Pops
    <3> QED
      BY <2>1, <3>1
  <2>3. ReadBufferForNextRun \/ popped' = popped
    BY HaltKeeps DEF Next, Loop, ReadBufferForNextRun, ExecuteWorkerOnce,
        WorkerThrows, Halts, NextWorker, FreeUnusedBuffer, vars, bufferVars,
        fixedVars
  <2> QED
    BY <2>1, <2>2, <2>3
<1> SUFFICES ASSUME ~slots_throw, NEW p \in DOMAIN power, IsSought(p),
                    IsFound(p) \/ IsAhead(p)
             PROVE  IsFound(p)' \/ IsAhead(p)'
  BY <1>1, <1>2 DEF RiseInv, IsSought, RisesAt, StreamLength
<1>3. detections \subseteq detections'
  BY HaltKeeps DEF Next, Loop, ReadBufferForNextRun, ExecuteWorkerOnce,
      WorkerThrows, Halts, NextWorker, FreeUnusedBuffer, vars, detectorVars,
      DetectorWorks, NothingToDetect, ReportsEvent, DetectsEvent,
      DetectsNothing, ReportThrows, fixedVars
<1>4. CASE IsFound(p)
  BY <1>3, <1>4 DEF IsFound
<1>5. CASE IsAhead(p)
  <2>1. ASSUME UNCHANGED <<detected_an_event, previous_rms>>,
               read_infos'[Detector] = read_infos[Detector]
        PROVE  IsAhead(p)'
    BY <1>1, <1>5, <2>1 DEF IsAhead, Square
  <2>2. CASE ReadBufferForNextRun \/ Halts \/ NextWorker
             \/ FreeUnusedBuffer \/ UNCHANGED vars
    BY <2>1, <2>2, HaltKeeps DEF ReadBufferForNextRun, NextWorker,
        FreeUnusedBuffer, detectorVars, vars, fixedVars
  <2>3. CASE ExecuteWorkerOnce(Metrics)
    BY <2>1, <2>3, MetricsStep DEF detectorVars, AnswerableInv
  <2>4. CASE WorkerThrows
    BY <1>5, <2>4 DEF WorkerThrows, ReportThrows, IsEventData, IsAhead
  <2>5. CASE ExecuteWorkerOnce(Detector)
    BY <1>5, <2>5, SearchFindsRise
  <2> QED
    BY <2>2, <2>3, <2>4, <2>5 DEF Next, Loop, Halts, Workers
<1> QED
  BY <1>4, <1>5

\* The loop ends only when the stream does: a read that brings all that is
\* asked for brings the next window of the metric provider
FetchedInv ==
  ~slots_throw =>
    /\ read_infos[Metrics].next >= 0
    /\ pc = "working" /\ ~one_worker_was_executed =>
         \/ StreamLength - popped <= QueueCapacity
         \/ worker_index \in Workers
              /\ read_infos[Metrics].next + read_infos[Metrics].read <= popped
    /\ pc = "ended" => StreamLength - popped <= QueueCapacity

\* Nothing has ended in the beginning
LEMMA FetchedInitially == Init => FetchedInv
<1>1. DefaultMeta.sample_rate \in Nat
  BY DetectorAssumption, MetaType
<1> QED
  BY <1>1 DEF Init, FetchedInv, nextPeriod, NextReadInfos, Metrics

\* Every round of the loop has brought a window, or all there was
LEMMA FetchedKept ==
  ASSUME AnswerableInv, RiseInv, FetchedInv, [Next]_vars
  PROVE  FetchedInv'
<1>1. UNCHANGED <<slots_throw, power>>
  BY HaltKeeps DEF Next, Loop, ReadBufferForNextRun, ExecuteWorkerOnce,
      WorkerThrows, Halts, NextWorker, FreeUnusedBuffer, vars, fixedVars
<1> DEFINE wanted == read_infos[Metrics].next + read_infos[Metrics].read
<1> SUFFICES ASSUME ~slots_throw
             PROVE  FetchedInv'
  BY <1>1 DEF FetchedInv
<1>2. /\ BufferInv /\ popped \in Int /\ worker_index \in 1..3
      /\ read_infos[Metrics].next \in Int /\ read_infos[Metrics].next >= 0
      /\ read_infos[Metrics].read \in Nat /\ StreamLength \in Nat
  BY StreamPoints
  DEF AnswerableInv, BufferInv, TypeOK, Infos, Workers, FetchedInv, RiseInv
<1>3. CASE ReadBufferForNextRun
  <2>1. PICK got \in 0..dataPointsNeededForNextRun :
          /\ popped' = popped + got
          /\ \/ got = dataPointsNeededForNextRun
             \/ StreamLength - popped - got <= QueueCapacity
    BY <1>3 DEF ReadBufferForNextRun, Pops
  <2>2. /\ pc' = "working" /\ worker_index' \in Workers
        /\ UNCHANGED read_infos
    BY <1>3 DEF ReadBufferForNextRun, Workers
  <2>3. wanted <= popped + dataPointsNeededForNextRun
        /\ dataPointsNeededForNextRun \in Int
    BY <1>2, NeededIs DEF Workers
  <2>4. wanted <= popped' \/ StreamLength - popped' <= QueueCapacity
    BY <1>2, <2>1, <2>3, DistributorAssumption
  <2> QED
    BY <1>1, <1>2, <2>2, <2>4 DEF FetchedInv, StreamLength
<1>4. CASE ExecuteWorkerOnce(Detector)
  <2>1. /\ pc' = "working" /\ one_worker_was_executed' = TRUE
        /\ read_infos'[Metrics] = read_infos[Metrics]
    BY <1>2, <1>4, DetectorAnswerIs DEF ExecuteWorkerOnce
  <2> QED
    BY <1>2, <2>1 DEF FetchedInv
<1>5. CASE ExecuteWorkerOnce(Metrics)
  <2>1. /\ pc' = "working" /\ one_worker_was_executed' = TRUE
        /\ read_infos'[Metrics] = nextPeriod(Meta, WindowId(Metrics))
    BY <1>2, <1>5, MetricsStep DEF ExecuteWorkerOnce
  <2>2. WindowId(Metrics) \in Nat
    BY <1>2, <1>5, MetricsStep, WindowEnds DEF Workers
  <2>3. read_infos'[Metrics].next >= 0
    BY <2>1, <2>2, MetaIsMeta DEF nextPeriod, NextReadInfos
  <2> QED
    BY <2>1, <2>3 DEF FetchedInv
<1>6. CASE WorkerThrows \/ Halts
  BY <1>6, <1>2, HaltKeeps DEF WorkerThrows, FetchedInv, fixedVars
<1>7. CASE NextWorker
  <2>1. /\ pc = "working" /\ pc' = "working" /\ worker_index \in Workers
        /\ ~WindowInBuffer(worker_index)
        /\ worker_index' = worker_index + 1
        /\ UNCHANGED <<popped, read_infos, one_worker_was_executed>>
    BY <1>7 DEF NextWorker, bufferVars
  <2>2. CASE worker_index = Detector
    <3>1. worker_index' \in Workers
      BY <2>1, <2>2 DEF Workers, Detector, Metrics
    <3> QED
      BY <1>1, <2>1, <2>2, <3>1 DEF FetchedInv, StreamLength
  <2>3. CASE worker_index = Metrics
    <3>1. current_global_buffer_pos <= read_infos[Metrics].next
      BY <1>2, AnsweredWindow DEF Workers, Greater
    <3>2. ~(wanted <= popped)
      BY <1>2, <2>1, <2>3, <3>1
      DEF WindowInBuffer, getIndexInLocalBufferforRead, BufferInv,
          BufferIsStream, TypeOK
    <3> QED
      BY <1>1, <2>1, <3>2 DEF FetchedInv, StreamLength
  <2> QED
    BY <2>1, <2>2, <2>3 DEF Workers
<1>8. CASE FreeUnusedBuffer
  <2>1. /\ pc = "working" /\ worker_index \notin Workers
        /\ pc' = IF one_worker_was_executed THEN "reading" ELSE "ended"
        /\ UNCHANGED <<popped, read_infos>>
    BY <1>8 DEF FreeUnusedBuffer
  <2> QED
    BY <1>1, <2>1 DEF FetchedInv, StreamLength
<1>9. CASE UNCHANGED vars
  BY <1>1, <1>9 DEF vars, fixedVars, loopVars, bufferVars, FetchedInv,
      StreamLength
<1> QED
  BY <1>3, <1>4, <1>5, <1>6, <1>7, <1>8, <1>9 DEF Next, Loop, Halts, Workers

\* When the loop has ended, what was ahead would be in what was read
LEMMA RiseIsReported ==
  ASSUME EventCoversWindow, AnswerableInv, PassedInv, AwaitedInv, RiseInv,
         FetchedInv
  PROVE  SwitchOnIsReported
<1> SUFFICES ASSUME pc = "ended", ~slots_throw, NEW p \in DOMAIN power,
                    IsSought(p),
                    p + Period + Of + QueueCapacity <= StreamLength
             PROVE  \E e \in reported : p \in Range(e.before_event \o e.event)
  BY DEF SwitchOnIsReported, IsSought
<1> DEFINE W == minDataPointsNeeded(Meta)
           next == read_infos[Detector].next
           read == read_infos[Detector].read
<1>1. /\ W \in Nat /\ Period \in Nat /\ Before \in Nat /\ Of \in Nat
      /\ Period <= Before /\ W <= Period + Of
      /\ p \in Nat /\ StreamLength \in Nat /\ QueueCapacity \in Nat
      /\ p + Period >= Before + W /\ p >= minDataPointsNeeded(DefaultMeta)
  BY MetaIsMeta, RisePoints, StreamPoints, DistributorAssumption
  DEF EventCoversWindow, IsSought, RiseInv
<1>2. /\ popped \in Nat /\ StreamLength - popped <= QueueCapacity
      /\ next \in Int /\ read \in Nat
  BY DEF FetchedInv, AnswerableInv, BufferInv, TypeOK, Workers, Infos
<1> HIDE DEF W, next, read
<1>3. p + Period + Of <= popped
  BY <1>1, <1>2
<1>4. popped < Greater(next, 0) + read
  <2>1. popped < Greater(next, current_global_buffer_pos) + read
    BY DEF PassedInv, Workers, next, read
  <2>2. current_global_buffer_pos <= Greater(next, 0)
        /\ current_global_buffer_pos \in Nat
    BY AnsweredWindow
    DEF Workers, next, AnswerableInv, BufferInv, TypeOK
  <2> QED
    BY <1>2, <2>1, <2>2 DEF Greater
<1>5. ~IsAhead(p)
  <2> SUFFICES ASSUME IsAhead(p)
               PROVE  FALSE
    OBVIOUS
  <2>1. 0 <= next /\ next <= p
    BY DEF IsAhead, next
  <2>2. \/ next = 0 /\ read = minDataPointsNeeded(DefaultMeta)
        \/ read = W
    BY FirstRequestIs DEF IsAhead, next, read, W
  <2>3. Greater(next, 0) = next
    BY <1>2, <2>1 DEF Greater
  <2> QED
    BY <1>1, <1>2, <1>3, <1>4, <2>1, <2>2, <2>3
<1>6. PICK id \in detections : id <= p /\ p < id + W
  BY <1>5 DEF RiseInv, IsFound, W
<1>7. id \in Int /\ (id + Period < Before \/ IsReported(id) \/ IsAwaited(id))
  BY DEF AwaitedInv
<1>8. ~(id + Period < Before)
  BY <1>1, <1>6, <1>7
<1>9. ~IsAwaited(id)
  <2> SUFFICES ASSUME IsAwaited(id)
               PROVE  FALSE
    OBVIOUS
  <2>1. next = id - Before + Period /\ read = Before + Of
    BY DEF IsAwaited, next, read
  <2>2. Greater(next, 0) = next
    BY <1>1, <1>2, <1>7, <1>8, <2>1 DEF Greater
  <2> QED
    BY <1>1, <1>2, <1>3, <1>4, <1>6, <1>7, <2>1, <2>2
<1>10. p \in id + Period - Before..id + Period + Of - 1
  BY <1>1, <1>6, <1>7
<1> QED
  BY <1>7, <1>8, <1>9, <1>10 DEF IsReported

(***************************************************************************)
(* A load that is switched on is reported, in every configuration that     *)
(* records events, has the initial root mean squares in its first window   *)
(* and cuts an event so that it covers the window it is detected in:       *)
(* wherever the windows fall, although a rise may be the last point of one *)
(* only, however the reads are cut, whatever the power before and after it.*)
(***************************************************************************)
THEOREM RisesAreReported ==
  ASSUME EventsAreRecorded, FirstWindowHoldsRms, EventCoversWindow
  PROVE  Spec => []SwitchOnIsReported
<1>1. Init => AwaitedInv /\ RiseInv /\ FetchedInv
  BY AwaitedInitially, RiseInitially, FetchedInitially
<1>2. AnswerableInv /\ SearchInv /\ AwaitedInv /\ [Next]_vars => AwaitedInv'
  BY AwaitedKept
<1>3. AnswerableInv /\ RiseInv /\ [Next]_vars => RiseInv'
  BY RiseKept
<1>4. AnswerableInv /\ RiseInv /\ FetchedInv /\ [Next]_vars => FetchedInv'
  BY FetchedKept
<1>5. AnswerableInv /\ PassedInv /\ AwaitedInv /\ RiseInv /\ FetchedInv
        => SwitchOnIsReported
  BY RiseIsReported
<1> QED
  BY <1>1, <1>2, <1>3, <1>4, <1>5, SearchInvHolds, PassedInvHolds, PTL
  DEF Spec
=============================================================================
