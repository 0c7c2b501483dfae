--------------------- MODULE BluedHdf5InputSourceProofs ---------------------
(***************************************************************************)
(* What the reader of a recorded data set guarantees for every file, every *)
(* buffer and every queue.                                                 *)
(***************************************************************************)
EXTENDS BluedHdf5InputSource, SequenceTheorems, TLAPS

Writing == runner_pc \in {"adding", "syncing"}

(***************************************************************************)
(* The numbers and sequences; a chunk lies in the file.                    *)
(***************************************************************************)
SizesInv ==
  /\ data_set_size \in Nat /\ current_offset \in Nat
  /\ read_count \in Nat /\ chunk_left \in Nat
  /\ current_offset <= data_set_size
  /\ Writing => current_offset + read_count <= data_set_size
  /\ buffered \in Seq(Nat) /\ consumed \in Seq(Nat)

(***************************************************************************)
(* Unless the stream has ended, what was written reaches up to the chunk   *)
(* that is being written and what is through of it.  The stream ends with  *)
(* the reading thread or with stopNow.                                     *)
(***************************************************************************)
PositionInv ==
  /\ written \in Seq(Nat)
  /\ \A k \in 1..Len(written) : written[k] = k - 1
  /\ Len(written) <= data_set_size
  /\ ~closed /\ Writing =>
       Len(written) = current_offset + read_count - chunk_left
  /\ ~closed /\ ~Writing => Len(written) = current_offset
  /\ ~closed /\ runner_pc = "syncing" => chunk_left = 0
  /\ closed => runner_pc = "returned" \/ main_pc \in {"joining", "stopped",
                                                      "terminated"}

(***************************************************************************)
(* Before stopNow, continue_reading becomes false with the last chunk.     *)
(***************************************************************************)
LastInv ==
  /\ main_pc = "starting" <=> runner_pc = "none"
  /\ main_pc = "starting" => current_offset = 0
  /\ main_pc \in {"starting", "started", "reading"} =>
       /\ ~continue_reading /\ Writing =>
            current_offset + read_count = data_set_size
       /\ ~continue_reading /\ ~Writing => current_offset = data_set_size
       /\ runner_pc = "ending" => ~continue_reading
       /\ runner_pc = "returned" => Len(written) = data_set_size

SourceInv == SizesInv /\ PositionInv /\ LastInv

-----------------------------------------------------------------------------
\* The invariant holds before the source is started
LEMMA SourceInvInit == Init => SourceInv
<1> SUFFICES ASSUME Init
             PROVE  SourceInv
  OBVIOUS
<1>1. written = <<>> /\ buffered = <<>> /\ consumed = <<>> /\ ~closed
  BY DEF Init, Queue!Init
<1>2. data_set_size \in Nat
  BY SourceAssumption DEF Init
<1>3. SizesInv
  BY <1>1, <1>2 DEF Init, SizesInv, Writing
<1>4. PositionInv
  BY <1>1, <1>2 DEF Init, PositionInv, Writing
<1>5. LastInv
  BY DEF Init, LastInv, Writing
<1> QED
  BY <1>3, <1>4, <1>5 DEF SourceInv

\* The steps of the main thread
LEMMA MainKeepsInv ==
  ASSUME SourceInv, MainStarts \/ TakePoints \/ StopNow \/ MainStops
  PROVE  SourceInv'
<1> USE DEF SourceInv, SizesInv, PositionInv, LastInv, Writing, fileVars,
            syncVars, queueVars
<1>1. CASE StartReading
  BY <1>1 DEF StartReading
<1>2. CASE SetStartTime
  BY <1>2 DEF SetStartTime
<1>3. CASE TakePoints
  <2>1. PICK n \in 1..Len(buffered) : Queue!Take(n)
    BY <1>3 DEF TakePoints
  <2>2. \A i \in 1..Len(buffered) : buffered[i] \in Nat
    BY ElementOfSeq
  <2>3. /\ SubSeq(buffered, 1, n) \in Seq(Nat)
        /\ SubSeq(buffered, n + 1, Len(buffered)) \in Seq(Nat)
    BY <2>2, SubSeqProperties
  <2>4. buffered' \in Seq(Nat) /\ consumed' \in Seq(Nat)
    BY <2>1, <2>3, ConcatProperties DEF Queue!Take
  <2>5. closed' = closed
    BY <2>1 DEF Queue!Take
  <2> QED
    BY <1>3, <2>4, <2>5 DEF TakePoints
<1>4. CASE StopNow
  BY <1>4 DEF StopNow
<1>5. CASE DiscardRestOfStream
  BY <1>5 DEF DiscardRestOfStream, Queue!Abandon
<1>6. CASE Join
  BY <1>6 DEF Join
<1> QED
  BY <1>1, <1>2, <1>3, <1>4, <1>5, <1>6 DEF MainStarts, MainStops

\* What addDataPoints appends is what comes next in the file
LEMMA ChunkKeepsInv ==
  ASSUME SourceInv, AddDataPoints
  PROVE  SourceInv'
<1> DEFINE n     == Lesser(chunk_left, Capacity - Len(buffered))
           first == current_offset + read_count - chunk_left
           part  == [i \in 1..n |-> first + i - 1]
           sent  == Len(consumed) + Len(buffered)
<1>1. /\ n \in Nat /\ 0 < n /\ n <= chunk_left
  BY SourceAssumption DEF AddDataPoints, Lesser, SourceInv, SizesInv
<1>2. ~closed /\ ~closed' /\ Writing /\ Writing'
  BY DEF AddDataPoints, Queue!Send, Writing
<1>3. first = Len(written) /\ first \in Nat
  BY <1>2 DEF SourceInv, PositionInv, SizesInv
<1>4. part \in Seq(Nat) /\ Len(part) = n /\ \A i \in 1..n : part[i] \in Nat
  BY <1>1, <1>3
<1>5. written' = written \o part
  BY DEF AddDataPoints
<1>6. /\ written' \in Seq(Nat) /\ Len(written') = Len(written) + n
      /\ \A k \in 1..Len(written') :
           written'[k] = IF k <= Len(written) THEN written[k]
                         ELSE part[k - Len(written)]
  <2> HIDE DEF n, part
  <2>1. written \in Seq(Nat)
    BY DEF SourceInv, PositionInv
  <2>2. /\ written \o part \in Seq(Nat)
        /\ Len(written \o part) = Len(written) + Len(part)
        /\ \A k \in 1..Len(written) + Len(part) :
             (written \o part)[k] = IF k <= Len(written) THEN written[k]
                                    ELSE part[k - Len(written)]
    BY <1>4, <2>1, ConcatProperties, Zenon
  <2> QED
    BY <1>4, <1>5, <2>2
<1>7. buffered' \in Seq(Nat) /\ consumed' = consumed
  <2>1. buffered' = buffered \o [i \in 1..n |-> sent + i]
    BY DEF AddDataPoints, Queue!Send
  <2>2. sent \in Nat
    BY DEF SourceInv, SizesInv
  <2>3. [i \in 1..n |-> sent + i] \in Seq(Nat)
    BY <1>1, <2>2
  <2> QED
    BY <2>1, <2>3, ConcatProperties DEF AddDataPoints, Queue!Send, SourceInv,
                                        SizesInv
<1>8. /\ UNCHANGED <<data_set_size, current_offset, read_count,
                     continue_reading, runner_pc, main_pc>>
      /\ chunk_left' = chunk_left - n
      /\ runner_pc = "adding"
  BY DEF AddDataPoints
<1>9. SizesInv'
  BY <1>1, <1>7, <1>8 DEF SourceInv, SizesInv, Writing
<1>10. PositionInv'
  <2> HIDE DEF n, first
  <2>1. \A k \in 1..Len(written') : written'[k] = k - 1
    <3> SUFFICES ASSUME NEW k \in 1..Len(written')
                 PROVE  written'[k] = k - 1
      OBVIOUS
    <3> HIDE DEF part
    <3>1. CASE k <= Len(written)
      BY <1>6, <3>1 DEF SourceInv, PositionInv
    <3>2. CASE ~(k <= Len(written))
      <4>1. k - Len(written) \in 1..n
        BY <1>1, <1>6, <3>2 DEF SourceInv, PositionInv
      <4>2. part[k - Len(written)] = first + (k - Len(written)) - 1
        BY <4>1 DEF part
      <4> QED
        BY <1>3, <1>6, <3>2, <4>2 DEF SourceInv, PositionInv
    <3> QED
      BY <3>1, <3>2
  <2>2. Len(written') = current_offset + read_count - chunk_left'
    <3>1. Len(written') = first + n
      BY <1>3, <1>6
    <3> QED
      BY <1>1, <1>8, <3>1 DEF SourceInv, SizesInv, first
  <2>3. Len(written') <= data_set_size
    BY <1>1, <1>2, <1>8, <2>2 DEF SourceInv, SizesInv
  <2> QED
    BY <1>2, <1>6, <1>8, <2>1, <2>2, <2>3 DEF PositionInv, Writing
<1>11. LastInv'
  BY <1>8 DEF SourceInv, LastInv, Writing
<1> QED
  BY <1>9, <1>10, <1>11 DEF SourceInv

\* The other steps of the runner
LEMMA RunnerKeepsInv ==
  ASSUME SourceInv, Runner
  PROVE  SourceInv'
<1> USE DEF SourceInv, SizesInv, PositionInv, LastInv, Writing, fileVars,
            syncVars, queueVars
<1>1. CASE OpenFile
  BY <1>1 DEF OpenFile
<1>2. CASE OpenThrows
  BY <1>2 DEF OpenThrows
<1>3. CASE TestContinueReading
  BY <1>3 DEF TestContinueReading
<1>4. CASE ReadOnce
  <2>1. CASE ~continue_reading
    BY <1>4, <2>1 DEF ReadOnce
  <2>2. CASE continue_reading /\ LastRead
    <3>1. /\ read_count' = data_set_size - current_offset
          /\ ~continue_reading'
      BY <1>4, <2>2 DEF ReadOnce, ReadCount
    <3> QED
      BY <1>4, <2>2, <3>1 DEF ReadOnce, ReadCount
  <2>3. CASE continue_reading /\ ~LastRead
    <3>1. /\ read_count' = BufferSize
          /\ continue_reading'
          /\ BufferSize <= data_set_size - current_offset
      <4>1. continue_reading' = ~LastRead /\ read_count' = ReadCount
        BY <1>4, <2>3, Zenon DEF ReadOnce
      <4>2. continue_reading' /\ read_count' = BufferSize
        BY <2>3, <4>1, Zenon DEF ReadCount
      <4>3. BufferSize <= data_set_size - current_offset
        BY <2>3, SourceAssumption DEF LastRead
      <4> QED
        BY <4>2, <4>3
    <3>2. /\ runner_pc' = "adding" /\ chunk_left' = BufferSize
          /\ UNCHANGED <<data_set_size, current_offset, written, syncVars,
                         queueVars, start_time, main_pc>>
      BY <1>4, <2>3 DEF ReadOnce, ReadCount
    <3>3. runner_pc = "reading" /\ BufferSize \in Nat
      BY <1>4, SourceAssumption DEF ReadOnce
    <3>4. SizesInv'
      BY <3>1, <3>2, <3>3
    <3>5. PositionInv'
      BY <3>1, <3>2, <3>3
    <3>6. LastInv'
      BY <3>1, <3>2, <3>3
    <3> QED
      BY <3>4, <3>5, <3>6
  <2> QED
    BY <2>1, <2>2, <2>3
<1>5. CASE AddReturns
  BY <1>5 DEF AddReturns
<1>6. CASE SyncTimePoint
  BY <1>6 DEF SyncTimePoint, NextOffset
<1>7. CASE NotifyStreamEnd
  BY <1>7 DEF NotifyStreamEnd, Queue!Close
<1> QED
  BY <1>1, <1>2, <1>3, <1>4, <1>5, <1>6, <1>7, ChunkKeepsInv DEF Runner

\* ... and always
LEMMA SourceInvHolds == Spec => []SourceInv
<1>1. SourceInv /\ [Next]_vars => SourceInv'
  <2>1. CASE UNCHANGED vars
    BY <2>1 DEF vars, fileVars, syncVars, queueVars, SourceInv, SizesInv,
                PositionInv, LastInv, Writing
  <2>2. CASE SourceInv /\ Next
    BY <2>2, MainKeepsInv, RunnerKeepsInv DEF Next
  <2> QED
    BY <2>1, <2>2
<1> QED
  BY <1>1, SourceInvInit, PTL DEF Spec

(***************************************************************************)
(* The stream is the file: readOnce and addDataPoints pass on every point  *)
(* of it in its place, and the stream ends by itself only after the last   *)
(* one, for every size of the file, of the buffer and of the queue.        *)
(***************************************************************************)
THEOREM FileIsStreamed == Spec => []StreamIsFile
<1>1. SourceInv => StreamIsFile
  BY DEF SourceInv, SizesInv, PositionInv, LastInv, Writing, StreamIsFile
<1> QED
  BY <1>1, SourceInvHolds, PTL

-----------------------------------------------------------------------------
(* Time.                                                                   *)

(***************************************************************************)
(* The time point that is synchronised: its package is the one before the  *)
(* chunk, its time that of the last point of the chunk, but for the error  *)
(* of the float.                                                           *)
(***************************************************************************)
SyncedAt(offset, n) ==
  /\ offset + n <= data_set_size
  /\ synced_package_id = offset - 1
  /\ packet_time \in TimesRecorded(offset + n - 1)

TimeInv ==
  /\ start_time \in {0, NoTime}
  /\ read_count <= BufferSize
  /\ packet_time # NoTime =>
       \E offset \in Nat, n \in 1..BufferSize : SyncedAt(offset, n)

\* A number of points in microseconds
LEMMA Products ==
  ASSUME NEW n \in Nat
  PROVE  n * Second \in Nat
BY SourceAssumption

\* Rounding: the time of a sum is that of the parts, or a microsecond more
LEMMA Rounding ==
  ASSUME NEW m \in Nat, NEW n \in Nat
  PROVE  /\ Microseconds(n) \in Nat
         /\ Microseconds(m + n) \in Microseconds(m) + Microseconds(n)
                                 .. Microseconds(m) + Microseconds(n) + 1
<1> DEFINE a == m * Second
           b == n * Second
<1>1. a \in Nat /\ b \in Nat
  BY Products
<1>2. (m + n) * Second = a + b
  BY SourceAssumption
<1>3. /\ a \div SampleRate \in Nat /\ b \div SampleRate \in Nat
      /\ (a + b) \div SampleRate \in a \div SampleRate + b \div SampleRate
                               .. a \div SampleRate + b \div SampleRate + 1
  <2> HIDE DEF a, b
  <2> QED
    BY <1>1, SourceAssumption
<1> QED
  BY <1>2, <1>3 DEF Microseconds

\* A duration is a whole number, also a negative one
LEMMA WholeMicroseconds ==
  ASSUME NEW n \in Int
  PROVE  Microseconds(n) \in Int
<1>1. CASE n >= 0
  BY <1>1, Rounding
<1>2. CASE ~(n >= 0)
  <2>1. -n * Second \in Nat
    <3>1. (-n) * Second \in Nat
      BY <1>2, Products
    <3> QED
      BY <3>1, SourceAssumption
  <2>2. (-n * Second) \div SampleRate \in Int
    BY <2>1, SourceAssumption
  <2> QED
    BY <1>2, <2>2 DEF Microseconds
<1> QED
  BY <1>1, <1>2

\* The times that may be recorded for a point
LEMMA FloatTimes ==
  ASSUME NEW position \in Nat, NEW t \in TimesRecorded(position)
  PROVE  /\ t \in Nat
         /\ t - Microseconds(position) \in -FloatError..FloatError
<1>1. Microseconds(position) \in Nat
  BY Rounding
<1> QED
  BY <1>1, SourceAssumption DEF TimesRecorded

\* No point has a time in the beginning
LEMMA TimeInvInit == Init => TimeInv
BY SourceAssumption DEF Init, TimeInv

\* Every step keeps what the noted times are
LEMMA TimeInvNext ==
  ASSUME SourceInv, TimeInv, Next
  PROVE  TimeInv'
<1>1. CASE MainStarts
  BY <1>1 DEF MainStarts, StartReading, SetStartTime, TimeInv, SyncedAt,
              fileVars, syncVars
<1>2. CASE TakePoints \/ StopNow \/ MainStops
  BY <1>2 DEF TakePoints, StopNow, MainStops, DiscardRestOfStream, Join,
              TimeInv, SyncedAt, fileVars, syncVars
<1>3. CASE OpenFile \/ OpenThrows \/ TestContinueReading \/ AddReturns
           \/ NotifyStreamEnd
  BY <1>3 DEF OpenFile, OpenThrows, TestContinueReading, AddReturns,
              NotifyStreamEnd, TimeInv, SyncedAt, fileVars, syncVars
<1>4. CASE AddDataPoints
  BY <1>4 DEF AddDataPoints, TimeInv, SyncedAt, syncVars
<1>5. CASE ReadOnce
  <2>1. read_count' <= BufferSize
    BY <1>5, SourceAssumption DEF ReadOnce, ReadCount, LastRead, SourceInv,
                                  SizesInv, TimeInv
  <2> QED
    BY <1>5, <2>1 DEF ReadOnce, TimeInv, SyncedAt, syncVars
<1>6. CASE SyncTimePoint /\ ~(read_count > 0)
  BY <1>6 DEF SyncTimePoint, TimeInv, SyncedAt, syncVars
<1>7. CASE SyncTimePoint /\ read_count > 0
  <2>1. /\ UNCHANGED <<start_time, read_count, data_set_size>>
        /\ synced_package_id' = current_offset - 1
        /\ \E t \in TimesRecorded(current_offset + read_count - 1) :
             packet_time' = Plus(start_time, t)
    BY <1>7, Zenon DEF SyncTimePoint, SyncedId
  <2>2. /\ current_offset \in Nat /\ read_count \in 1..BufferSize
        /\ current_offset + read_count <= data_set_size
    BY <1>7, SourceAssumption DEF SourceInv, SizesInv, Writing, TimeInv,
                                  SyncTimePoint
  <2>3. CASE start_time = 0
    <3>1. PICK t \in TimesRecorded(current_offset + read_count - 1) :
            packet_time' = Plus(start_time, t)
      BY <2>1
    <3>2. t \in Int
      BY <3>1, <2>2, FloatTimes
    <3>3. packet_time' \in TimesRecorded(current_offset + read_count - 1)
      BY <3>1, <2>3, <3>2 DEF Plus, NoTime
    <3>4. \E offset \in Nat, n \in 1..BufferSize : SyncedAt(offset, n)'
      BY <2>1, <2>2, <3>3 DEF SyncedAt
    <3> QED
      BY <2>1, <2>2, <2>3, <3>4 DEF TimeInv
  <2>4. CASE start_time = NoTime
    BY <2>1, <2>2, <2>4 DEF Plus, TimeInv
  <2> QED
    BY <2>3, <2>4 DEF TimeInv
<1> QED
  BY <1>1, <1>2, <1>3, <1>4, <1>5, <1>6, <1>7 DEF Next, Runner

\* How far the time of a point would be off without the float
LEMMA ExactTimeFromSync ==
  ASSUME NEW offset \in Nat, NEW n \in 1..BufferSize, NEW id \in Nat,
         NEW time,
         time = Microseconds(offset + n - 1) + Microseconds(id - (offset - 1))
  PROVE  time - Microseconds(id) \in -1..Microseconds(BufferSize) + 2
<1>1. /\ BufferSize \in Nat /\ n \in Nat /\ id \in Nat /\ offset \in Nat
      /\ n > 0 /\ n <= BufferSize
  BY SourceAssumption
<1>2. time = Microseconds(offset + n - 1) + Microseconds(id - (offset - 1))
  OBVIOUS
<1>3. /\ Microseconds(n) \in Nat
      /\ Microseconds(BufferSize) \in Nat
      /\ Microseconds(n) <= Microseconds(BufferSize)
  <2>1. BufferSize = (BufferSize - n) + n /\ BufferSize - n \in Nat
    BY <1>1
  <2>2. /\ Microseconds(BufferSize - n) \in Nat /\ Microseconds(n) \in Nat
        /\ Microseconds(BufferSize) \in Nat
    BY <1>1, <2>1, Rounding
  <2>3. Microseconds((BufferSize - n) + n) >=
          Microseconds(BufferSize - n) + Microseconds(n)
    BY <1>1, <2>1, <2>2, Rounding
  <2> QED
    BY <2>1, <2>2, <2>3
<1>4. CASE id >= offset - 1
  <2> DEFINE x == id - (offset - 1)
             y == offset + n - 1
  <2>1. x \in Nat /\ y \in Nat /\ y + x = id + n
    BY <1>1, <1>4
  <2>2. Microseconds(x) \in Nat /\ Microseconds(y) \in Nat
        /\ Microseconds(id) \in Nat
    BY <1>1, <2>1, Rounding
  <2>3. /\ Microseconds(y + x) \in Microseconds(y) + Microseconds(x)
                                 .. Microseconds(y) + Microseconds(x) + 1
        /\ Microseconds(id + n) \in Microseconds(id) + Microseconds(n)
                                 .. Microseconds(id) + Microseconds(n) + 1
    BY <1>1, <2>1, Rounding
  <2> HIDE DEF x, y
  <2>4. Microseconds(y) + Microseconds(x) - Microseconds(id)
          \in -1..Microseconds(n) + 1
    BY <1>3, <2>1, <2>2, <2>3
  <2>5. time - Microseconds(id)
          = Microseconds(y) + Microseconds(x) - Microseconds(id)
    BY <1>2, <2>2 DEF x, y
  <2> QED
    BY <1>3, <2>2, <2>4, <2>5
<1>5. CASE ~(id >= offset - 1)
  <2> DEFINE x == (offset - 1) - id
             z == offset - 1
             y == z + n
  <2>1. /\ x \in Nat /\ x > 0 /\ z \in Nat /\ y \in Nat /\ x + id = z
        /\ y = offset + n - 1
        /\ id - (offset - 1) = -x
    BY <1>1, <1>5
  <2>2. /\ Microseconds(x) \in Nat /\ Microseconds(y) \in Nat
        /\ Microseconds(id) \in Nat /\ Microseconds(z) \in Nat
    BY <1>1, <2>1, Rounding
  <2>3. /\ Microseconds(x + id) \in Microseconds(x) + Microseconds(id)
                                  .. Microseconds(x) + Microseconds(id) + 1
        /\ Microseconds(z + n) \in Microseconds(z) + Microseconds(n)
                                 .. Microseconds(z) + Microseconds(n) + 1
    BY <1>1, <2>1, Rounding
  <2>4. Microseconds(id - (offset - 1)) = -Microseconds(x)
    <3> HIDE DEF x
    <3>1. Microseconds(-x) = -((-((-x) * Second)) \div SampleRate)
      BY <2>1, SourceAssumption DEF Microseconds
    <3>2. /\ Microseconds(x) = (x * Second) \div SampleRate
          /\ -((-x) * Second) = x * Second
      BY <2>1, SourceAssumption DEF Microseconds
    <3> HIDE DEF z, y
    <3>3. Microseconds(-x) = -Microseconds(x)
      BY <3>1, <3>2, Zenon
    <3>4. id - (offset - 1) = -x
      BY <2>1
    <3> QED
      BY <3>3, <3>4, Zenon
  <2>5. time - Microseconds(id)
          = Microseconds(y) - Microseconds(x) - Microseconds(id)
    <3> HIDE DEF x, y, z
    <3> QED
      BY <1>2, <2>1, <2>2, <2>4
  <2> HIDE DEF x, y
  <2>6. Microseconds(y) - Microseconds(x) - Microseconds(id)
          \in 0..Microseconds(n) + 2
    <3> HIDE DEF z
    <3>1. Microseconds(x + id) = Microseconds(z)
      BY <2>1
    <3>2. Microseconds(z + n) = Microseconds(y)
      BY DEF y
    <3> QED
      BY <1>3, <2>2, <2>3, <3>1, <3>2
  <2> QED
    BY <1>3, <2>2, <2>5, <2>6
<1> QED
  BY <1>1, <1>4, <1>5

\* What a point synchronised so makes of the time of a point
LEMMA TimeFromSync ==
  ASSUME SizesInv, packet_time # NoTime,
         NEW offset \in Nat, NEW n \in 1..BufferSize, SyncedAt(offset, n),
         NEW id \in 0..data_set_size - 1,
         FitsInt(Microseconds(id - synced_package_id))
  PROVE  getDataPointTime(id) - Microseconds(id)
           \in -1 - FloatError..Microseconds(BufferSize) + 2 + FloatError
<1>1. /\ id \in Nat /\ offset + n - 1 \in Nat /\ BufferSize \in Nat
      /\ id - (offset - 1) \in Int
  BY SourceAssumption DEF SizesInv
<1>2. PICK duration : duration = Microseconds(id - (offset - 1))
  OBVIOUS
<1>3. PICK exact : exact = Microseconds(offset + n - 1)
  OBVIOUS
<1>4. /\ exact \in Nat /\ Microseconds(id) \in Nat
      /\ Microseconds(BufferSize) \in Nat /\ FloatError \in Nat
  BY <1>1, <1>3, Rounding, SourceAssumption
<1>5. duration \in Int
  BY <1>1, <1>2, WholeMicroseconds
<1>6. getDataPointTime(id) = packet_time + duration
  BY <1>2 DEF getDataPointTime, static_cast_int, Plus, SyncedAt
<1>7. packet_time \in Nat /\ packet_time - exact \in -FloatError..FloatError
  BY <1>1, <1>3, FloatTimes DEF SyncedAt
<1>8. (exact + duration) - Microseconds(id)
        \in -1..Microseconds(BufferSize) + 2
  BY <1>1, <1>2, <1>3, ExactTimeFromSync
<1> QED
  BY <1>4, <1>5, <1>6, <1>7, <1>8

\* The noted times are those of a chunk, rounded, at all times
LEMMA TimeInvHolds == Spec => []TimeInv
<1>1. SourceInv /\ TimeInv /\ [Next]_vars => TimeInv'
  <2>1. CASE UNCHANGED vars
    BY <2>1 DEF vars, fileVars, syncVars, TimeInv, SyncedAt
  <2>2. CASE SourceInv /\ TimeInv /\ Next
    BY <2>2, TimeInvNext
  <2> QED
    BY <2>1, <2>2
<1> QED
  BY <1>1, SourceInvHolds, TimeInvInit, PTL DEF Spec

(***************************************************************************)
(* The time that getDataPointTime gives a point is at most one chunk, the  *)
(* error of the recorded float and the rounding off its time in the file,  *)
(* for every sample rate, for points before, in and after the chunk that   *)
(* was synchronised, as long as the difference is an int.                  *)
(***************************************************************************)
THEOREM TimesAreClose == Spec => []TimesAtMostAChunkLate
<1>1. SourceInv /\ TimeInv => TimesAtMostAChunkLate
  BY TimeFromSync DEF SourceInv, TimeInv, TimesAtMostAChunkLate
<1> QED
  BY <1>1, SourceInvHolds, TimeInvHolds, PTL

-----------------------------------------------------------------------------
(* Types.                                                                  *)

\* The types hold in the beginning
LEMMA TypeInit == Init => TypeOK
<1> SUFFICES ASSUME Init
             PROVE  TypeOK
  OBVIOUS
<1>1. data_set_size \in Nat /\ BufferSize \in Nat /\ Capacity \in Nat
  BY SourceAssumption DEF Init
<1>2. buffered = <<>>
  BY DEF Init, Queue!Init
<1> QED
  BY <1>1, <1>2 DEF Init, TypeOK

\* ... and every step keeps them
LEMMA TypeNext ==
  ASSUME SourceInv, TimeInv, TypeOK, Next
  PROVE  TypeOK'
<1>1. CASE MainStarts
  <2>1. CASE StartReading
    BY <2>1 DEF StartReading, TypeOK, SourceInv, SizesInv, syncVars, queueVars
  <2>2. CASE SetStartTime
    BY <2>2 DEF SetStartTime, TypeOK, fileVars, syncVars, queueVars
  <2> QED
    BY <1>1, <2>1, <2>2 DEF MainStarts
<1>2. CASE TakePoints
  <2>1. PICK n \in 1..Len(buffered) :
          buffered' = SubSeq(buffered, n + 1, Len(buffered))
    BY <1>2 DEF TakePoints, Queue!Take
  <2>2. /\ n \in Nat /\ Len(buffered) \in Nat
        /\ \A i \in 1..Len(buffered) : buffered[i] \in Nat
    BY ElementOfSeq DEF SourceInv, SizesInv
  <2>3. Len(buffered') <= Len(buffered)
    BY <2>1, <2>2, SubSeqProperties DEF SourceInv, SizesInv
  <2>4. Len(buffered') <= Capacity
    BY <2>2, <2>3, SourceAssumption, SubSeqProperties, <2>1 DEF TypeOK,
       SourceInv, SizesInv
  <2> QED
    BY <1>2, <2>4 DEF TakePoints, TypeOK, fileVars, syncVars
<1>3. CASE StopNow \/ MainStops
  <2>1. CASE StopNow
    BY <2>1 DEF StopNow, TypeOK, fileVars, syncVars, queueVars
  <2>2. CASE DiscardRestOfStream
    BY <2>2, SourceAssumption DEF DiscardRestOfStream, Queue!Abandon, TypeOK,
                                  fileVars, syncVars
  <2>3. CASE Join
    BY <2>3 DEF Join, TypeOK, fileVars, syncVars, queueVars
  <2> QED
    BY <1>3, <2>1, <2>2, <2>3 DEF MainStops
<1>4. CASE OpenFile \/ OpenThrows \/ TestContinueReading \/ AddReturns
  BY <1>4 DEF OpenFile, OpenThrows, TestContinueReading, AddReturns, TypeOK,
              fileVars, syncVars, queueVars
<1>5. CASE NotifyStreamEnd
  BY <1>5 DEF NotifyStreamEnd, Queue!Close, TypeOK, fileVars, syncVars
<1>6. CASE AddDataPoints
  <2> DEFINE n    == Lesser(chunk_left, Capacity - Len(buffered))
             sent == Len(consumed) + Len(buffered)
  <2>1. /\ Len(buffered) \in Nat /\ sent \in Nat
        /\ n \in Nat /\ n <= chunk_left /\ n <= Capacity - Len(buffered)
    BY <1>6, SourceAssumption DEF AddDataPoints, Lesser, SourceInv, SizesInv
  <2>2. buffered' = buffered \o [i \in 1..n |-> sent + i]
    BY <1>6 DEF AddDataPoints, Queue!Send
  <2>3. /\ [i \in 1..n |-> sent + i] \in Seq(Nat)
        /\ Len([i \in 1..n |-> sent + i]) = n
    BY <2>1
  <2>4. Len(buffered') = Len(buffered) + n
    BY <2>2, <2>3, ConcatProperties DEF SourceInv, SizesInv
  <2> HIDE DEF n
  <2>5. /\ UNCHANGED <<data_set_size, current_offset, read_count, syncVars,
                       continue_reading, start_time, runner_pc, main_pc>>
        /\ chunk_left' = chunk_left - n
    BY <1>6 DEF AddDataPoints, n
  <2> QED
    BY <2>1, <2>4, <2>5, SourceAssumption DEF TypeOK, syncVars, SourceInv,
       SizesInv
<1>7. CASE ReadOnce
  <2>1. /\ read_count' \in 0..BufferSize /\ chunk_left' \in 0..read_count'
    BY <1>7, SourceAssumption DEF ReadOnce, ReadCount, LastRead, TypeOK,
       SourceInv, SizesInv
  <2>2. continue_reading' \in BOOLEAN /\ runner_pc' \in {"adding", "testing"}
    <3>1. CASE continue_reading
      BY <1>7, <3>1, Zenon DEF ReadOnce
    <3>2. CASE ~continue_reading
      BY <1>7, <3>2 DEF ReadOnce, TypeOK
    <3> QED
      BY <3>1, <3>2
  <2> QED
    BY <1>7, <2>1, <2>2 DEF ReadOnce, TypeOK, syncVars, queueVars
<1>8. CASE SyncTimePoint
  <2>1. /\ current_offset \in Nat /\ read_count \in Nat
        /\ data_set_size \in Nat
        /\ current_offset + read_count <= data_set_size
    BY <1>8 DEF SyncTimePoint, SourceInv, SizesInv, Writing
  <2>2. synced_package_id' \in -1..data_set_size
    BY <1>8, <2>1 DEF SyncTimePoint, SyncedId, TypeOK, syncVars
  <2>3. \/ packet_time' = NoTime
        \/ packet_time' \in 0..Microseconds(data_set_size) + FloatError
    <3>1. CASE read_count > 0
      <4> DEFINE last == current_offset + read_count - 1
                 rest == data_set_size - last
      <4>1. last \in Nat /\ rest \in Nat /\ last + rest = data_set_size
        BY <2>1, <3>1
      <4>2. PICK t \in TimesRecorded(last) : packet_time' = Plus(start_time, t)
        BY <1>8, <3>1, Zenon DEF SyncTimePoint
      <4> HIDE DEF last, rest
      <4>3. last + rest \in Nat
        BY <4>1
      <4>4. /\ Microseconds(last) \in Nat /\ Microseconds(rest) \in Nat
            /\ Microseconds(last + rest) \in Nat
        BY <4>1, <4>3, Rounding
      <4>5. Microseconds(last + rest) >= Microseconds(last)
                                         + Microseconds(rest)
        BY <4>1, <4>4, Rounding
      <4>6. t \in 0..Microseconds(data_set_size) + FloatError
        <5>1. /\ t \in Nat /\ FloatError \in Nat
              /\ t - Microseconds(last) \in -FloatError..FloatError
          BY <4>1, FloatTimes, SourceAssumption
        <5> QED
          BY <4>1, <4>4, <4>5, <5>1
      <4>7. start_time = NoTime \/ start_time = 0
        BY DEF TypeOK
      <4> QED
        BY <4>2, <4>6, <4>7 DEF Plus, NoTime
    <3>2. CASE ~(read_count > 0)
      BY <1>8, <3>2 DEF SyncTimePoint, syncVars, TypeOK
    <3> QED
      BY <3>1, <3>2
  <2>4. current_offset' \in 0..data_set_size
    BY <1>8, <2>1 DEF SyncTimePoint, NextOffset
  <2> QED
    BY <1>8, <2>2, <2>3, <2>4 DEF SyncTimePoint, TypeOK, queueVars
<1> QED
  BY <1>1, <1>2, <1>3, <1>4, <1>5, <1>6, <1>7, <1>8 DEF Next, Runner

(***************************************************************************)
(* The fields of the source have their types: a chunk lies in the file, a  *)
(* synchronised time in the time of the file, and the queue never holds    *)
(* more than its maximal size, whichever way the chunks are cut.           *)
(***************************************************************************)
THEOREM SourceTypes == Spec => []TypeOK
<1>1. SourceInv /\ TimeInv /\ TypeOK /\ [Next]_vars => TypeOK'
  <2>1. CASE UNCHANGED vars
    BY <2>1 DEF vars, fileVars, syncVars, queueVars, TypeOK
  <2>2. CASE SourceInv /\ TimeInv /\ TypeOK /\ Next
    BY <2>2, TypeNext
  <2> QED
    BY <2>1, <2>2
<1> QED
  BY <1>1, SourceInvHolds, TimeInvHolds, TypeInit, PTL DEF Spec
=============================================================================
