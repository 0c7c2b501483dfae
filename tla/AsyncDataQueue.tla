--------------------------- MODULE AsyncDataQueue ---------------------------
(***************************************************************************)
(* The bounded queue through which an input source thread (the "writer")   *)
(* hands data points to the thread that runs the data stream distributor   *)
(* (the "reader"): data_loader/src/AsyncDataQueue.h.                       *)
(*                                                                         *)
(* The class is a monitor with one mutex and two condition variables, but  *)
(* stream_ended is also read and written without the mutex.  Every step    *)
(* below is one stretch of code that no other thread can observe half      *)
(* done: a critical section whose waiting condition holds is one step; a   *)
(* critical section whose condition does not hold is two, the evaluation   *)
(* of the condition (which keeps the mutex) and the wait (which releases   *)
(* it), because an unlocked write can fall between the two.                *)
(*                                                                         *)
(* A data point is its position in the stream of the writer, 1, 2, ...     *)
(***************************************************************************)
EXTENDS Integers, Sequences

CONSTANTS
  InitialMaxSize,   \* queue_max_size of a new queue (4096 in the code)
  MaxSizes,         \* the sizes setQueueMaxSize is called with
  MaxPoints,        \* bound: number of points the writer's stream has
  MaxChunk,         \* bound: number of points of one addDataPoints call
  MaxRequest,       \* bound: number of points of one reading call
  ULong,            \* 2^w, w the width of unsigned long
  WriterCalls,      \* the calls the writer makes
  ReaderCalls,      \* the calls the reader makes
  ControllerCalls   \* the calls any other thread makes

WriterInterface == {"addDataPoints", "addDataPoint", "notifyStreamEnd",
                    "restartStreaming"}
ReaderInterface == {"popDataPoints", "getDataPoints", "nextDataPoints",
                    "discardRestOfStream"}
ControllerInterface == {"setQueueMaxSize", "unblockReadOperations"}

ASSUME QueueAssumption ==
  /\ InitialMaxSize \in Nat \ {0}
  /\ MaxSizes \subseteq Nat
  /\ MaxPoints \in Nat
  /\ MaxChunk \in Nat
  /\ MaxRequest \in Nat
  /\ ULong \in Nat
  /\ ULong > InitialMaxSize /\ ULong > MaxPoints
  /\ \A m \in MaxSizes : ULong > m
  /\ WriterCalls \subseteq WriterInterface
  /\ ReaderCalls \subseteq ReaderInterface
  /\ ControllerCalls \subseteq ControllerInterface

VARIABLES
  data_queue,       \* the points in the queue, oldest first
  stream_ended,
  queue_max_size,
  mutex,            \* data_queue_mutex: the thread that keeps it, or "none"
  w_pc,             \* where the writer is
  w_call,           \* the adding call the writer is in
  w_left,           \* end - begin of that call
  next_point,       \* stream position of *begin: the first point not added
  r_pc,             \* where the reader is
  r_call,           \* the reading call the reader is in, or was in last
  r_need,           \* queue size that call waits for
  r_left,           \* end - begin of that call
  r_got,            \* points that call has written to its destination
  c_pc,             \* where the controller is
  consumed          \* history: the points the reader removed, in order

queueVars  == <<data_queue, stream_ended, queue_max_size, mutex>>
writerVars == <<w_pc, w_call, w_left, next_point>>
readerVars == <<r_pc, r_call, r_need, r_left, r_got, consumed>>
vars == <<queueVars, writerVars, readerVars, c_pc>>

-----------------------------------------------------------------------------
(* The waiting conditions, and the helpers of the critical sections.  The  *)
(* definitions named ...Mutant are slips one could make in the code; the   *)
(* properties below tell each of them from the code.                       *)

\* std::min
NotLimitedMutant(a, b) == b
Lesser(a, b) == IF a <= b THEN a ELSE b

\* getQueueNotFullWaiter
QueueNotFull == Len(data_queue) < queue_max_size \/ stream_ended

\* getQueueHasEnoughElementsWaiter; getQueueNotEmptyWaiter is the case num = 1
EnoughElementsEarlyMutant(num) == Len(data_queue) + 1 >= num \/ stream_ended
EnoughElementsStrictMutant(num) == Len(data_queue) > num \/ stream_ended
QueueHasEnoughElements(num) == Len(data_queue) >= num \/ stream_ended

\* notify_one on a condition variable only the thread at pc can wait on
NotNotifiedMutant(pc) == pc
Woken(pc) == IF pc = "waiting" THEN "locking" ELSE pc

\* k consecutive points of the stream
Points(first, k) == [i \in 1..k |-> first + i - 1]

\* removePointsFromQueue
WithoutOneLessMutant(queue, k) ==
  IF k >= Len(queue) THEN <<>> ELSE SubSeq(queue, k, Len(queue))
WithoutAllMutant(queue, k) == <<>>
Without(queue, k) ==
  IF k >= Len(queue) THEN <<>> ELSE SubSeq(queue, k + 1, Len(queue))

\* queue_max_size - data_queue.size() in unsigned arithmetic
PushableElements == (queue_max_size - Len(data_queue)) % ULong

-----------------------------------------------------------------------------
Init ==
  /\ data_queue = <<>>
  /\ stream_ended = FALSE
  /\ queue_max_size = InitialMaxSize
  /\ mutex = "none"
  /\ w_pc = "idle" /\ w_call = "none" /\ w_left = 0 /\ next_point = 1
  /\ r_pc = "idle" /\ r_call = "none" /\ r_need = 0 /\ r_left = 0 /\ r_got = 0
  /\ c_pc = "idle"
  /\ consumed = <<>>

-----------------------------------------------------------------------------
(* The writer.                                                             *)

AddDataPoints(n) ==
  /\ w_pc = "idle" /\ "addDataPoints" \in WriterCalls
  /\ next_point + n <= MaxPoints + 1
  /\ w_pc' = "testing" /\ w_call' = "addDataPoints" /\ w_left' = n
  /\ UNCHANGED <<queueVars, readerVars, c_pc, next_point>>

\* while (begin != end && !this->stream_ended), evaluated without the mutex
AddTest ==
  /\ w_pc = "testing"
  /\ \/ /\ w_left # 0 /\ ~stream_ended
        /\ w_pc' = "locking"
        /\ UNCHANGED <<w_left, next_point>>
     \/ /\ w_left = 0 \/ stream_ended
        /\ w_pc' = "idle" /\ w_left' = 0
        /\ next_point' = next_point + w_left      \* what is left is dropped
  /\ UNCHANGED <<queueVars, readerVars, c_pc, w_call>>

AddDataPoint ==
  /\ w_pc = "idle" /\ "addDataPoint" \in WriterCalls
  /\ next_point <= MaxPoints
  /\ w_pc' = "locking" /\ w_call' = "addDataPoint" /\ w_left' = 1
  /\ UNCHANGED <<queueVars, readerVars, c_pc, next_point>>

\* The critical section of addDataPoints and of addDataPoint
Push ==
  /\ w_pc = "locking" /\ mutex = "none" /\ QueueNotFull
  /\ LET pushed == IF w_call = "addDataPoint" THEN 1
                   ELSE Lesser(w_left, PushableElements)
     IN  /\ data_queue' = data_queue \o Points(next_point, pushed)
         /\ next_point' = next_point + pushed
         /\ w_left' = w_left - pushed
  /\ w_pc' = IF w_call = "addDataPoint" THEN "idle" ELSE "testing"
  /\ r_pc' = Woken(r_pc)
  /\ UNCHANGED <<stream_ended, queue_max_size, mutex, w_call, c_pc>>
  /\ UNCHANGED <<r_call, r_need, r_left, r_got, consumed>>

\* The queue is full: the writer has the mutex and is about to wait ...
WriterFindsFull ==
  /\ w_pc = "locking" /\ mutex = "none" /\ ~QueueNotFull
  /\ mutex' = "writer" /\ w_pc' = "blocking"
  /\ UNCHANGED <<data_queue, stream_ended, queue_max_size, readerVars, c_pc>>
  /\ UNCHANGED <<w_call, w_left, next_point>>

\* ... and waits on deque_overflow, which releases the mutex
WriterWaits ==
  /\ w_pc = "blocking"
  /\ mutex' = "none" /\ w_pc' = "waiting"
  /\ UNCHANGED <<data_queue, stream_ended, queue_max_size, readerVars, c_pc>>
  /\ UNCHANGED <<w_call, w_left, next_point>>

\* notifyStreamEnd, the store: it does not take the mutex
NotifyStreamEnd ==
  /\ w_pc = "idle" /\ "notifyStreamEnd" \in WriterCalls
  /\ stream_ended' = TRUE
  /\ w_pc' = "ending"
  /\ UNCHANGED <<data_queue, queue_max_size, mutex, readerVars, c_pc>>
  /\ UNCHANGED <<w_call, w_left, next_point>>

\* notifyStreamEnd, deque_underflow.notify_one(); the writer's run is over
NotifyReader ==
  /\ w_pc = "ending"
  /\ w_pc' = "ended"
  /\ r_pc' = Woken(r_pc)
  /\ UNCHANGED <<queueVars, w_call, w_left, next_point, c_pc>>
  /\ UNCHANGED <<r_call, r_need, r_left, r_got, consumed>>

\* A new run of the writer starts with restartStreaming
RestartStreaming ==
  /\ w_pc = "ended" /\ "restartStreaming" \in WriterCalls
  /\ next_point <= MaxPoints
  /\ stream_ended' = FALSE
  /\ w_pc' = "idle"
  /\ UNCHANGED <<data_queue, queue_max_size, mutex, readerVars, c_pc>>
  /\ UNCHANGED <<w_call, w_left, next_point>>

-----------------------------------------------------------------------------
(* The reader.                                                             *)

StartReading(call, need, n) ==
  /\ r_pc = "idle" /\ call \in ReaderCalls
  /\ r_pc' = "locking" /\ r_call' = call
  /\ r_need' = need /\ r_left' = n /\ r_got' = 0
  /\ UNCHANGED <<queueVars, writerVars, c_pc, consumed>>

PopDataPoints(n) == StartReading("popDataPoints", 1, n)

GetDataPoints(n, offset) == StartReading("getDataPoints", n + offset, n)

NextDataPoints(n) == StartReading("nextDataPoints", n, n)

ReaderHasMutex ==
  /\ r_pc = "locking" /\ mutex = "none" /\ QueueHasEnoughElements(r_need)

\* The critical section of popDataPoints
PopPull ==
  /\ ReaderHasMutex /\ r_call = "popDataPoints"
  /\ LET pulled == Lesser(r_left, Len(data_queue))
     IN  /\ consumed' = consumed \o SubSeq(data_queue, 1, pulled)
         /\ data_queue' = Without(data_queue, pulled)
         /\ r_left' = r_left - pulled
         /\ r_got' = r_got + pulled
  /\ r_pc' = "testing"
  /\ w_pc' = Woken(w_pc)
  /\ UNCHANGED <<stream_ended, queue_max_size, mutex, r_call, r_need, c_pc>>
  /\ UNCHANGED <<w_call, w_left, next_point>>

\* while (begin != end && !this->stream_ended), evaluated without the mutex
PopTest ==
  /\ r_pc = "testing"
  /\ r_pc' = IF r_left # 0 /\ ~stream_ended THEN "locking" ELSE "idle"
  /\ UNCHANGED <<queueVars, writerVars, c_pc>>
  /\ UNCHANGED <<r_call, r_need, r_left, r_got, consumed>>

\* The critical section of getDataPoints: nothing is removed.  With fewer
\* than offset points in an ended stream copy_n gets a negative count.
GetCopy ==
  /\ ReaderHasMutex /\ r_call = "getDataPoints"
  /\ LET available == Len(data_queue) - (r_need - r_left)
         copied    == Lesser(r_left, available)
     IN  r_got' = IF copied > 0 THEN copied ELSE 0
  /\ r_pc' = "idle"
  /\ UNCHANGED <<queueVars, writerVars, c_pc>>
  /\ UNCHANGED <<r_call, r_need, r_left, consumed>>

\* The critical section of nextDataPoints
NextRemove ==
  /\ ReaderHasMutex /\ r_call = "nextDataPoints"
  /\ LET removed == Lesser(r_left, Len(data_queue))
     IN  /\ consumed' = consumed \o SubSeq(data_queue, 1, removed)
         /\ data_queue' = Without(data_queue, r_left)
  /\ r_pc' = "idle"
  /\ w_pc' = Woken(w_pc)
  /\ UNCHANGED <<stream_ended, queue_max_size, mutex, c_pc>>
  /\ UNCHANGED <<w_call, w_left, next_point, r_call, r_need, r_left, r_got>>

\* Too few points: the reader has the mutex and is about to wait ...
ReaderFindsTooFew ==
  /\ r_pc = "locking" /\ mutex = "none" /\ ~QueueHasEnoughElements(r_need)
  /\ mutex' = "reader" /\ r_pc' = "blocking"
  /\ UNCHANGED <<data_queue, stream_ended, queue_max_size, writerVars, c_pc>>
  /\ UNCHANGED <<r_call, r_need, r_left, r_got, consumed>>

\* ... and waits on deque_underflow, which releases the mutex
ReaderWaits ==
  /\ r_pc = "blocking"
  /\ mutex' = "none" /\ r_pc' = "waiting"
  /\ UNCHANGED <<data_queue, stream_ended, queue_max_size, writerVars, c_pc>>
  /\ UNCHANGED <<r_call, r_need, r_left, r_got, consumed>>

\* The reader stops for good: it discards what is left and never reads again
DiscardRestOfStream ==
  /\ r_pc = "idle" /\ "discardRestOfStream" \in ReaderCalls
  /\ mutex = "none"
  /\ data_queue' = <<>>
  /\ stream_ended' = TRUE
  /\ r_pc' = "done"
  /\ w_pc' = Woken(w_pc)
  /\ UNCHANGED <<queue_max_size, mutex, w_call, w_left, next_point, c_pc>>
  /\ UNCHANGED <<r_call, r_need, r_left, r_got, consumed>>

-----------------------------------------------------------------------------
(* Any other thread, and the condition variables themselves.               *)

SetQueueMaxSize(max_size) ==
  /\ c_pc = "idle" /\ "setQueueMaxSize" \in ControllerCalls
  /\ mutex = "none"
  /\ queue_max_size' = max_size
  /\ w_pc' = Woken(w_pc)
  /\ UNCHANGED <<data_queue, stream_ended, mutex, readerVars, c_pc>>
  /\ UNCHANGED <<w_call, w_left, next_point>>

\* unblockReadOperations is notifyStreamEnd under another name
UnblockReadOperations ==
  /\ c_pc = "idle" /\ "unblockReadOperations" \in ControllerCalls
  /\ stream_ended' = TRUE
  /\ c_pc' = "ending"
  /\ UNCHANGED <<data_queue, queue_max_size, mutex, writerVars, readerVars>>

ControllerNotifies ==
  /\ c_pc = "ending"
  /\ c_pc' = "idle"
  /\ r_pc' = Woken(r_pc)
  /\ UNCHANGED <<queueVars, writerVars>>
  /\ UNCHANGED <<r_call, r_need, r_left, r_got, consumed>>

\* std::condition_variable may wake a waiting thread unasked
SpuriousWakeup ==
  /\ \/ w_pc = "waiting" /\ w_pc' = "locking" /\ UNCHANGED r_pc
     \/ r_pc = "waiting" /\ r_pc' = "locking" /\ UNCHANGED w_pc
  /\ UNCHANGED <<queueVars, w_call, w_left, next_point, c_pc>>
  /\ UNCHANGED <<r_call, r_need, r_left, r_got, consumed>>

-----------------------------------------------------------------------------
WriterCall ==
  \/ \E n \in 1..MaxChunk : AddDataPoints(n)
  \/ AddDataPoint
  \/ NotifyStreamEnd

WriterLocked == Push \/ WriterFindsFull

WriterUnlocked == AddTest \/ WriterWaits \/ NotifyReader

ReaderCall ==
  \/ \E n \in 1..MaxRequest :
       \/ PopDataPoints(n)
       \/ NextDataPoints(n)
       \/ \E offset \in 0..MaxRequest - n : GetDataPoints(n, offset)
  \/ DiscardRestOfStream

ReaderLocked == PopPull \/ GetCopy \/ NextRemove \/ ReaderFindsTooFew

ReaderUnlocked == PopTest \/ ReaderWaits

Controller ==
  \/ \E m \in MaxSizes : SetQueueMaxSize(m)
  \/ UnblockReadOperations
  \/ ControllerNotifies

Next ==
  \/ WriterCall \/ WriterLocked \/ WriterUnlocked \/ RestartStreaming
  \/ ReaderCall \/ ReaderLocked \/ ReaderUnlocked
  \/ Controller \/ SpuriousWakeup

Spec == Init /\ [][Next]_vars

(***************************************************************************)
(* Fairness: both threads are scheduled, the thread that keeps the mutex   *)
(* releases it after a few instructions and a thread that keeps asking for *)
(* it gets it eventually.  The writer goes on reading its source until it  *)
(* has ended the stream, and the reader, whenever it is outside the queue, *)
(* reads again or discards the rest.  Nothing is assumed of the            *)
(* controller, of spurious wakeups and of restarts.                        *)
(***************************************************************************)
Fairness ==
  /\ WF_vars(WriterCall) /\ SF_vars(WriterLocked) /\ WF_vars(WriterUnlocked)
  /\ SF_vars(ReaderCall) /\ SF_vars(ReaderLocked) /\ WF_vars(ReaderUnlocked)
  /\ WF_vars(ControllerNotifies)

FairSpec == Spec /\ Fairness

-----------------------------------------------------------------------------
(* Properties.                                                             *)

WriterPc == {"idle", "testing", "locking", "blocking", "waiting", "ending",
             "ended"}
ReaderPc == {"idle", "locking", "blocking", "waiting", "testing", "done"}

(***************************************************************************)
(* The types of the fields and of the local variables of the calls.        *)
(***************************************************************************)
TypeOK ==
  /\ data_queue \in Seq(Nat)
  /\ stream_ended \in BOOLEAN
  /\ queue_max_size \in Nat
  /\ mutex \in {"none", "writer", "reader"}
  /\ w_pc \in WriterPc
  /\ w_call \in {"none", "addDataPoints", "addDataPoint"}
  /\ w_left \in Nat
  /\ next_point \in Nat \ {0}
  /\ r_pc \in ReaderPc
  /\ r_call \in {"none"} \union ReaderInterface
  /\ r_need \in Nat
  /\ r_left \in Nat
  /\ r_got \in Nat
  /\ c_pc \in {"idle", "ending"}
  /\ consumed \in Seq(Nat)

\* What has gone through the queue and is still in it
Stream == consumed \o data_queue

(***************************************************************************)
(* The reader gets the points in the order of the stream and none of them  *)
(* twice, whatever calls the threads make: a chunk is added in several     *)
(* critical sections and read in several others (addDataPoints,            *)
(* popDataPoints, removePointsFromQueue).                                  *)
(***************************************************************************)
InStreamOrder ==
  /\ \A i, j \in 1..Len(Stream) : i < j => Stream[i] < Stream[j]
  /\ \A i \in 1..Len(Stream) : Stream[i] < next_point

(***************************************************************************)
(* Until it is discarded, no point of the stream is lost: as long as no    *)
(* other thread ends the stream behind the writer's back, what the reader  *)
(* removed and what is in the queue is the stream up to *begin.            *)
(***************************************************************************)
NothingLost == r_pc # "done" => Len(Stream) = next_point - 1

(***************************************************************************)
(* No wakeup of a thread is lost on the way of the data: the writer never  *)
(* sleeps next to a queue that has room, nor the reader next to a queue    *)
(* that has the points it waits for (notify_one inside the critical        *)
(* sections of addDataPoints, popDataPoints, nextDataPoints and            *)
(* setQueueMaxSize).                                                       *)
(***************************************************************************)
NoMissedData ==
  /\ w_pc = "waiting" => Len(data_queue) >= queue_max_size
  /\ r_pc = "waiting" => Len(data_queue) < r_need

(***************************************************************************)
(* An insertion leaves at most queue_max_size points in the queue          *)
(* (setQueueMaxSize: the maximum amount of data that is allowed to be in   *)
(* the queue until it blocks insert operations).                           *)
(***************************************************************************)
InsertsRespectMax ==
  [][Len(data_queue') > Len(data_queue)
       => Len(data_queue') <= queue_max_size]_vars

(***************************************************************************)
(* popDataPoints returns nothing only when nothing is left: the queue is   *)
(* empty and every point of the run of the writer was removed.  The blued  *)
(* converter closes its output file on such a return.                      *)
(***************************************************************************)
EmptyReadMeansDrained ==
  [][(PopPull /\ r_got' = 0)
       => /\ data_queue = <<>>
          /\ w_pc \in {"ending", "ended"}
          /\ Len(consumed) = next_point - 1]_vars

(***************************************************************************)
(* A writer inside addDataPoints or addDataPoint comes out of it as long   *)
(* as the reader keeps reading or discards the rest of the stream.         *)
(***************************************************************************)
AddReturns == (w_pc \in {"testing", "locking", "waiting"}) ~> (w_pc = "idle")

(***************************************************************************)
(* Points in the queue do not stay there: a reader inside popDataPoints    *)
(* takes them.                                                             *)
(***************************************************************************)
QueuedPointsLeave ==
  \A k \in 1..MaxPoints :
    (Len(consumed) < k /\ k <= Len(Stream))
      ~> (Len(consumed) >= k \/ r_pc = "done")

(***************************************************************************)
(* notifyStreamEnd unblocks a reader: every popDataPoints call returns     *)
(* once the writer has ended the stream (AsyncDataQueue.h: "Unblocks calls *)
(* to getDataPoints and nextData by safely returning the data already      *)
(* read").                                                                 *)
(***************************************************************************)
EndUnblocksReader ==
  (w_pc = "ended" /\ r_pc \notin {"idle", "done"})
     ~> (r_pc \in {"idle", "done"})
-----------------------------------------------------------------------------
(***************************************************************************)
(* The threads of the application add with addDataPoints, read with        *)
(* popDataPoints, and nobody else touches the queue.  Used so, the queue   *)
(* is a bounded stream.  Points a writer still adds after the reader has   *)
(* discarded the rest are no part of it.                                   *)
(***************************************************************************)
ApplicationCalls ==
  /\ WriterCalls \subseteq {"addDataPoints", "notifyStreamEnd"}
  /\ ReaderCalls \subseteq {"popDataPoints", "discardRestOfStream"}
  /\ ControllerCalls = {}

ReaderSawEnd == r_pc = "idle" /\ r_call = "popDataPoints" /\ r_got = 0

Abstract == INSTANCE BoundedStream WITH
  Capacity  <- InitialMaxSize,
  buffered  <- IF r_pc = "done" THEN <<>> ELSE data_queue,
  closed    <- stream_ended,
  eof       <- ReaderSawEnd,
  abandoned <- r_pc = "done"

(***************************************************************************)
(* Every behaviour of the queue under the calls of the application is one  *)
(* of a bounded stream: chunks that are pushed and pulled in pieces, the   *)
(* unlocked writes and reads of stream_ended and the wakeups do not show.  *)
(***************************************************************************)
ImplementsBoundedStream == Abstract!Spec
=============================================================================
