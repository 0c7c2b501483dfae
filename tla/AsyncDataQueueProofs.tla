----------------------- MODULE AsyncDataQueueProofs -----------------------
(***************************************************************************)
(* What AsyncDataQueue guarantees for every size of the queue, every       *)
(* stream and every set of calls, and what it guarantees in addition under *)
(* the calls of the application.                                           *)
(***************************************************************************)
EXTENDS AsyncDataQueue, SequenceTheorems, TLAPS

-----------------------------------------------------------------------------
(* The sequence operators of the critical sections.                        *)

\* min(end - begin, ...) as addDataPoints and popDataPoints use it
LEMMA LesserBounds ==
  ASSUME NEW a \in Nat, NEW b \in Nat
  PROVE  Lesser(a, b) \in Nat /\ Lesser(a, b) <= a /\ Lesser(a, b) <= b
BY DEF Lesser

\* Points(first, k) is a sequence of k points
LEMMA PointsType ==
  ASSUME NEW first \in Nat \ {0}, NEW k \in Nat
  PROVE  /\ Points(first, k) \in Seq(Nat)
         /\ Len(Points(first, k)) = k
         /\ \A i \in 1..k : Points(first, k)[i] = first + i - 1
BY DEF Points

\* removePointsFromQueue leaves a queue of the remaining length
LEMMA WithoutType ==
  ASSUME NEW queue \in Seq(Nat), NEW k \in Nat
  PROVE  /\ Without(queue, k) \in Seq(Nat)
         /\ Len(Without(queue, k)) = IF k >= Len(queue) THEN 0
                                     ELSE Len(queue) - k
         /\ \A i \in 1..Len(Without(queue, k)) :
              Without(queue, k)[i] = queue[i + k]
BY DEF Without

\* c is what was consumed, k of the n points asked for are pulled off queue
PullFacts(c, queue, n, k) ==
  /\ c \o SubSeq(queue, 1, k) \in Seq(Nat)
  /\ Len(c \o SubSeq(queue, 1, k)) = Len(c) + k
  /\ (c \o SubSeq(queue, 1, k)) \o Without(queue, k) = c \o queue
  /\ Without(queue, n) = Without(queue, k)
  /\ Without(queue, k) = SubSeq(queue, k + 1, Len(queue))

\* What a critical section of popDataPoints removes from the one end it adds
\* at the other: the stream stays as it is
LEMMA PullKeepsStream ==
  ASSUME NEW c \in Seq(Nat), NEW queue \in Seq(Nat), NEW n \in Nat,
         NEW k, k = Lesser(n, Len(queue))
  PROVE  PullFacts(c, queue, n, k)
<1>1. k \in Nat /\ k <= Len(queue) /\ k <= n
  BY LesserBounds
<1>2. \A i \in 1..Len(queue) : queue[i] \in Nat
  BY ElementOfSeq
<1>3. SubSeq(queue, 1, k) \in Seq(Nat) /\ Len(SubSeq(queue, 1, k)) = k
  BY <1>1, <1>2, SubSeqProperties
<1>4. SubSeq(queue, k + 1, Len(queue)) \in Seq(Nat)
  BY <1>1, <1>2, SubSeqProperties
<1>5. SubSeq(queue, 1, k) \o SubSeq(queue, k + 1, Len(queue)) = queue
  <2>1. SubSeq(queue, 1, k) \o SubSeq(queue, k + 1, Len(queue))
          = SubSeq(queue, 1, Len(queue))
    <3>1. /\ Len(queue) \in Nat
          /\ 1 \in 1..Len(queue) + 1 /\ k \in 1 - 1..Len(queue)
          /\ Len(queue) \in k..Len(queue)
      BY <1>1
    <3> QED
      BY <3>1, ConcatAdjacentSubSeq, Zenon
  <2> QED
    BY <2>1, SubSeqFull
<1>6. Without(queue, k) = SubSeq(queue, k + 1, Len(queue))
  <2>1. CASE k >= Len(queue)
    BY <1>1, <2>1, SubSeqEmpty DEF Without
  <2>2. CASE ~(k >= Len(queue))
    BY <2>2 DEF Without
  <2> QED
    BY <2>1, <2>2
<1>7. /\ c \o SubSeq(queue, 1, k) \in Seq(Nat)
      /\ Len(c \o SubSeq(queue, 1, k)) = Len(c) + k
  BY <1>3, ConcatProperties
<1>8. (c \o SubSeq(queue, 1, k)) \o SubSeq(queue, k + 1, Len(queue))
        = c \o queue
  <2> DEFINE taken == SubSeq(queue, 1, k)
             rest  == SubSeq(queue, k + 1, Len(queue))
  <2>1. taken \in Seq(Nat) /\ rest \in Seq(Nat)
    BY <1>3, <1>4
  <2>2. taken \o rest = queue
    BY <1>5
  <2> HIDE DEF taken, rest
  <2>3. (c \o taken) \o rest = c \o queue
    <3>1. (c \o taken) \o rest = c \o (taken \o rest)
      BY <2>1, ConcatAssociative
    <3> QED
      BY <3>1, <2>2
  <2> QED
    BY <2>3 DEF taken, rest
<1>9. Without(queue, n) = Without(queue, k)
  BY <1>1 DEF Without, Lesser
<1> QED
  BY <1>6, <1>7, <1>8, <1>9 DEF PullFacts

\* InStreamOrder, of any sequence and any bound
Ordered(s, bound) ==
  /\ \A i, j \in 1..Len(s) : i < j => s[i] < s[j]
  /\ \A i \in 1..Len(s) : s[i] < bound

\* What addDataPoints appends keeps the stream in order
LEMMA PushKeepsOrder ==
  ASSUME NEW s \in Seq(Nat), NEW first \in Nat \ {0}, NEW k \in Nat,
         Ordered(s, first)
  PROVE  /\ Ordered(s \o Points(first, k), first + k)
         /\ Len(s \o Points(first, k)) = Len(s) + k
<1> DEFINE new == Points(first, k)
<1>1. /\ new \in Seq(Nat) /\ Len(new) = k
      /\ \A i \in 1..k : new[i] = first + i - 1
  BY PointsType
<1> HIDE DEF new
<1>2. /\ Len(s \o new) = Len(s) + k
      /\ \A i \in 1..Len(s) + k :
           (s \o new)[i] = IF i <= Len(s) THEN s[i] ELSE first + i - Len(s) - 1
  BY <1>1
<1>3. \A i \in 1..Len(s) : s[i] \in Nat
  OBVIOUS
<1>4. Ordered(s \o new, first + k)
  BY <1>2, <1>3 DEF Ordered
<1> QED
  BY <1>2, <1>4 DEF new

\* discardRestOfStream cuts the stream: a prefix of it stays in order
LEMMA PrefixKeepsOrder ==
  ASSUME NEW c \in Seq(Nat), NEW queue \in Seq(Nat), NEW bound \in Nat,
         Ordered(c \o queue, bound)
  PROVE  Ordered(c \o <<>>, bound)
<1>1. c \o <<>> = c
  OBVIOUS
<1>2. \A i \in 1..Len(c) : i \in 1..Len(c \o queue) /\ (c \o queue)[i] = c[i]
  OBVIOUS
<1> QED
  BY <1>1, <1>2 DEF Ordered

-----------------------------------------------------------------------------
(* Type correctness.                                                       *)

USE QueueAssumption

\* The unsigned difference is a number of points
LEMMA PushableType ==
  ASSUME TypeOK
  PROVE  PushableElements \in Nat
BY DEF TypeOK, PushableElements

\* A writer inside the queue is in one of the two calls; in addDataPoint it
\* has its one point left
AddingCall ==
  /\ w_pc = "testing" => w_call = "addDataPoints"
  /\ w_pc \in {"locking", "blocking", "waiting"}
       => w_call = "addDataPoints" \/ (w_call = "addDataPoint" /\ w_left = 1)

TypeInv == TypeOK /\ AddingCall

\* The number of points the critical section of the writer adds
PushedPoints ==
  IF w_call = "addDataPoint" THEN 1 ELSE Lesser(w_left, PushableElements)

\* ... and what it does with them
LEMMA PushEffect ==
  ASSUME TypeInv, Push
  PROVE  /\ PushedPoints \in Nat /\ PushedPoints <= w_left
         /\ data_queue' = data_queue \o Points(next_point, PushedPoints)
         /\ next_point' = next_point + PushedPoints
         /\ w_left' = w_left - PushedPoints
         /\ data_queue' \in Seq(Nat)
         /\ Len(data_queue') = Len(data_queue) + PushedPoints
         /\ next_point' \in Nat \ {0} /\ w_left' \in Nat
<1>1. PushedPoints \in Nat /\ PushedPoints <= w_left
  <2>1. CASE w_call = "addDataPoint"
    BY <2>1 DEF TypeInv, AddingCall, Push, PushedPoints
  <2>2. CASE w_call # "addDataPoint"
    BY <2>2, PushableType, LesserBounds DEF TypeInv, TypeOK, PushedPoints
  <2> QED
    BY <2>1, <2>2
<1>2. /\ data_queue' = data_queue \o Points(next_point, PushedPoints)
      /\ next_point' = next_point + PushedPoints
      /\ w_left' = w_left - PushedPoints
  BY DEF Push, PushedPoints
<1>3. /\ Points(next_point, PushedPoints) \in Seq(Nat)
      /\ Len(Points(next_point, PushedPoints)) = PushedPoints
  BY <1>1, PointsType DEF TypeInv, TypeOK
<1>4. /\ data_queue' \in Seq(Nat)
      /\ Len(data_queue') = Len(data_queue) + PushedPoints
  BY <1>2, <1>3, ConcatProperties DEF TypeInv, TypeOK
<1> QED
  BY <1>1, <1>2, <1>4 DEF TypeInv, TypeOK

\* What the critical sections of popDataPoints and nextDataPoints do
LEMMA PullEffect ==
  ASSUME TypeInv, PopPull \/ NextRemove
  PROVE  \E k \in 0..Len(data_queue) :
           /\ k = Lesser(r_left, Len(data_queue))
           /\ consumed' = consumed \o SubSeq(data_queue, 1, k)
           /\ data_queue' = SubSeq(data_queue, k + 1, Len(data_queue))
           /\ consumed' \in Seq(Nat) /\ Len(consumed') = Len(consumed) + k
           /\ data_queue' \in Seq(Nat)
           /\ Len(data_queue') = Len(data_queue) - k
           /\ Stream' = Stream
<1>1. consumed \in Seq(Nat) /\ data_queue \in Seq(Nat) /\ r_left \in Nat
      /\ Len(data_queue) \in Nat
  BY DEF TypeInv, TypeOK
<1>2. PICK k : k = Lesser(r_left, Len(data_queue))
  OBVIOUS
<1>3. k \in 0..Len(data_queue)
  BY <1>1, <1>2, LesserBounds
<1>4. /\ consumed \o SubSeq(data_queue, 1, k) \in Seq(Nat)
      /\ Len(consumed \o SubSeq(data_queue, 1, k)) = Len(consumed) + k
      /\ (consumed \o SubSeq(data_queue, 1, k)) \o Without(data_queue, k)
           = consumed \o data_queue
      /\ Without(data_queue, r_left) = Without(data_queue, k)
      /\ Without(data_queue, k) = SubSeq(data_queue, k + 1, Len(data_queue))
  <2>1. PullFacts(consumed, data_queue, r_left, k)
    BY <1>1, <1>2, PullKeepsStream
  <2> QED
    BY <2>1 DEF PullFacts
<1>5. /\ consumed' = consumed \o SubSeq(data_queue, 1, k)
      /\ data_queue' = Without(data_queue, k)
  BY <1>2, <1>4 DEF PopPull, NextRemove
<1>6. /\ Without(data_queue, k) \in Seq(Nat)
      /\ Len(Without(data_queue, k)) = Len(data_queue) - k
  <2>1. k \in Nat /\ k <= Len(data_queue)
    BY <1>1, <1>3
  <2>2. /\ Without(data_queue, k) \in Seq(Nat)
        /\ Len(Without(data_queue, k)) = IF k >= Len(data_queue) THEN 0
                                        ELSE Len(data_queue) - k
    BY <1>1, <2>1, WithoutType
  <2>3. k >= Len(data_queue) => k = Len(data_queue)
    BY <1>1, <2>1
  <2> QED
    BY <1>1, <2>1, <2>2, <2>3
<1> QED
  BY <1>2, <1>3, <1>4, <1>5, <1>6 DEF Stream

\* Every step preserves the types
LEMMA TypeStep ==
  ASSUME TypeInv, [Next]_vars
  PROVE  TypeInv'
<1> USE DEF TypeInv, TypeOK, AddingCall, WriterPc, ReaderPc,
            ReaderInterface, queueVars, writerVars, readerVars, Woken
<1>1. CASE \E n \in 1..MaxChunk : AddDataPoints(n)
  BY <1>1 DEF AddDataPoints
<1>2. CASE AddDataPoint
  BY <1>2 DEF AddDataPoint
<1>3. CASE NotifyStreamEnd
  BY <1>3 DEF NotifyStreamEnd
<1>4. CASE Push
  <2>1. /\ data_queue' \in Seq(Nat)
        /\ next_point' \in Nat \ {0} /\ w_left' \in Nat
    BY <1>4, PushEffect
  <2> QED
    BY <1>4, <2>1 DEF Push
<1>5. CASE WriterFindsFull
  BY <1>5 DEF WriterFindsFull
<1>6. CASE AddTest
  <2>1. w_left' \in Nat /\ next_point' \in Nat \ {0}
    BY <1>6 DEF AddTest
  <2>2. w_pc' \in {"locking", "idle"} /\ w_call' = w_call
    BY <1>6 DEF AddTest
  <2>3. w_call' = "addDataPoints"
    BY <1>6 DEF AddTest
  <2> QED
    BY <1>6, <2>1, <2>2, <2>3 DEF AddTest
<1>7. CASE WriterWaits
  BY <1>7 DEF WriterWaits
<1>8. CASE NotifyReader
  BY <1>8 DEF NotifyReader
<1>9. CASE RestartStreaming
  BY <1>9 DEF RestartStreaming
<1>10. ASSUME NEW call \in ReaderInterface, NEW need \in Nat, NEW n \in Nat,
              StartReading(call, need, n)
       PROVE  TypeInv'
  BY <1>10 DEF StartReading
<1>11. CASE PopPull \/ NextRemove
  <2>1. /\ data_queue' \in Seq(Nat) /\ consumed' \in Seq(Nat)
        /\ Lesser(r_left, Len(data_queue)) \in Nat
        /\ Lesser(r_left, Len(data_queue)) <= r_left
    BY <1>11, PullEffect, LesserBounds
  <2>2. CASE PopPull
    BY <2>1, <2>2 DEF PopPull
  <2>3. CASE NextRemove
    BY <2>1, <2>3 DEF NextRemove
  <2> QED
    BY <1>11, <2>2, <2>3
<1>12. CASE GetCopy
  BY <1>12 DEF GetCopy, Lesser
<1>13. CASE PopTest
  BY <1>13 DEF PopTest
<1>14. CASE ReaderFindsTooFew
  BY <1>14 DEF ReaderFindsTooFew
<1>15. CASE ReaderWaits
  BY <1>15 DEF ReaderWaits
<1>16. CASE DiscardRestOfStream
  BY <1>16 DEF DiscardRestOfStream
<1>17. CASE \E m \in MaxSizes : SetQueueMaxSize(m)
  BY <1>17 DEF SetQueueMaxSize
<1>18. CASE UnblockReadOperations \/ ControllerNotifies
  <2>1. CASE UnblockReadOperations
    BY <2>1 DEF UnblockReadOperations
  <2>2. CASE ControllerNotifies
    BY <2>2 DEF ControllerNotifies
  <2> QED
    BY <1>18, <2>1, <2>2
<1>19. CASE SpuriousWakeup
  BY <1>19 DEF SpuriousWakeup
<1>20. CASE UNCHANGED vars
  BY <1>20 DEF vars
<1>21. CASE ReaderCall
  BY <1>10, <1>16, <1>21
     DEF ReaderCall, PopDataPoints, NextDataPoints, GetDataPoints
<1> QED
  BY <1>1, <1>2, <1>3, <1>4, <1>5, <1>6, <1>7, <1>8, <1>9, <1>11, <1>12,
     <1>13, <1>14, <1>15, <1>17, <1>18, <1>19, <1>20, <1>21
     DEF Next, WriterCall, WriterLocked, WriterUnlocked, ReaderLocked,
         ReaderUnlocked, Controller

\* The constructor gives the fields their types
LEMMA TypeInit == Init => TypeInv
<1> SUFFICES ASSUME Init PROVE TypeInv
  OBVIOUS
<1>1. data_queue \in Seq(Nat) /\ consumed \in Seq(Nat)
  BY DEF Init
<1>2. stream_ended \in BOOLEAN /\ queue_max_size \in Nat
  BY DEF Init
<1>3. TypeOK
  <2>1. /\ w_left \in Nat /\ next_point \in Nat \ {0}
        /\ r_need \in Nat /\ r_left \in Nat /\ r_got \in Nat
    BY DEF Init
  <2>2. /\ mutex = "none" /\ w_pc \in WriterPc /\ w_call = "none"
        /\ r_pc \in ReaderPc /\ r_call = "none" /\ c_pc = "idle"
    BY DEF Init, WriterPc, ReaderPc
  <2> QED
    BY <1>1, <1>2, <2>1, <2>2 DEF TypeOK
<1>4. AddingCall
  BY DEF Init, AddingCall
<1> QED
  BY <1>3, <1>4 DEF TypeInv

\* TypeInv is an invariant
LEMMA TypeInvHolds == Spec => []TypeInv
<1>1. Init => TypeInv
  BY TypeInit
<1>2. TypeInv /\ [Next]_vars => TypeInv'
  BY TypeStep
<1> QED
  BY <1>1, <1>2, PTL DEF Spec

(***************************************************************************)
(* The fields of the queue and the variables of its calls keep their       *)
(* types, whatever calls the threads make.                                 *)
(***************************************************************************)
THEOREM TypeCorrect == Spec => []TypeOK
<1>1. TypeInv => TypeOK
  BY DEF TypeInv
<1> QED
  BY <1>1, TypeInvHolds, PTL

-----------------------------------------------------------------------------
(* The order of the stream.  Only a push adds to Stream, a pull moves a    *)
(* point from one part of it to the other, a discard cuts it.              *)

\* The steps that touch neither the queue nor what was consumed
KeepsStream == UNCHANGED <<data_queue, consumed>>

\* Which steps do something to the stream
LEMMA StreamSteps ==
  ASSUME TypeInv, [Next]_vars
  PROVE  \/ Push /\ UNCHANGED consumed
         \/ PopPull \/ NextRemove
         \/ DiscardRestOfStream /\ UNCHANGED <<consumed, next_point>>
         \/ AddTest /\ KeepsStream
         \/ KeepsStream /\ UNCHANGED next_point
<1> USE DEF queueVars, writerVars, readerVars, KeepsStream
<1>1. CASE WriterCall \/ RestartStreaming
  BY <1>1 DEF WriterCall, AddDataPoints, AddDataPoint, NotifyStreamEnd,
              RestartStreaming
<1>2. CASE WriterLocked
  BY <1>2 DEF WriterLocked, Push, WriterFindsFull
<1>3. CASE WriterUnlocked
  BY <1>3 DEF WriterUnlocked, AddTest, WriterWaits, NotifyReader
<1>4. CASE ReaderCall
  BY <1>4 DEF ReaderCall, PopDataPoints, NextDataPoints, GetDataPoints,
              StartReading, DiscardRestOfStream
<1>5. CASE ReaderLocked
  BY <1>5 DEF ReaderLocked, GetCopy, ReaderFindsTooFew
<1>6. CASE ReaderUnlocked
  BY <1>6 DEF ReaderUnlocked, PopTest, ReaderWaits
<1>7. CASE Controller
  BY <1>7 DEF Controller, SetQueueMaxSize, UnblockReadOperations,
              ControllerNotifies
<1>8. CASE SpuriousWakeup
  BY <1>8 DEF SpuriousWakeup
<1>9. CASE UNCHANGED vars
  BY <1>9 DEF vars
<1> QED
  BY <1>1, <1>2, <1>3, <1>4, <1>5, <1>6, <1>7, <1>8, <1>9 DEF Next

(***************************************************************************)
(* The reader gets the points of the stream in order and each at most      *)
(* once, whatever the threads call and however the critical sections of    *)
(* their calls interleave.                                                 *)
(***************************************************************************)
THEOREM StreamStaysInOrder == Spec => []InStreamOrder
<1>1. Init => InStreamOrder
  BY DEF Init, InStreamOrder, Stream
<1>2. ASSUME InStreamOrder, TypeInv, [Next]_vars
      PROVE  InStreamOrder'
  <2> USE DEF TypeInv, TypeOK
  <2>1. Stream \in Seq(Nat) /\ Ordered(Stream, next_point)
    BY <1>2 DEF Stream, InStreamOrder, Ordered
  <2>2. SUFFICES Ordered(Stream', next_point')
    BY DEF Ordered, InStreamOrder
  <2>3. CASE Push /\ UNCHANGED consumed
    <3>1. /\ PushedPoints \in Nat
          /\ Stream' = consumed
                         \o (data_queue \o Points(next_point, PushedPoints))
          /\ next_point' = next_point + PushedPoints
      BY <1>2, <2>3, PushEffect DEF Stream
    <3>2. Points(next_point, PushedPoints) \in Seq(Nat)
      BY <1>2, <3>1, PointsType
    <3>3. Stream' = Stream \o Points(next_point, PushedPoints)
      <4>1. PICK new \in Seq(Nat) : new = Points(next_point, PushedPoints)
        BY <3>2
      <4>2. consumed \in Seq(Nat) /\ data_queue \in Seq(Nat)
        BY <1>2
      <4>3. (consumed \o data_queue) \o new = consumed \o (data_queue \o new)
        BY <4>2, ConcatAssociative
      <4> QED
        BY <3>1, <4>1, <4>3 DEF Stream
    <3> QED
      BY <1>2, <2>1, <3>1, <3>3, PushKeepsOrder
  <2>4. CASE PopPull \/ NextRemove
    <3>1. Stream' = Stream
      BY <1>2, <2>4, PullEffect
    <3>2. next_point' = next_point
      BY <2>4 DEF PopPull, NextRemove, writerVars
    <3> QED
      BY <2>1, <3>1, <3>2
  <2>5. CASE DiscardRestOfStream /\ UNCHANGED <<consumed, next_point>>
    <3>1. Stream' = consumed \o <<>>
      BY <2>5 DEF DiscardRestOfStream, Stream
    <3> QED
      BY <1>2, <2>1, <2>5, <3>1, PrefixKeepsOrder DEF Stream
  <2>6. CASE AddTest /\ KeepsStream
    <3>1. next_point' \in Nat /\ next_point <= next_point'
      BY <1>2, <2>6 DEF AddTest
    <3>2. Stream' = Stream
      BY <2>6 DEF KeepsStream, Stream
    <3>3. \A i \in 1..Len(Stream) : Stream[i] \in Nat
      BY <2>1, ElementOfSeq
    <3> QED
      BY <1>2, <2>1, <3>1, <3>2, <3>3 DEF Ordered
  <2>7. CASE KeepsStream /\ UNCHANGED next_point
    BY <2>1, <2>7 DEF KeepsStream, Stream
  <2> QED
    BY <1>2, <2>3, <2>4, <2>5, <2>6, <2>7, StreamSteps
<1> QED
  BY <1>1, <1>2, TypeInvHolds, PTL DEF Spec

-----------------------------------------------------------------------------
(* No wakeup is lost on the way of the data.  A thread that keeps the      *)
(* mutex until it waits cannot miss a change of the queue, and every       *)
(* change that could end a wait notifies.                                  *)

\* A thread has the mutex exactly while it is about to wait
MutexInv ==
  /\ w_pc = "blocking" <=> mutex = "writer"
  /\ r_pc = "blocking" <=> mutex = "reader"

\* NoMissedData, from the evaluation of the condition on
WaitsForData ==
  /\ w_pc \in {"blocking", "waiting"} => Len(data_queue) >= queue_max_size
  /\ r_pc \in {"blocking", "waiting"} => Len(data_queue) < r_need

WaitInv == MutexInv /\ WaitsForData

\* Every step preserves what the waiting threads wait for
LEMMA WaitStep ==
  ASSUME TypeInv, WaitInv, [Next]_vars
  PROVE  WaitInv'
<1> USE DEF WaitInv, MutexInv, WaitsForData, Woken, queueVars, writerVars,
            readerVars
<1>1. CASE \E n \in 1..MaxChunk : AddDataPoints(n)
  BY <1>1 DEF AddDataPoints
<1>2. CASE AddDataPoint
  BY <1>2 DEF AddDataPoint
<1>3. CASE NotifyStreamEnd \/ NotifyReader \/ RestartStreaming
  BY <1>3 DEF NotifyStreamEnd, NotifyReader, RestartStreaming
<1>4. CASE Push
  BY <1>4 DEF Push
<1>5. CASE WriterFindsFull
  BY <1>5 DEF WriterFindsFull, QueueNotFull, TypeInv, TypeOK
<1>6. CASE AddTest
  BY <1>6 DEF AddTest
<1>7. CASE WriterWaits
  BY <1>7 DEF WriterWaits
<1>8. CASE ReaderCall
  BY <1>8 DEF ReaderCall, PopDataPoints, NextDataPoints, GetDataPoints,
              StartReading, DiscardRestOfStream
<1>9. CASE PopPull
  BY <1>9 DEF PopPull, ReaderHasMutex
<1>10. CASE NextRemove
  BY <1>10 DEF NextRemove, ReaderHasMutex
<1>11. CASE GetCopy
  BY <1>11 DEF GetCopy, ReaderHasMutex
<1>12. CASE ReaderFindsTooFew
  BY <1>12 DEF ReaderFindsTooFew, QueueHasEnoughElements, TypeInv, TypeOK
<1>13. CASE ReaderUnlocked
  BY <1>13 DEF ReaderUnlocked, PopTest, ReaderWaits
<1>14. CASE Controller
  BY <1>14 DEF Controller, SetQueueMaxSize, UnblockReadOperations,
               ControllerNotifies
<1>15. CASE SpuriousWakeup
  BY <1>15 DEF SpuriousWakeup
<1>16. CASE UNCHANGED vars
  BY <1>16 DEF vars
<1> QED
  BY <1>1, <1>2, <1>3, <1>4, <1>5, <1>6, <1>7, <1>8, <1>9, <1>10, <1>11,
     <1>12, <1>13, <1>14, <1>15, <1>16
     DEF Next, WriterCall, WriterLocked, WriterUnlocked, ReaderLocked

(***************************************************************************)
(* The writer never sleeps next to a queue with room, nor the reader next  *)
(* to a queue with what it asked for, for every size, every request and    *)
(* every set of calls.                                                     *)
(***************************************************************************)
THEOREM NoDataIsMissed == Spec => []NoMissedData
<1>1. Init => WaitInv
  BY DEF Init, WaitInv, MutexInv, WaitsForData
<1>2. WaitInv /\ TypeInv /\ [Next]_vars => WaitInv'
  BY WaitStep
<1>3. WaitInv => NoMissedData
  BY DEF WaitInv, WaitsForData, NoMissedData
<1> QED
  BY <1>1, <1>2, <1>3, TypeInvHolds, PTL DEF Spec

-----------------------------------------------------------------------------
(* The queue under the calls of the application.                           *)

\* The bound holds, and the calls ask for something
BoundInv ==
  /\ queue_max_size = InitialMaxSize
  /\ Len(data_queue) <= InitialMaxSize
  /\ next_point + w_left <= MaxPoints + 1
  /\ w_pc \in {"locking", "blocking", "waiting"} => w_left # 0
  /\ w_call # "addDataPoint"
  /\ c_pc = "idle"
  /\ r_call \in {"none", "popDataPoints"}
  /\ r_pc \in {"locking", "blocking", "waiting", "testing"}
       => r_call = "popDataPoints" /\ r_need = 1
  /\ r_pc \in {"locking", "blocking", "waiting"} => r_left # 0

\* The stream is complete, and an empty read has seen its end
CompleteInv ==
  r_pc # "done" =>
    /\ Len(Stream) = next_point - 1
    /\ \A i \in 1..Len(Stream) : Stream[i] = i
    /\ stream_ended => w_pc \in {"ending", "ended"}
    /\ r_pc \in {"testing", "idle"} /\ r_call = "popDataPoints" /\ r_got = 0
         => stream_ended /\ data_queue = <<>>

AppInv == TypeInv /\ BoundInv /\ CompleteInv

\* What the critical section of addDataPoints adds fits into the queue, and
\* is something unless the rest was discarded
LEMMA PushFits ==
  ASSUME TypeInv, BoundInv, Push
  PROVE  /\ PushedPoints = Lesser(w_left, InitialMaxSize - Len(data_queue))
         /\ Len(data_queue') <= InitialMaxSize
         /\ PushedPoints <= MaxPoints
         /\ ~stream_ended => PushedPoints \in 1..MaxPoints
<1>1. PushedPoints = Lesser(w_left, PushableElements)
  BY DEF PushedPoints, BoundInv
<1>2. PushableElements = InitialMaxSize - Len(data_queue)
  <2>1. InitialMaxSize - Len(data_queue) \in 0..(ULong - 1) /\ ULong \in Nat
    BY QueueAssumption DEF BoundInv, TypeInv, TypeOK
  <2>2. \A x \in 0..(ULong - 1) : x % ULong = x
    BY <2>1
  <2> QED
    BY <2>1, <2>2 DEF PushableElements, BoundInv
<1>3. Len(data_queue') = Len(data_queue) + PushedPoints
      /\ PushedPoints \in Nat /\ PushedPoints <= w_left
  BY PushEffect
<1>4. w_left # 0 /\ w_left \in Nat /\ w_left <= MaxPoints
  BY QueueAssumption DEF Push, BoundInv, TypeInv, TypeOK
<1>5. ~stream_ended => Len(data_queue) < InitialMaxSize
  BY DEF Push, QueueNotFull, BoundInv
<1> QED
  BY <1>1, <1>2, <1>3, <1>4, <1>5, QueueAssumption
     DEF Lesser, BoundInv, TypeInv, TypeOK

\* The actions the application's calls leave
LEMMA ApplicationSteps ==
  ASSUME ApplicationCalls, TypeInv, BoundInv, [Next]_vars
  PROVE  \/ \E n \in 1..MaxChunk : AddDataPoints(n)
         \/ AddTest \/ Push \/ WriterFindsFull \/ WriterWaits
         \/ NotifyStreamEnd \/ NotifyReader
         \/ \E n \in 1..MaxRequest : PopDataPoints(n)
         \/ PopPull \/ PopTest \/ ReaderFindsTooFew \/ ReaderWaits
         \/ DiscardRestOfStream
         \/ SpuriousWakeup
         \/ UNCHANGED vars
<1>1. ~AddDataPoint /\ ~RestartStreaming
  BY DEF ApplicationCalls, AddDataPoint, RestartStreaming
<1>2. \A n, offset : ~GetDataPoints(n, offset) /\ ~NextDataPoints(n)
  BY DEF ApplicationCalls, GetDataPoints, NextDataPoints, StartReading
<1>3. ~Controller
  BY DEF ApplicationCalls, Controller, SetQueueMaxSize, UnblockReadOperations,
         ControllerNotifies, BoundInv
<1>4. ~GetCopy /\ ~NextRemove
  BY DEF GetCopy, NextRemove, ReaderHasMutex, BoundInv
<1> QED
  BY <1>1, <1>2, <1>3, <1>4
     DEF Next, WriterCall, WriterLocked, WriterUnlocked, ReaderCall,
         ReaderLocked, ReaderUnlocked

\* Every step keeps the bound
LEMMA BoundStep ==
  ASSUME ApplicationCalls, TypeInv, BoundInv, [Next]_vars
  PROVE  BoundInv'
<1> USE DEF BoundInv, Woken, queueVars, writerVars, readerVars
<1> USE QueueAssumption
<1>1. CASE \E n \in 1..MaxChunk : AddDataPoints(n)
  BY <1>1 DEF AddDataPoints, TypeInv, TypeOK
<1>2. CASE AddTest
  BY <1>2 DEF AddTest, TypeInv, TypeOK
<1>3. CASE Push
  <2>1. /\ Len(data_queue') <= InitialMaxSize
        /\ next_point' = next_point + PushedPoints
        /\ w_left' = w_left - PushedPoints /\ PushedPoints \in Nat
    BY <1>3, PushFits, PushEffect
  <2>2. next_point' + w_left' = next_point + w_left
    BY <2>1 DEF TypeInv, TypeOK
  <2> QED
    BY <1>3, <2>1, <2>2 DEF Push
<1>4. CASE WriterFindsFull \/ WriterWaits
  BY <1>4 DEF WriterFindsFull, WriterWaits
<1>5. CASE NotifyStreamEnd \/ NotifyReader
  BY <1>5 DEF NotifyStreamEnd, NotifyReader
<1>6. CASE \E n \in 1..MaxRequest : PopDataPoints(n)
  BY <1>6 DEF PopDataPoints, StartReading
<1>7. CASE PopPull
  <2>1. /\ data_queue' \in Seq(Nat)
        /\ Len(data_queue') <= Len(data_queue)
    BY <1>7, PullEffect DEF TypeInv, TypeOK
  <2> QED
    BY <1>7, <2>1 DEF PopPull, ReaderHasMutex, TypeInv, TypeOK
<1>8. CASE PopTest
  BY <1>8 DEF PopTest
<1>9. CASE ReaderFindsTooFew \/ ReaderWaits
  BY <1>9 DEF ReaderFindsTooFew, ReaderWaits
<1>10. CASE DiscardRestOfStream
  <2>1. Len(data_queue') = 0
    BY <1>10 DEF DiscardRestOfStream
  <2> QED
    BY <1>10, <2>1 DEF DiscardRestOfStream
<1>11. CASE SpuriousWakeup
  BY <1>11 DEF SpuriousWakeup
<1>12. CASE UNCHANGED vars
  BY <1>12 DEF vars
<1> QED
  BY <1>1, <1>2, <1>3, <1>4, <1>5, <1>6, <1>7, <1>8, <1>9, <1>10, <1>11,
     <1>12, ApplicationSteps

\* Every step keeps the stream complete
LEMMA CompleteStep ==
  ASSUME ApplicationCalls, AppInv, [Next]_vars
  PROVE  CompleteInv'
<1> USE DEF AppInv, Woken, queueVars, writerVars, readerVars
<1>1. CASE AddTest
  <2>1. Stream' = Stream
    BY <1>1 DEF AddTest, Stream
  <2>2. w_left \in Nat /\ next_point \in Nat
    BY DEF TypeInv, TypeOK
  <2>3. r_pc # "done" => next_point' = next_point
    BY <1>1, <2>2 DEF AddTest, CompleteInv
  <2> QED
    BY <1>1, <2>1, <2>3 DEF AddTest, CompleteInv
<1>2. CASE Push
  <2>1. SUFFICES ASSUME r_pc # "done"
                 PROVE  CompleteInv'
    BY <1>2 DEF Push, CompleteInv
  <2>2. ~stream_ended /\ w_pc = "locking"
    BY <1>2, <2>1 DEF Push, CompleteInv
  <2>3. /\ PushedPoints \in Nat
        /\ Points(next_point, PushedPoints) \in Seq(Nat)
        /\ Len(Points(next_point, PushedPoints)) = PushedPoints
        /\ \A i \in 1..PushedPoints :
             Points(next_point, PushedPoints)[i] = next_point + i - 1
        /\ Stream' = consumed \o (data_queue \o Points(next_point, PushedPoints))
        /\ next_point' = next_point + PushedPoints
    BY <1>2, PushEffect, PointsType DEF Stream, Push, TypeInv, TypeOK
  <2>4. /\ consumed \in Seq(Nat) /\ data_queue \in Seq(Nat)
        /\ next_point \in Nat \ {0}
    BY DEF TypeInv, TypeOK
  <2>5. /\ Len(Stream) = next_point - 1
        /\ \A i \in 1..Len(Stream) : Stream[i] = i
    BY <2>1 DEF CompleteInv
  <2>6. PICK new \in Seq(Nat) : new = Points(next_point, PushedPoints)
    BY <2>3
  <2>7. Stream' = Stream \o new
    <3>1. (consumed \o data_queue) \o new = consumed \o (data_queue \o new)
      BY <2>4, ConcatAssociative
    <3> QED
      BY <2>3, <2>6, <3>1 DEF Stream
  <2>8. Stream \in Seq(Nat)
    BY <2>4 DEF Stream
  <2>9. /\ Len(Stream') = next_point' - 1
        /\ \A i \in 1..Len(Stream') : Stream'[i] = i
    BY <2>3, <2>4, <2>5, <2>6, <2>7, <2>8, ConcatProperties
  <2> QED
    BY <1>2, <2>1, <2>2, <2>9 DEF Push, CompleteInv
<1>3. CASE PopPull
  <2>1. /\ Stream' = Stream
        /\ data_queue \in Seq(Nat) /\ data_queue' \in Seq(Nat)
        /\ Len(data_queue') = Len(data_queue) - Lesser(r_left, Len(data_queue))
    BY <1>3, PullEffect DEF TypeInv, TypeOK
  <2>2. r_got' = r_got + Lesser(r_left, Len(data_queue)) /\ r_got \in Nat
        /\ r_left \in Nat /\ r_left # 0 /\ Len(data_queue) \in Nat
    BY <1>3 DEF PopPull, ReaderHasMutex, BoundInv, TypeInv, TypeOK
  <2>3. r_got' = 0 => Len(data_queue) = 0 /\ Len(data_queue') = 0
    BY <2>1, <2>2 DEF Lesser
  <2>4. r_got' = 0 => data_queue' = <<>> /\ stream_ended
    BY <1>3, <2>1, <2>3
       DEF PopPull, ReaderHasMutex, QueueHasEnoughElements, BoundInv
  <2> QED
    BY <1>3, <2>1, <2>4 DEF PopPull, ReaderHasMutex, CompleteInv
<1>5. CASE DiscardRestOfStream
  BY <1>5 DEF DiscardRestOfStream, CompleteInv
<1>4. CASE UNCHANGED <<data_queue, consumed, next_point>>
  <2>1. Stream' = Stream
    BY <1>4 DEF Stream
  <2>2. CASE \E n \in 1..MaxChunk : AddDataPoints(n)
    BY <1>4, <2>1, <2>2 DEF AddDataPoints, CompleteInv
  <2>4. CASE WriterFindsFull \/ WriterWaits
    BY <1>4, <2>1, <2>4 DEF WriterFindsFull, WriterWaits, CompleteInv
  <2>5. CASE NotifyStreamEnd \/ NotifyReader
    BY <1>4, <2>1, <2>5 DEF NotifyStreamEnd, NotifyReader, CompleteInv
  <2>6. CASE \E n \in 1..MaxRequest : PopDataPoints(n)
    BY <1>4, <2>1, <2>6 DEF PopDataPoints, StartReading, CompleteInv
  <2>7. CASE PopTest
    BY <1>4, <2>1, <2>7 DEF PopTest, CompleteInv
  <2>8. CASE ReaderFindsTooFew \/ ReaderWaits
    BY <1>4, <2>1, <2>8 DEF ReaderFindsTooFew, ReaderWaits, CompleteInv
  <2>10. CASE SpuriousWakeup
    BY <1>4, <2>1, <2>10 DEF SpuriousWakeup, CompleteInv
  <2>11. CASE UNCHANGED vars
    BY <1>4, <2>1, <2>11 DEF vars, CompleteInv
  <2> QED
    BY <1>1, <1>2, <1>3, <1>5, <2>2, <2>4, <2>5, <2>6, <2>7, <2>8, <2>10,
       <2>11, ApplicationSteps
<1> QED
  <2>1. \/ AddTest \/ Push \/ PopPull \/ DiscardRestOfStream
        \/ UNCHANGED <<data_queue, consumed, next_point>>
    BY StreamSteps DEF KeepsStream, ApplicationCalls, NextRemove,
                       ReaderHasMutex, BoundInv
  <2> QED
    BY <1>1, <1>2, <1>3, <1>4, <1>5, <2>1

\* AppInv is an invariant under the calls of the application
LEMMA AppInvHolds ==
  ASSUME ApplicationCalls
  PROVE  Spec => []AppInv
<1>1. Init => AppInv
  <2> SUFFICES ASSUME Init PROVE AppInv
    OBVIOUS
  <2>1. TypeInv
    BY TypeInit
  <2>2. Len(data_queue) = 0 /\ Len(Stream) = 0
    BY DEF Init, Stream
  <2>3. BoundInv
    BY <2>2, QueueAssumption DEF Init, BoundInv
  <2>4. CompleteInv
    BY <2>2 DEF Init, CompleteInv
  <2> QED
    BY <2>1, <2>3, <2>4 DEF AppInv
<1>2. AppInv /\ [Next]_vars => AppInv'
  BY TypeStep, BoundStep, CompleteStep DEF AppInv
<1> QED
  BY <1>1, <1>2, PTL DEF Spec

(***************************************************************************)
(* Until the reader discards the rest, every point the writer has handed   *)
(* over was removed by the reader or is in the queue.                      *)
(***************************************************************************)
THEOREM NothingIsLost ==
  ASSUME ApplicationCalls
  PROVE  Spec => []NothingLost
<1>1. AppInv => NothingLost
  BY DEF AppInv, CompleteInv, NothingLost
<1> QED
  BY <1>1, AppInvHolds, PTL

(***************************************************************************)
(* No insertion overfills the queue.                                       *)
(***************************************************************************)
THEOREM InsertsFit ==
  ASSUME ApplicationCalls
  PROVE  Spec => InsertsRespectMax
<1>1. AppInv /\ AppInv' /\ [Next]_vars
        => [Len(data_queue') > Len(data_queue)
              => Len(data_queue') <= queue_max_size]_vars
  BY DEF AppInv, BoundInv
<1> QED
  BY <1>1, AppInvHolds, PTL DEF Spec, InsertsRespectMax

(***************************************************************************)
(* A popDataPoints that returns nothing has seen the end of the stream:    *)
(* the writer has ended it and every one of its points was removed.        *)
(***************************************************************************)
THEOREM EmptyReadsAreTheEnd ==
  ASSUME ApplicationCalls
  PROVE  Spec => EmptyReadMeansDrained
<1>1. AppInv /\ AppInv' /\ [Next]_vars
        => [(PopPull /\ r_got' = 0)
              => /\ data_queue = <<>>
                 /\ w_pc \in {"ending", "ended"}
                 /\ Len(consumed) = next_point - 1]_vars
  <2> SUFFICES ASSUME AppInv, PopPull, r_got' = 0
               PROVE  /\ data_queue = <<>>
                      /\ w_pc \in {"ending", "ended"}
                      /\ Len(consumed) = next_point - 1
    OBVIOUS
  <2>1. data_queue \in Seq(Nat) /\ consumed \in Seq(Nat)
    BY DEF AppInv, TypeInv, TypeOK
  <2>2. r_left \in Nat /\ r_left # 0 /\ r_got \in Nat /\ r_need = 1
    BY DEF PopPull, ReaderHasMutex, AppInv, BoundInv, TypeInv, TypeOK
  <2>3. r_got' = r_got + Lesser(r_left, Len(data_queue))
    BY DEF PopPull
  <2>4. Len(data_queue) = 0
    BY <2>1, <2>2, <2>3 DEF Lesser
  <2>5. data_queue = <<>>
    BY <2>1, <2>4
  <2>6. stream_ended /\ r_pc # "done"
    BY <2>2, <2>4 DEF PopPull, ReaderHasMutex, QueueHasEnoughElements
  <2>7. w_pc \in {"ending", "ended"} /\ Len(Stream) = next_point - 1
    BY <2>6 DEF AppInv, CompleteInv
  <2> QED
    BY <2>1, <2>5, <2>7 DEF Stream
<1> QED
  BY <1>1, AppInvHolds, PTL DEF Spec, EmptyReadMeansDrained

-----------------------------------------------------------------------------
(* The refinement of BoundedStream.                                        *)

\* The abstract state is a function of these expressions
LEMMA SameAbstractState ==
  ASSUME r_pc' = "done" <=> r_pc = "done",
         r_pc = "done" \/ data_queue' = data_queue,
         consumed' = consumed, stream_ended' = stream_ended,
         ReaderSawEnd' <=> ReaderSawEnd
  PROVE  UNCHANGED Abstract!vars
BY DEF Abstract!vars

\* Every step of the queue is a step of the stream or none
LEMMA RefinementStep ==
  ASSUME ApplicationCalls, AppInv, [Next]_vars
  PROVE  [Abstract!Next]_(Abstract!vars)
<1> USE DEF Woken, queueVars, writerVars, readerVars
<1>1. CASE \/ \E n \in 1..MaxChunk : AddDataPoints(n)
           \/ AddTest \/ WriterFindsFull \/ WriterWaits \/ NotifyReader
           \/ ReaderFindsTooFew \/ ReaderWaits \/ SpuriousWakeup
           \/ UNCHANGED vars
  <2>1. /\ data_queue' = data_queue /\ consumed' = consumed
        /\ stream_ended' = stream_ended
        /\ r_pc' = "done" <=> r_pc = "done"
        /\ r_pc' = "idle" <=> r_pc = "idle"
        /\ r_call' = r_call /\ r_got' = r_got
    BY <1>1 DEF AddDataPoints, AddTest, WriterFindsFull, WriterWaits,
                NotifyReader, ReaderFindsTooFew, ReaderWaits, SpuriousWakeup,
                vars
  <2> QED
    BY <2>1, SameAbstractState DEF ReaderSawEnd
<1>2. CASE NotifyStreamEnd
  BY <1>2 DEF NotifyStreamEnd, ReaderSawEnd, Abstract!Next, Abstract!Close
<1>3. CASE DiscardRestOfStream
  BY <1>3 DEF DiscardRestOfStream, ReaderSawEnd, Abstract!Next,
              Abstract!Abandon
<1>4. CASE PopTest
  <2>1. CASE ~ReaderSawEnd'
    <3>1. ~ReaderSawEnd
      BY <1>4 DEF PopTest, ReaderSawEnd
    <3> QED
      BY <1>4, <2>1, <3>1, SameAbstractState DEF PopTest
  <2>2. CASE ReaderSawEnd'
    <3>1. /\ stream_ended /\ data_queue = <<>> /\ r_pc # "done"
          /\ r_pc' # "done"
      BY <1>4, <2>2 DEF PopTest, ReaderSawEnd, AppInv, CompleteInv
    <3>2. Abstract!SeeEnd
      BY <1>4, <2>2, <3>1 DEF PopTest, Abstract!SeeEnd
    <3> QED
      BY <3>2 DEF Abstract!Next
  <2> QED
    BY <2>1, <2>2
<1>5. CASE \E n \in 1..MaxRequest : PopDataPoints(n)
  <2>1. /\ UNCHANGED <<data_queue, consumed, stream_ended>>
        /\ r_pc = "idle" /\ r_pc' = "locking" /\ ~ReaderSawEnd'
    BY <1>5 DEF PopDataPoints, StartReading, ReaderSawEnd
  <2>2. CASE ~ReaderSawEnd
    BY <2>1, <2>2, SameAbstractState
  <2>3. CASE ReaderSawEnd
    <3>1. Abstract!ReadAgain
      BY <2>1, <2>3 DEF Abstract!ReadAgain
    <3> QED
      BY <3>1 DEF Abstract!Next
  <2> QED
    BY <2>2, <2>3
<1>6. CASE Push
  <2>1. CASE r_pc = "done"
    BY <1>6, <2>1, SameAbstractState DEF Push, ReaderSawEnd
  <2>2. CASE r_pc # "done"
    <3>1. /\ ~stream_ended /\ ~ReaderSawEnd' /\ ~ReaderSawEnd
          /\ r_pc' # "done"
      BY <1>6, <2>2 DEF Push, ReaderSawEnd, AppInv, CompleteInv
    <3>2. PICK n \in 1..MaxPoints : n = PushedPoints
      BY <1>6, <3>1, PushFits DEF AppInv
    <3>3. /\ Len(data_queue') = Len(data_queue) + n
          /\ Len(data_queue') <= InitialMaxSize
          /\ data_queue' = data_queue \o Points(next_point, n)
          /\ next_point' = next_point + n
          /\ next_point + n <= MaxPoints + 1
      <4>1. /\ n <= w_left /\ next_point + w_left <= MaxPoints + 1
            /\ w_left \in Nat /\ next_point \in Nat
        BY <1>6, <3>2, PushEffect DEF AppInv, BoundInv, TypeInv, TypeOK
      <4>2. /\ Len(data_queue') = Len(data_queue) + PushedPoints
            /\ data_queue' = data_queue \o Points(next_point, PushedPoints)
            /\ next_point' = next_point + PushedPoints
        BY <1>6, PushEffect DEF AppInv
      <4>3. Len(data_queue') <= InitialMaxSize
        BY <1>6, PushFits DEF AppInv
      <4>4. next_point + n <= MaxPoints + 1
        BY <4>1, QueueAssumption
      <4> QED
        BY <3>2, <4>2, <4>3, <4>4
    <3>4. Len(consumed) + Len(data_queue) = next_point - 1
      <4>1. Len(Stream) = next_point - 1
        BY <2>2 DEF AppInv, CompleteInv
      <4>2. Len(Stream) = Len(consumed) + Len(data_queue)
        BY ConcatProperties DEF Stream, AppInv, TypeInv, TypeOK
      <4> QED
        BY <4>1, <4>2
    <3>5. Points(next_point, n)
            = [i \in 1..n |-> (Len(consumed) + Len(data_queue)) + i]
      BY <3>4 DEF Points, AppInv, TypeInv, TypeOK
    <3>6. Abstract!Send(n)
      <4>1. /\ data_queue' = data_queue
                 \o [i \in 1..n |-> (Len(consumed) + Len(data_queue)) + i]
            /\ Len(data_queue) + n <= InitialMaxSize
            /\ (Len(consumed) + Len(data_queue)) + n <= MaxPoints
        BY <3>3, <3>4, <3>5, QueueAssumption DEF AppInv, TypeInv, TypeOK
      <4>2. consumed' = consumed /\ stream_ended' = stream_ended
        BY <1>6 DEF Push
      <4>3. ReaderSawEnd' = ReaderSawEnd
        BY <3>1 DEF ReaderSawEnd
      <4> QED
        BY <2>2, <3>1, <4>1, <4>2, <4>3 DEF Abstract!Send
    <3> QED
      BY <3>6 DEF Abstract!Next
  <2> QED
    BY <2>1, <2>2
<1>7. CASE PopPull
  <2>1. /\ r_pc # "done" /\ r_pc' # "done"
        /\ ~ReaderSawEnd /\ ~ReaderSawEnd' /\ stream_ended' = stream_ended
    BY <1>7 DEF PopPull, ReaderHasMutex, ReaderSawEnd
  <2>2. PICK k \in 0..Len(data_queue) :
          /\ consumed' = consumed \o SubSeq(data_queue, 1, k)
          /\ data_queue' = SubSeq(data_queue, k + 1, Len(data_queue))
    BY <1>7, PullEffect DEF AppInv
  <2>3. CASE k = 0
    <3>1. SubSeq(data_queue, 1, 0) = <<>>
          /\ SubSeq(data_queue, 1, Len(data_queue)) = data_queue
      BY SubSeqEmpty, SubSeqFull DEF AppInv, TypeInv, TypeOK
    <3>2. consumed \o <<>> = consumed
      BY ConcatEmptySeq DEF AppInv, TypeInv, TypeOK
    <3>3. consumed' = consumed /\ data_queue' = data_queue
      BY <2>2, <2>3, <3>1, <3>2, 0 + 1 = 1
    <3> QED
      BY <2>1, <3>3, SameAbstractState
  <2>4. CASE k # 0
    <3>1. k \in 1..Len(data_queue)
      BY <2>4
    <3>2. Abstract!Take(k)
      <4>1. ReaderSawEnd' = ReaderSawEnd
        BY <2>1 DEF ReaderSawEnd
      <4> QED
        BY <2>1, <2>2, <4>1 DEF Abstract!Take
    <3> QED
      BY <2>1, <3>1, <3>2 DEF Abstract!Next
  <2> QED
    BY <2>3, <2>4
<1> QED
  BY <1>1, <1>2, <1>3, <1>4, <1>5, <1>6, <1>7, ApplicationSteps DEF AppInv

(***************************************************************************)
(* Under the calls of the application the queue is a bounded stream, for   *)
(* every size of the queue, every stream and every request.                *)
(***************************************************************************)
THEOREM QueueIsBoundedStream ==
  ASSUME ApplicationCalls
  PROVE  Spec => ImplementsBoundedStream
<1>1. Init => Abstract!Init
  BY DEF Init, Abstract!Init, ReaderSawEnd
<1>2. AppInv /\ [Next]_vars => [Abstract!Next]_(Abstract!vars)
  BY RefinementStep
<1> QED
  BY <1>1, <1>2, AppInvHolds, PTL DEF Spec, Abstract!Spec,
                                      ImplementsBoundedStream
=============================================================================
