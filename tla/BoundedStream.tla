--------------------------- MODULE BoundedStream ---------------------------
(***************************************************************************)
(* What an AsyncDataQueue promises the two threads at its ends: a stream   *)
(* of data points that is read in order through a buffer of Capacity       *)
(* points, whose producer can close it, whose consumer can abandon it, and *)
(* whose consumer sees the end of the stream only after its last point.    *)
(***************************************************************************)
EXTENDS Integers, Sequences

CONSTANTS
  Capacity,     \* the number of points the buffer holds
  MaxPoints     \* bound: the number of points of the stream

VARIABLES
  buffered,     \* the points on the way, oldest first
  consumed,     \* the points the consumer has got, in order
  closed,       \* the stream was closed or abandoned
  eof,          \* the last read of the consumer found the end of the stream
  abandoned     \* the consumer does not read any more

vars == <<buffered, consumed, closed, eof, abandoned>>

Init ==
  /\ buffered = <<>> /\ consumed = <<>>
  /\ closed = FALSE /\ eof = FALSE /\ abandoned = FALSE

\* The producer appends the next n points of the stream
Send(n) ==
  /\ ~closed
  /\ Len(buffered) + n <= Capacity
  /\ LET sent == Len(consumed) + Len(buffered)
     IN  /\ sent + n <= MaxPoints
         /\ buffered' = buffered \o [i \in 1..n |-> sent + i]
  /\ UNCHANGED <<consumed, closed, eof, abandoned>>

\* The consumer takes the n oldest points
Take(n) ==
  /\ ~abandoned
  /\ consumed' = consumed \o SubSeq(buffered, 1, n)
  /\ buffered' = SubSeq(buffered, n + 1, Len(buffered))
  /\ UNCHANGED <<closed, eof, abandoned>>

Close ==
  /\ closed' = TRUE
  /\ UNCHANGED <<buffered, consumed, eof, abandoned>>

\* A read that finds nothing
SeeEnd ==
  /\ closed /\ buffered = <<>> /\ ~abandoned
  /\ eof' = TRUE
  /\ UNCHANGED <<buffered, consumed, closed, abandoned>>

\* The consumer, having seen the end, reads again
ReadAgain ==
  /\ eof
  /\ eof' = FALSE
  /\ UNCHANGED <<buffered, consumed, closed, abandoned>>

Abandon ==
  /\ abandoned' = TRUE /\ closed' = TRUE /\ eof' = FALSE
  /\ buffered' = <<>>
  /\ UNCHANGED consumed

Next ==
  \/ \E n \in 1..MaxPoints : Send(n)
  \/ \E n \in 1..Len(buffered) : Take(n)
  \/ Close \/ SeeEnd \/ ReadAgain \/ Abandon

Spec == Init /\ [][Next]_vars
=============================================================================
