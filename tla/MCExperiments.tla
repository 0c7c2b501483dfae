---------------------------- MODULE MCExperiments ----------------------------
(***************************************************************************)
(* Instances of Experiments for TLC: a period has 8 points, and the label  *)
(* file has a line for every event but event 1.                            *)
(***************************************************************************)
EXTENDS Experiments

CONSTANTS A, B, C       \* labels

Ids   == [e \in Events |-> e + 1]
Times == [e \in Events |-> 10 * e]

EventLabels == <<A, A, B, B, A, C, B>>

AllButEvent1 ==
  FoldLeft(LAMBDA lines, e :
             IF e = 1 THEN lines
             ELSE Append(lines, [label |-> EventLabels[e + 1], time |-> 10 * e]),
           <<>>, [i \in 1..Cardinality(Events) |-> i - 1])

Shape(before, points) == [before |-> before, points |-> points]

Usual  == Shape(16, 32)
Longer == Shape(16, 48)     \* more features from the same transforms

\* A smaller transform, a short one before the event, less data than there
\* should be before it, a transform too short to search, no whole period
Others == {Longer, Shape(12, 28), Shape(4, 32), Shape(16, 12), Shape(8, 16),
           Shape(16, 20)}

\* Directories with events like each other, different ones, and a gap
AllDirectories ==
       {[e \in 0..n |-> Usual] : n \in {0, 4, 5, 6}}
  \union [0..2 -> {Usual} \union Others] \union [0..3 -> {Usual, Longer}]
  \union {[e \in {0, 1, 2, 4} |-> Usual]}
=============================================================================
