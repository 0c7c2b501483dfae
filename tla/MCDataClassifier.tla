-------------------------- MODULE MCDataClassifier --------------------------
(***************************************************************************)
(* Instances of DataClassifier for TLC.  Events 1 to 3 are labeled in the  *)
(* model the program starts with and event 4 is not; 5 and 6 are detected, *)
(* 6 without an id, as all events of the server are.  Every event is ten   *)
(* seconds after the one before it.                                        *)
(***************************************************************************)
EXTENDS DataClassifier

CONSTANTS A, B          \* two labels

Ids1To5  == [e \in Events |-> IF e <= 5 THEN e ELSE NoId]
Times    == [e \in Events |-> 10 * e]

Labeled(e, label) == [event |-> e, label |-> label, certainty |-> 0]

OldModel ==
  [labeled   |-> <<Labeled(1, A), Labeled(2, A), Labeled(3, B)>>,
   unlabeled |-> <<Feature(4)>>]

\* Nothing was loaded, or the model of an earlier run
FirstStart == {EmptyManager}
AnyStart   == {EmptyManager, OldModel}

\* Prerecorded data: the first pair is that of event 6, the second one is
\* rejected for being too close to it
NoLabelFile == <<>>
OneLabel    == <<[label |-> A, time |-> 61], [label |-> B, time |-> 59]>>

\* Pairs for the events 4 and 5
NoPairs  == {}
TwoPairs == {[label |-> A, time |-> 41], [label |-> B, time |-> 51]}
=============================================================================
