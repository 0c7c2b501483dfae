-------------------------- MODULE EventLabelManager --------------------------
(***************************************************************************)
(* The labeled and the unlabeled events of the classifier, and what its    *)
(* methods do to them (data_analyzer/src/EventLabelManager.h).  None of    *)
(* the methods is thread safe: the classifier calls them under its mutex.  *)
(*                                                                         *)
(* An event stands for its feature vector.  An entry of one of the two     *)
(* vectors is an event with the label and the certainty the classifier or  *)
(* the user gave it; certainty counts the neighbors that agreed.           *)
(***************************************************************************)
EXTENDS Integers, Sequences, FiniteSets, SequencesExt, FiniteSetsExt

CONSTANTS
  Events,               \* the events
  EventId,              \* the event_id of every event, or NoId
  EventTime,            \* the event_time of every event, in milliseconds
  Labels,               \* the labels of devices; EventUnknown is none of them
  LabelFile,            \* the lines of the label file: labels with their times
  AcceptedDifference    \* accepted_time_difference (2500 in the code)

NoId         == 0       \* boost::none
NoLabel      == -1      \* boost::none
EventUnknown == 0

ASSUME LabelAssumption ==
  /\ EventId \in [Events -> Nat]
  /\ EventTime \in [Events -> Int]
  /\ Labels \subseteq Nat \ {EventUnknown}
  /\ LabelFile \in Seq([label : Labels, time : Int])
  /\ AcceptedDifference \in Nat

Entry    == [event : Events, label : Labels \union {EventUnknown, NoLabel},
             certainty : Nat]
Managers == [labeled : Seq(Entry), unlabeled : Seq(Entry)]

EmptyManager == [labeled |-> <<>>, unlabeled |-> <<>>]

Feature(event) == [event |-> event, label |-> NoLabel, certainty |-> 0]

IsStored(manager, event) ==
  \E f \in Range(manager.labeled) \union Range(manager.unlabeled) :
    f.event = event

-----------------------------------------------------------------------------
(* The label-time list of prerecorded data.                                *)

\* Equivalent for TimePairComparator; labelIsForEvent
IsNear(time, other) ==
  time - other <= AcceptedDifference /\ other - time <= AcceptedDifference

\* loadLabelsFromFile: the set takes no pair next to one it has
LoadedLabels ==
  LET Loaded[n \in 0..Len(LabelFile)] ==
        IF n = 0 THEN {}
        ELSE IF \E l \in Loaded[n - 1] : IsNear(l.time, LabelFile[n].time)
          THEN Loaded[n - 1]
          ELSE Loaded[n - 1] \union {LabelFile[n]}
  IN  Loaded[Len(LabelFile)]

\* labels.find(to_search): the earliest pair that is near
getEventLabel(event) ==
  LET near == {l \in LoadedLabels : IsNear(l.time, EventTime[event])}
  IN  IF near = {} THEN NoLabel
      ELSE (CHOOSE l \in near : \A m \in near : l.time <= m.time).label

-----------------------------------------------------------------------------
(* Entries come and go.                                                    *)

LabelDroppedMutant(manager, f, label) ==
  [manager EXCEPT !.labeled = Append(@, f)]
LabelBeforePushMutant(manager, f, label) ==
  LET labels == [i \in DOMAIN manager.labeled |->
                   IF i = Len(manager.labeled)
                     THEN [manager.labeled[i] EXCEPT !.label = label]
                     ELSE manager.labeled[i]]
  IN  [manager EXCEPT !.labeled = Append(labels, [f EXCEPT !.label = label])]
addLabeledEvent(manager, f, label) ==
  [manager EXCEPT !.labeled = Append(@, [f EXCEPT !.label = label])]

addUnLabeledEvent(manager, f) ==
  [manager EXCEPT !.unlabeled = Append(@, f)]

addClassifiedEvent(manager, f) == addUnLabeledEvent(manager, f)

\* Swap with the last entry, and pop_back
PoppedWithoutSwapMutant(entries, i) == Front(entries)
SwappedOut(entries, i) == Front([entries EXCEPT ![i] = Last(entries)])

MoveToLabeled(manager, i, label) ==
  addLabeledEvent([manager EXCEPT !.unlabeled = SwappedOut(@, i)],
                  manager.unlabeled[i], label)

\* std::find_if: the first entry with the id, or 0
IndexOfId(entries, id) == SelectInSeq(entries, LAMBDA f : EventId[f.event] = id)

-----------------------------------------------------------------------------
(* addLabel(event_id, label) and addLabel(label time pair).                *)

KnowsId(manager, id) ==
  IndexOfId(manager.unlabeled, id) # 0 \/ IndexOfId(manager.labeled, id) # 0

addLabelById(manager, id, label) ==
  LET unlabeled == IndexOfId(manager.unlabeled, id)
      labeled   == IndexOfId(manager.labeled, id)
  IN  CASE unlabeled # 0 -> MoveToLabeled(manager, unlabeled, label)
        [] unlabeled = 0 /\ labeled # 0 ->
             [manager EXCEPT !.labeled[labeled].label = label]
        [] OTHER -> manager

addLabelByTime(manager, pair) ==
  LET i == SelectInSeq(manager.unlabeled,
                       LAMBDA f : IsNear(pair.time, EventTime[f.event]))
  IN  IF i = 0 THEN manager ELSE MoveToLabeled(manager, i, pair.label)

\* setEvent(event_id, event)
setEvent(manager, id, f) ==
  LET i == IndexOfId(manager.unlabeled, id)
  IN  IF i = 0 THEN manager ELSE [manager EXCEPT !.unlabeled[i] = f]

-----------------------------------------------------------------------------
(* What classifyOneEvent makes of the labels of the neighbors.             *)

\* The most frequent label, the least of them, and how often it occurs
Majority(labels) ==
  LET Count(l) == Cardinality({i \in DOMAIN labels : labels[i] = l})
      best == {l \in Range(labels) :
                 \A other \in Range(labels) : Count(other) <= Count(l)}
  IN  [label |-> Min(best), certainty |-> Count(Min(best))]
=============================================================================
