-------------------------- MODULE EventCollection --------------------------
(***************************************************************************)
(* What the classifier promises of the events it is given: an event waits  *)
(* until it has its turn, once.  Then it gets the label the label file has *)
(* for it, or is unlabeled until the user labels it.  No event leaves the  *)
(* collection, only the user changes a label, and what the classifier      *)
(* takes an event for is not its label.                                    *)
(***************************************************************************)
CONSTANTS
  Arriving,     \* the events that may arrive
  Devices,      \* the labels the user knows
  Starts,       \* what the collection may start with
  FileLabels,   \* the labels in the label file, as event and label
  Timed,        \* what the user may label by its time, as event and label
  Named         \* the events that have a name the user can use

VARIABLES
  arrived,      \* the events that have arrived
  waiting,      \* those that have not had their turn
  unlabeled,
  labels        \* the labels that were given, as event and label

vars == <<arrived, waiting, unlabeled, labels>>

Given(event, label) == [event |-> event, label |-> label]

Init == arrived = {} /\ waiting = {} /\ unlabeled = {} /\ labels = {}

\* What an earlier run of the program has left
Load(start) ==
  /\ waiting = {} /\ unlabeled = {} /\ labels = {}
  /\ unlabeled' = start.unlabeled /\ labels' = start.labels
  /\ UNCHANGED <<arrived, waiting>>

Arrive(event) ==
  /\ event \notin arrived
  /\ arrived' = arrived \union {event}
  /\ waiting' = waiting \union {event}
  /\ UNCHANGED <<unlabeled, labels>>

\* The event has its turn: the label file knows it ...
SettleLabeled(event, label) ==
  /\ event \in waiting /\ Given(event, label) \in FileLabels
  /\ waiting' = waiting \ {event}
  /\ labels' = labels \union {Given(event, label)}
  /\ UNCHANGED <<arrived, unlabeled>>

\* ... or it does not
SettleUnlabeled(event) ==
  /\ event \in waiting /\ \A given \in FileLabels : given.event # event
  /\ waiting' = waiting \ {event}
  /\ unlabeled' = unlabeled \union {event}
  /\ UNCHANGED <<arrived, labels>>

\* The user labels an event.  One that could not be classified is in the
\* collection twice: it may stay unlabeled as well
AddLabel(event, label) ==
  /\ event \in unlabeled
  /\ event \in Named \/ Given(event, label) \in Timed
  /\ labels' = labels \union {Given(event, label)}
  /\ unlabeled' \in {unlabeled, unlabeled \ {event}}
  /\ UNCHANGED <<arrived, waiting>>

\* The user changes a label, but not as long as the event is unlabeled as
\* well.  It may have been given twice
ChangeLabel(old, label) ==
  /\ old \in labels /\ old.event \in Named /\ old.event \notin unlabeled
  /\ labels' \in {kept \union {Given(old.event, label)} :
                    kept \in {labels, labels \ {old}}}
  /\ UNCHANGED <<arrived, waiting, unlabeled>>

Next ==
  \/ \E start \in Starts : Load(start)
  \/ \E event \in Arriving : Arrive(event)
  \/ \E event \in waiting :
       SettleUnlabeled(event) \/ \E label \in Devices : SettleLabeled(event, label)
  \/ \E event \in unlabeled, label \in Devices : AddLabel(event, label)
  \/ \E old \in labels, label \in Devices : ChangeLabel(old, label)

Spec == Init /\ [][Next]_vars
=============================================================================
