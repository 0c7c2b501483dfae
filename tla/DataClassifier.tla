--------------------------- MODULE DataClassifier ---------------------------
(***************************************************************************)
(* The classifier (data_analyzer/src/DataClassifier.h) and the threads     *)
(* that use it: the main thread loads the model, starts the runner, pushes *)
(* the events the detector reports and stops the runner in the end; the    *)
(* runner classifies the events it finds on the stack; the message loop    *)
(* labels and reclassifies events for the user.                            *)
(*                                                                         *)
(* events_mutex guards the stack and the label manager, but                *)
(* continue_analyzing is written without it.  As in AsyncDataQueue, a      *)
(* critical section is one step, and a wait is two: the evaluation of the  *)
(* condition, which keeps the mutex, and the wait, which releases it.      *)
(***************************************************************************)
EXTENDS EventLabelManager

CONSTANTS
  K,                \* the neighbors classifyOneEvent asks for (5 in the code)
  Models,           \* the models the program can start with
  NewEvents,        \* the events the main thread pushes
  LabelTimePairs,   \* the pairs addLabel is called with
  Stops             \* the stop functions the main thread calls

ASSUME ClassifierAssumption ==
  /\ K \in Nat \ {0}
  /\ Models \subseteq Managers
  /\ \A model \in Models : \A i \in DOMAIN model.labeled :
       model.labeled[i].label \in Labels
  /\ NewEvents \subseteq Events
  /\ LabelTimePairs \subseteq [label : Labels, time : Int]
  /\ Stops \subseteq {"stopAnalyzingWhenDone", "stopAnalyzingImmediately"}

VARIABLES
  events,               \* the stack, its top last
  manager,              \* event_label_manager
  tree,                 \* nns: the events it was built from
  continue_analyzing,
  events_mutex,         \* the thread that keeps it, or "none"
  main_pc, runner_pc, loop_pc,
  pushed                \* history: the events pushed

dataVars == <<events, manager, tree, pushed>>
pcVars   == <<main_pc, runner_pc, loop_pc>>
vars     == <<dataVars, pcVars, continue_analyzing, events_mutex>>

\* The thread that throws or reads through a null nns takes the process along
Terminated == main_pc' = "terminated" /\ runner_pc' = "terminated"
                /\ loop_pc' = "terminated"

LabeledEvents(m) == [i \in DOMAIN m.labeled |-> m.labeled[i].event]

\* regenerateMatrix
NotRegeneratedMutant(m) == tree
RegeneratedTree(m) == IF m.labeled = <<>> THEN tree ELSE LabeledEvents(m)

\* notify_one or notify_all on events_empty_variable
NotNotifiedMutant(pc) == pc
Woken(pc) == IF pc = "waiting" THEN "locking" ELSE pc

-----------------------------------------------------------------------------
(* classifyOneEvent.                                                       *)

\* nns->knn: which points of the tree are the nearest is up to the features.
\* It throws unless it has more than K points.
Neighbors == IF Len(tree) > K THEN kSubset(K, DOMAIN tree) ELSE {}

EnoughLabeled == Len(manager.labeled) > K

Classified(f, neighbors) ==
  LET class == Majority([i \in neighbors |-> manager.labeled[i].label])
  IN  [f EXCEPT !.label = class.label, !.certainty = class.certainty]

-----------------------------------------------------------------------------
Init ==
  /\ events = <<>> /\ manager = EmptyManager /\ tree = <<>>
  /\ continue_analyzing = TRUE
  /\ events_mutex = "none"
  /\ main_pc = "loading" /\ runner_pc = "none" /\ loop_pc = "none"
  /\ pushed = {}

-----------------------------------------------------------------------------
(* The main thread.                                                        *)

\* loadOldModel calls setEventLabelManager, and the message loop is started
SetEventLabelManager(model) ==
  /\ main_pc = "loading"
  /\ manager' = model /\ tree' = RegeneratedTree(model)
  /\ main_pc' = "starting" /\ loop_pc' = "serving"
  /\ UNCHANGED <<events, pushed, runner_pc, continue_analyzing, events_mutex>>

StartClassification ==
  /\ main_pc = "starting"
  /\ continue_analyzing' = TRUE
  /\ main_pc' = "detecting" /\ runner_pc' = "locking"
  /\ UNCHANGED <<dataVars, loop_pc, events_mutex>>

\* pushEvent: the notification comes after the mutex is released, but there
\* is nothing in between that another thread could tell from its coming late
PushEvent(event) ==
  /\ main_pc = "detecting" /\ events_mutex = "none"
  /\ event \notin pushed
  /\ events' = Append(events, event)
  /\ pushed' = pushed \union {event}
  /\ runner_pc' = Woken(runner_pc)
  /\ UNCHANGED <<manager, tree, main_pc, loop_pc, continue_analyzing,
                 events_mutex>>

\* SmartApp calls stopAnalyzingWhenDone, the destructor the other one
Stop(function) ==
  /\ main_pc = "detecting"
  /\ main_pc' = IF function = "stopAnalyzingWhenDone" THEN "locking"
                ELSE "stopping"
  /\ UNCHANGED <<dataVars, runner_pc, loop_pc, continue_analyzing,
                 events_mutex>>

DoneTooEarlyMutant == TRUE
StackIsEmpty == events = <<>>

\* stopAnalyzingWhenDone: the stack is empty ...
SeesDone ==
  /\ main_pc = "locking" /\ events_mutex = "none" /\ StackIsEmpty
  /\ main_pc' = "stopping"
  /\ UNCHANGED <<dataVars, runner_pc, loop_pc, continue_analyzing,
                 events_mutex>>

\* ... or it waits for somebody to tell it
MainFindsEvents ==
  /\ main_pc = "locking" /\ events_mutex = "none" /\ ~StackIsEmpty
  /\ main_pc' = "blocking" /\ events_mutex' = "main"
  /\ UNCHANGED <<dataVars, runner_pc, loop_pc, continue_analyzing>>

MainWaits ==
  /\ main_pc = "blocking"
  /\ main_pc' = "waiting" /\ events_mutex' = "none"
  /\ UNCHANGED <<dataVars, runner_pc, loop_pc, continue_analyzing>>

\* stopAnalyzingImmediately: the store without the mutex, notify_all, join
StopAnalyzing ==
  /\ main_pc = "stopping"
  /\ continue_analyzing' = FALSE
  /\ main_pc' = "notifying"
  /\ UNCHANGED <<dataVars, runner_pc, loop_pc, events_mutex>>

NotifyAll ==
  /\ main_pc = "notifying"
  /\ main_pc' = "joining" /\ runner_pc' = Woken(runner_pc)
  /\ UNCHANGED <<dataVars, loop_pc, continue_analyzing, events_mutex>>

Join ==
  /\ main_pc = "joining" /\ runner_pc = "returned"
  /\ main_pc' = "stopped"
  /\ UNCHANGED <<dataVars, runner_pc, loop_pc, continue_analyzing,
                 events_mutex>>

-----------------------------------------------------------------------------
(* The runner.                                                             *)

\* processOneEvent: the entry that is added, and whether it is labeled
FindsLabel(event) == getEventLabel(event) # NoLabel

\* findLabelAndAddEvent, addEventToNormalizedMatrix
AddsLabeled(event) ==
  /\ FindsLabel(event)
  /\ manager' = addLabeledEvent(manager, Feature(event), getEventLabel(event))
  /\ tree' = RegeneratedTree(manager')

\* classifyOneEventAndPushToLabelManager: the classification is dropped
ClassifiesAndDrops(event) ==
  /\ ~FindsLabel(event)
  /\ EnoughLabeled /\ Neighbors # {}
  /\ manager' = addClassifiedEvent(manager, Feature(event))
  /\ UNCHANGED tree

\* ... or classifyOneEvent throws
CannotClassify(event) ==
  /\ ~FindsLabel(event)
  /\ ~EnoughLabeled \/ (tree # <<>> /\ Neighbors = {})
  /\ LET unknown == [Feature(event) EXCEPT !.label = EventUnknown]
     IN  manager' = addClassifiedEvent(addUnLabeledEvent(manager, unknown),
                                       unknown)
  /\ UNCHANGED tree

Top == Last(events)

\* An iteration of run: pop_back comes after the event was processed
ProcessEvent ==
  /\ runner_pc = "locking" /\ events_mutex = "none"
  /\ continue_analyzing /\ events # <<>>
  /\ \/ AddsLabeled(Top) \/ ClassifiesAndDrops(Top) \/ CannotClassify(Top)
  /\ events' = Front(events)
  /\ UNCHANGED <<pushed, pcVars, continue_analyzing, events_mutex>>

\* Enough labeled events, but the matrix was never generated; or the slot of
\* event_classified reads a label that is not there, which boost may assert
RunnerTerminates ==
  /\ runner_pc = "locking" /\ events_mutex = "none"
  /\ continue_analyzing /\ events # <<>>
  /\ ~FindsLabel(Top) /\ EnoughLabeled
  /\ tree = <<>> \/ Neighbors # {}
  /\ Terminated
  /\ UNCHANGED <<dataVars, continue_analyzing, events_mutex>>

RunnerReturns ==
  /\ runner_pc = "locking" /\ events_mutex = "none"
  /\ ~continue_analyzing
  /\ runner_pc' = "returned"
  /\ UNCHANGED <<dataVars, main_pc, loop_pc, continue_analyzing,
                 events_mutex>>

RunnerFindsNothing ==
  /\ runner_pc = "locking" /\ events_mutex = "none"
  /\ continue_analyzing /\ events = <<>>
  /\ runner_pc' = "blocking" /\ events_mutex' = "runner"
  /\ UNCHANGED <<dataVars, main_pc, loop_pc, continue_analyzing>>

RunnerWaits ==
  /\ runner_pc = "blocking"
  /\ runner_pc' = "waiting" /\ events_mutex' = "none"
  /\ UNCHANGED <<dataVars, main_pc, loop_pc, continue_analyzing>>

-----------------------------------------------------------------------------
(* The message loop, and the condition variable.                           *)

Serving == loop_pc = "serving" /\ events_mutex = "none"

AddLabelById(id, label) ==
  /\ Serving
  /\ manager' = addLabelById(manager, id, label)
  /\ tree' = IF KnowsId(manager, id) THEN RegeneratedTree(manager') ELSE tree
  /\ UNCHANGED <<events, pushed, pcVars, continue_analyzing, events_mutex>>

\* addLabel(label time pair) does not regenerate the matrix
AddLabel(pair) ==
  /\ Serving
  /\ manager' = addLabelByTime(manager, pair)
  /\ UNCHANGED <<events, tree, pushed, pcVars, continue_analyzing,
                 events_mutex>>

Reclassify(id) ==
  LET i == IndexOfId(manager.unlabeled, id)
  IN  /\ Serving /\ i # 0 /\ EnoughLabeled
      /\ \E neighbors \in Neighbors :
           manager' = setEvent(manager, id,
                               Classified(manager.unlabeled[i], neighbors))
      /\ UNCHANGED <<events, tree, pushed, pcVars, continue_analyzing,
                     events_mutex>>

\* classifyOneEvent throws, nobody catches: std::terminate
ReclassifyTerminates(id) ==
  /\ Serving /\ IndexOfId(manager.unlabeled, id) # 0
  /\ ~EnoughLabeled \/ Neighbors = {}
  /\ Terminated
  /\ UNCHANGED <<dataVars, continue_analyzing, events_mutex>>

SpuriousWakeup ==
  /\ \/ runner_pc = "waiting" /\ runner_pc' = "locking" /\ UNCHANGED main_pc
     \/ main_pc = "waiting" /\ main_pc' = "locking" /\ UNCHANGED runner_pc
  /\ UNCHANGED <<dataVars, loop_pc, continue_analyzing, events_mutex>>

-----------------------------------------------------------------------------
Ids == {EventId[e] : e \in Events} \ {NoId}

MainStarts ==
  \/ \E model \in Models : SetEventLabelManager(model)
  \/ StartClassification

MainPushes == \E event \in NewEvents : PushEvent(event)

MainStops == \E function \in Stops : Stop(function)

MainLocked   == SeesDone \/ MainFindsEvents
MainUnlocked == MainWaits \/ StopAnalyzing \/ NotifyAll \/ Join

RunnerLocked ==
  ProcessEvent \/ RunnerTerminates \/ RunnerReturns \/ RunnerFindsNothing

User ==
  \/ \E id \in Ids, label \in Labels : AddLabelById(id, label)
  \/ \E pair \in LabelTimePairs : AddLabel(pair)
  \/ \E id \in Ids : Reclassify(id) \/ ReclassifyTerminates(id)

Next ==
  \/ MainStarts \/ MainPushes \/ MainStops \/ MainLocked \/ MainUnlocked
  \/ RunnerLocked \/ RunnerWaits
  \/ User
  \/ SpuriousWakeup

Spec == Init /\ [][Next]_vars

(***************************************************************************)
(* Fairness: the threads are scheduled, and one that keeps asking for the  *)
(* mutex gets it.  The main thread starts the runner; nothing is assumed   *)
(* of events, of stops, of the user and of spurious wakeups.               *)
(***************************************************************************)
Fairness ==
  /\ WF_vars(MainStarts) /\ SF_vars(MainLocked) /\ WF_vars(MainUnlocked)
  /\ SF_vars(RunnerLocked) /\ WF_vars(RunnerWaits)

FairSpec == Spec /\ Fairness

-----------------------------------------------------------------------------
(* Properties.                                                             *)

Stored(m) == {e \in Events : IsStored(m, e)}

(***************************************************************************)
(* The types of the fields; what the tree is read with, the label of every *)
(* labeled event, is there (classifyOneEvent dereferences it).             *)
(***************************************************************************)
TypeOK ==
  /\ events \in Seq(NewEvents)
  /\ manager \in Managers
  /\ \A i \in DOMAIN manager.labeled : manager.labeled[i].label \in Labels
  /\ tree \in Seq(Events)
  /\ continue_analyzing \in BOOLEAN
  /\ events_mutex \in {"none", "main", "runner"}
  /\ main_pc \in {"loading", "starting", "detecting", "locking", "blocking",
                  "waiting", "stopping", "notifying", "joining", "stopped",
                  "terminated"}
  /\ runner_pc \in {"none", "locking", "blocking", "waiting", "returned",
                    "terminated"}
  /\ loop_pc \in {"none", "serving", "terminated"}
  /\ pushed \subseteq NewEvents

(***************************************************************************)
(* No event is forgotten: one that was pushed or loaded stays on the stack *)
(* or in the label manager, through processing, labeling (swap and         *)
(* pop_back) and reclassification in any order.                            *)
(***************************************************************************)
NothingForgotten ==
  [][Range(events) \union Stored(manager)
       \subseteq Range(events') \union Stored(manager')]_vars

(***************************************************************************)
(* What the user labeled stays labeled as it is, until the user labels     *)
(* that event again: neither the runner nor reclassify overwrites it.      *)
(***************************************************************************)
UserLabelsSurvive ==
  [][\A f \in Range(manager.labeled) :
       \/ f \in Range(manager'.labeled)
       \/ \E label \in Labels : AddLabelById(EventId[f.event], label)]_vars

(***************************************************************************)
(* The indices knn returns are positions in labeled_events, and lead to    *)
(* the event the tree was built from.  Only events that were labeled by    *)
(* their time can be missing in it (addLabel does not regenerate it).      *)
(***************************************************************************)
SearchTreeFits ==
  /\ IsPrefix(tree, LabeledEvents(manager))
  /\ \A i \in Len(tree) + 1..Len(manager.labeled) :
       \E pair \in LabelTimePairs :
         IsNear(pair.time, EventTime[manager.labeled[i].event])

(***************************************************************************)
(* stopAnalyzingWhenDone loses nothing: when it goes on to stop the        *)
(* runner, every event pushed is in the label manager.                     *)
(***************************************************************************)
StoppedWhenDone == [][SeesDone => pushed \subseteq Stored(manager)]_vars

(***************************************************************************)
(* Every event pushed is classified or labeled, unless the runner is       *)
(* stopped or the process ends.                                            *)
(***************************************************************************)
PushedAreStored ==
  \A e \in NewEvents :
    e \in pushed ~>
      \/ e \in Stored(manager)
      \/ main_pc \in {"stopping", "notifying", "joining", "stopped",
                      "terminated"}

(***************************************************************************)
(* stopAnalyzingWhenDone goes on to stop the runner "as soon as there are  *)
(* no more events on the stack".                                           *)
(***************************************************************************)
StopsWhenDone ==
  main_pc = "locking" ~> main_pc \in {"stopping", "terminated"}
-----------------------------------------------------------------------------
(* The classifier is a collection of events: the stack holds those that    *)
(* wait for their turn, and the label manager all others.                  *)

UnlabeledEvents(m) == {f.event : f \in Range(m.unlabeled)}
GivenLabels(m) ==
  {[event |-> f.event, label |-> f.label] : f \in Range(m.labeled)}

\* What the label file says, and what addLabel(label time pair) may say
FileLabels == {[event |-> e, label |-> getEventLabel(e)] :
                 e \in {x \in Events : FindsLabel(x)}}
TimedLabels ==
  UNION {{[event |-> e, label |-> pair.label] :
            e \in {x \in Events : IsNear(pair.time, EventTime[x])}} :
         pair \in LabelTimePairs}

Collection == INSTANCE EventCollection WITH
  Arriving   <- NewEvents,
  Devices    <- Labels,
  Starts     <- {[unlabeled |-> UnlabeledEvents(m), labels |-> GivenLabels(m)] :
                   m \in Models},
  Timed      <- TimedLabels,
  Named      <- {e \in Events : EventId[e] # NoId},
  arrived    <- pushed,
  waiting    <- Range(events),
  unlabeled  <- UnlabeledEvents(manager),
  labels     <- GivenLabels(manager)

(***************************************************************************)
(* The classifier implements EventCollection: every event has its turn     *)
(* once, labels come from the label file and the user, labeling by swap    *)
(* and pop_back moves the event that was named and no other, and neither   *)
(* classifying nor reclassifying an event labels it.                       *)
(***************************************************************************)
ImplementsCollection == Collection!Spec
==============================================================================
