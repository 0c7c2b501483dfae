----------------------------- MODULE Experiments -----------------------------
(***************************************************************************)
(* The experiments, three programs that pass files to each other:          *)
(*   event_classification_setup   loads stored events, labels them by      *)
(*                                their times and archives the manager;    *)
(*   slimmed_validation           cross validates the archived events;     *)
(*   data_vis                     prints events and validation results.    *)
(* Archives are read as they were written; manager and results stand for   *)
(* the objects and for their archives.                                     *)
(***************************************************************************)
EXTENDS EventLabelManager, FeatureExtractor

CONSTANTS
  Directories,      \* event directories: the shape of every stored event
  Partitions,       \* number_of_partitions (10 in the code)
  K                 \* the neighbors classifyOneEvent asks for (5)

ASSUME ExperimentAssumption ==
  /\ Events \subseteq Nat
  /\ \A d \in Directories :
       /\ DOMAIN d \subseteq Events /\ Range(d) \subseteq Shapes
       /\ IsFiniteSet(DOMAIN d)
  /\ K \in Nat \ {0} /\ Partitions \in Nat /\ Partitions > K

VARIABLES
  directory,
  pc,               \* "loading", "stopping", "archived", "validating",
                    \* "validated", "printed", "undefined" or "aborted"
  uuid,             \* i: the event that is loaded next
  events,           \* the stack of the classifier, its top last
  calculator,       \* the buffers of the classifier's feature extractor
  manager,
  partition,        \* i of crossValidate
  training_set,
  results,
  output            \* what data_vis has printed

setupVars      == <<uuid, events, calculator>>
validationVars == <<partition, training_set, results>>
vars == <<directory, pc, setupVars, manager, validationVars, output>>

NoOutput == [command |-> "none"]

Init ==
  /\ directory \in Directories
  /\ pc = "loading"
  /\ uuid = 0 /\ events = <<>> /\ calculator = FreshCalculator
  /\ manager = EmptyManager
  /\ partition = 0 /\ training_set = <<>> /\ results = <<>>
  /\ output = NoOutput

-----------------------------------------------------------------------------
(* classifyOneEventAndPushToLabelManager, which both programs call.        *)

FeatureCount(event) == NumberOfFeatures(directory[event])

\* The rows of labeled_matrix, and of the normalization vectors
MatrixRows(m) == FeatureCount(Last(m.labeled).event)

\* normalizeEvent: the assertion of Eigen on the index
NormalizationAborts(m, f) ==
  Len(m.labeled) > K /\ FeatureCount(f.event) > MatrixRows(m)

CanClassify(m, f) ==
  Len(m.labeled) > K /\ FeatureCount(f.event) = MatrixRows(m)

\* What classifyOneEvent can answer: any K events may be the nearest
Classes(m) ==
  {Majority([i \in neighbors |-> m.labeled[i].label]).label :
     neighbors \in kSubset(K, DOMAIN m.labeled)}

\* The answer is dropped: the event goes on as it came
Dropped(f, class) == f

\* What is added to unlabeled_events, where classifyOneEvent throws twice
Pushed(m, f, class) ==
  LET unknown == [f EXCEPT !.label = EventUnknown]
  IN  IF CanClassify(m, f) THEN <<Dropped(f, class)>> ELSE <<unknown, unknown>>

-----------------------------------------------------------------------------
(* event_classification_setup: main loads, the runner of the classifier    *)
(* (module DataClassifier) processes what it finds on the stack.           *)

\* loadEvent throws if there is no file with the number
HasFile(event_uuid) == event_uuid \in DOMAIN directory

\* storage.loadEvent(i), pushEvent
LoadEvent ==
  /\ pc = "loading" /\ HasFile(uuid)
  /\ events' = Append(events, uuid)
  /\ uuid' = uuid + 1
  /\ UNCHANGED <<directory, pc, calculator, manager, validationVars, output>>

\* The first file that cannot be opened ends the loop
LoadThrows ==
  /\ pc = "loading" /\ ~HasFile(uuid)
  /\ pc' = "stopping"
  /\ UNCHANGED <<directory, setupVars, manager, validationVars, output>>

\* run: the runner takes the event that was pushed last
Processes(event) ==
  pc \in {"loading", "stopping"} /\ events # <<>> /\ event = Last(events)

Extracts(event) ==
  Processes(event) /\ Extraction(calculator, directory[event]) = "extracted"

ExtractedAndPopped(event) ==
  /\ calculator' = AfterFFT(calculator, NumDataPoints(directory[event]))
  /\ events' = Front(events)
  /\ UNCHANGED <<directory, pc, uuid, validationVars, output>>

\* generateMatrixFromLabeledEvents: a column for every event, as long as the
\* last one; Eigen asserts that they fit
ColumnsFit(m) ==
  \A f \in Range(m.labeled) : FeatureCount(f.event) = MatrixRows(m)

AddsLabeled(event) ==
  /\ Extracts(event) /\ getEventLabel(event) # NoLabel
  /\ manager' = addLabeledEvent(manager, Feature(event), getEventLabel(event))
  /\ ColumnsFit(manager')
  /\ ExtractedAndPopped(event)

AddsUnlabeled(event) ==
  /\ Extracts(event) /\ getEventLabel(event) = NoLabel
  /\ ~NormalizationAborts(manager, Feature(event))
  /\ manager' = [manager EXCEPT !.unlabeled =
                   @ \o Pushed(manager, Feature(event), NoLabel)]
  /\ ExtractedAndPopped(event)

Terminates(event, reason) ==
  /\ pc' = reason
  /\ UNCHANGED <<directory, setupVars, manager, validationVars, output>>

MatrixAborts(event) ==
  /\ Extracts(event)
  /\ IF getEventLabel(event) = NoLabel
       THEN NormalizationAborts(manager, Feature(event))
       ELSE ~ColumnsFit(addLabeledEvent(manager, Feature(event),
                                        getEventLabel(event)))
  /\ Terminates(event, "aborted")

ExtractionFails(event) ==
  /\ Processes(event) /\ ~Extracts(event)
  /\ Terminates(event, Extraction(calculator, directory[event]))

StoppedEarlyMutant == TRUE
StackIsEmpty == events = <<>>

\* stopAnalyzingWhenDone, and the archive is written.  It sleeps if it has
\* found events on the stack, until it is woken by chance.
StopAnalyzingWhenDone ==
  /\ pc = "stopping" /\ StackIsEmpty
  /\ pc' = "archived"
  /\ UNCHANGED <<directory, setupVars, manager, validationVars, output>>

-----------------------------------------------------------------------------
(* slimmed_validation.                                                     *)

elements_per_partition(labeled) == Len(labeled) \div Partitions

\* getPartition; positions are counted from 1
OneMoreMutant(labeled, part) ==
  Min({Len(labeled), (part + 1) * elements_per_partition(labeled) + 1})
EndOfPartition(labeled, part) ==
  Min({Len(labeled), (part + 1) * elements_per_partition(labeled)})

PartitionRange(labeled, part) ==
  elements_per_partition(labeled) * part + 1..EndOfPartition(labeled, part)

getPartition(labeled, part) ==
  SubSeq(labeled, elements_per_partition(labeled) * part + 1,
         EndOfPartition(labeled, part))

\* *r_end after n increments
NotIncrementedMutant(labeled, n) == Last(labeled)
FromTheEnd(labeled, n) == labeled[Len(labeled) - n]

\* dropPartition: the partition changes places with the end, which resize
\* cuts off; the last partition is taken to be the end
dropPartition(labeled, part) ==
  [i \in 1..Len(labeled) - elements_per_partition(labeled) |->
     IF part # Partitions - 1 /\ i \in PartitionRange(labeled, part)
       THEN FromTheEnd(labeled, i - Min(PartitionRange(labeled, part)))
       ELSE labeled[i]]

\* main: the archive is read and shuffled without the unlabeled events
InitLabelManagerWithoutMisdetected ==
  /\ pc = "archived"
  /\ \E order \in Bijection(DOMAIN manager.labeled, DOMAIN manager.labeled) :
       manager' = [labeled   |-> [i \in DOMAIN manager.labeled |->
                                    manager.labeled[order[i]]],
                   unlabeled |-> <<>>]
  /\ pc' = "validating"
  /\ UNCHANGED <<directory, setupVars, validationVars, output>>

Guess(actual, f) ==
  [actual_label |-> actual.label, classified_label |-> f.label,
   event_id |-> f.event]

\* validatePartition(labeled_events, test_set): the classifier gets all the
\* labeled events.  The assertion is that every test has one result.
validatePartition(test, classified) ==
  [i \in DOMAIN test |-> Guess(test[i], classified[i])]

\* One turn of the loop of crossValidate
ValidatePartition ==
  LET test == getPartition(manager.labeled, partition)
  IN  /\ pc = "validating"
      /\ training_set' = dropPartition(manager.labeled, partition)
      /\ \E class \in [DOMAIN test -> Classes(manager)] :
           LET classified == FlattenSeq([i \in DOMAIN test |->
                               Pushed(manager, test[i], class[i])])
           IN  IF Len(classified) = Len(test)
                 THEN /\ results' =
                           Append(results, validatePartition(test, classified))
                      /\ pc' = IF partition + 1 = Partitions THEN "validated"
                               ELSE pc
                 ELSE pc' = "aborted" /\ UNCHANGED results
      /\ partition' = partition + 1
      /\ UNCHANGED <<directory, setupVars, manager, output>>

-----------------------------------------------------------------------------
(* data_vis: CrossValidationStats ...                                      *)

IsCorrect(guess) == guess.classified_label = guess.actual_label

allClassifications == FlattenSeq(results)

correctClassifications == SelectSeq(allClassifications, IsCorrect)

incorrectClassifications ==
  SelectSeq(allClassifications, LAMBDA guess : ~IsCorrect(guess))

\* stats[guess.actual_label] += ...: every label of a guess has an entry
Stats(guesses, correct) ==
  [label \in {guess.actual_label : guess \in Range(guesses)} |->
     Cardinality({i \in DOMAIN guesses :
                    /\ guesses[i].actual_label = label
                    /\ IsCorrect(guesses[i]) = correct})]

correctClassificationStats(guesses) == Stats(guesses, TRUE)

incorrectClassificationStats(guesses) == Stats(guesses, FALSE)

classificationStats ==
  LET correct   == correctClassificationStats(allClassifications)
      incorrect == incorrectClassificationStats(allClassifications)
  IN  [label \in DOMAIN correct |-> <<correct[label], incorrect[label]>>]

PerformValidationResultsVisualisation(command) ==
  /\ pc = "validated"
  /\ output' =
       [command |-> command,
        printed |->
          CASE command = "false-classifications" -> incorrectClassifications
            [] command = "stats" -> <<Len(correctClassifications),
                                      Len(incorrectClassifications)>>
            [] command = "appliance-stats" -> classificationStats]
  /\ pc' = "printed"
  /\ UNCHANGED <<directory, setupVars, manager, validationVars>>

(* ... and EventVisualizer, whose extractor and calculators live as long   *)
(* as the process.  No file is changed: the model ends with a data_vis.    *)

EventLines(command, shape) ==
  CASE command = "event"       -> shape.points
    [] command = "fvect"       -> NumberOfFeatures(shape)
    [] command = "fft"         -> EventPoints(shape)
    [] command = "fft-before"  -> shape.before
    [] command = "fft-limited" -> NumDataPoints(shape)

\* A transform of no points has no kiss_fft_cfg, and kiss_fft uses it
EventOutcome(command, shape) ==
  CASE command = "event" -> "printed"
    [] command = "fvect" -> Extraction(FreshCalculator, shape)
    [] OTHER -> IF \/ shape.points < shape.before
                   \/ EventLines(command, shape) = 0
                  THEN "undefined" ELSE "printed"

PerformVisualisation(command, event) ==
  /\ pc \in {"archived", "undefined", "aborted"} /\ event \in DOMAIN directory
  /\ output' = [command |-> command,
                outcome |-> EventOutcome(command, directory[event]),
                lines   |-> EventLines(command, directory[event])]
  /\ pc' = "printed"
  /\ UNCHANGED <<directory, setupVars, manager, validationVars>>

-----------------------------------------------------------------------------
Setup ==
  \/ LoadEvent \/ LoadThrows \/ StopAnalyzingWhenDone
  \/ \E event \in Events :
       \/ AddsLabeled(event) \/ AddsUnlabeled(event)
       \/ MatrixAborts(event) \/ ExtractionFails(event)

Validation == InitLabelManagerWithoutMisdetected \/ ValidatePartition

Visualization ==
  \/ \E command \in {"false-classifications", "stats", "appliance-stats"} :
       PerformValidationResultsVisualisation(command)
  \/ \E command \in {"event", "fvect", "fft", "fft-before", "fft-limited"},
        event \in Events : PerformVisualisation(command, event)

Next == Setup \/ Validation \/ Visualization

Spec == Init /\ [][Next]_vars

-----------------------------------------------------------------------------
(* Properties.                                                             *)

(***************************************************************************)
(* The archive is complete: whatever the runner has found on the stack     *)
(* when, every event before the first gap in the directory is in the       *)
(* manager, labeled just as the label file says.                           *)
(***************************************************************************)
ArchiveIsComplete ==
  pc = "archived" =>
    \A event \in DOMAIN directory :
      0..event \subseteq DOMAIN directory =>
        IF getEventLabel(event) = NoLabel
          THEN \E f \in Range(manager.unlabeled) : f.event = event
          ELSE \E f \in Range(manager.labeled) :
                 f.event = event /\ f.label = getEventLabel(event)

\* The events were stored with one configuration
Alike == Cardinality(Range(directory)) <= 1

(***************************************************************************)
(* Events that were stored with one configuration, and are long enough for *)
(* their harmonics to be searched, are safe: no buffer of one event is     *)
(* read with the size of another (multiplyKissFFTBufferWithBMH), the       *)
(* columns of the matrix fit, and validatePartition's assertion holds.     *)
(***************************************************************************)
AlikeIsSafe ==
  pc \in {"undefined", "aborted"} =>
    \/ ~Alike
    \/ \E event \in DOMAIN directory :
         Extraction(FreshCalculator, directory[event]) # "extracted"

\* The events in the guesses of the turns so far
Tested == {guess.event_id : guess \in Range(FlattenSeq(results))}

(***************************************************************************)
(* Cross validation tests no event twice, and fewer than                   *)
(* number_of_partitions events not at all (getPartition rounds down).      *)
(***************************************************************************)
TestedOnce ==
  /\ Cardinality(Tested) = Len(FlattenSeq(results))
  /\ pc = "validated" =>
       Len(manager.labeled) - Cardinality(Tested) < Partitions

(***************************************************************************)
(* What dropPartition leaves are the events getPartition does not test     *)
(* (it swaps within the vector it iterates over), except that in the last  *)
(* turn it cuts off the end, which is not the partition if the number of   *)
(* events is no multiple of the number of partitions.  It is called        *)
(* training_set, but validatePartition does not get it.                    *)
(***************************************************************************)
DropLeavesTheRest ==
  [][\A part \in {partition} :
       LET test == Range(getPartition(manager.labeled, part))
       IN  \/ ~ValidatePartition
           \/ part = Partitions - 1 /\ Len(manager.labeled) % Partitions # 0
           \/ /\ Range(training_set') = Range(manager.labeled) \ test
              /\ Len(training_set') = Cardinality(Range(training_set'))]_vars
=============================================================================
