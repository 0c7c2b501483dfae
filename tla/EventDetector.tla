---------------------------- MODULE EventDetector ----------------------------
(***************************************************************************)
(* The worker that looks for switch-on events in the data stream           *)
(* (event_detector/src/EventDetector.h).  It is called with a window of    *)
(* the stream and answers what it wants to read next.                      *)
(*                                                                         *)
(* A data point is its position in the stream, 0, 1, ...; power gives its  *)
(* amplitude.  The detection threshold is taken to be smaller than any     *)
(* difference between two root mean squares that differ.                   *)
(***************************************************************************)
EXTENDS Integers, Sequences, FiniteSets, SequencesExt

CONSTANTS
  NumberOfRms,      \* number_of_rms (4 in the code)
  CompareAfter,     \* compare_after
  DefaultMeta,      \* the PowerMetaData while the workers are being added
  Meta              \* the PowerMetaData of the configuration

PowerMetaData ==
  [sample_rate : Nat, dataPointsPerPeriod : Nat \ {0},
   data_points_stored_before_event : Nat, data_points_stored_of_event : Nat]

ASSUME DetectorAssumption ==
  /\ NumberOfRms \in Nat /\ NumberOfRms >= 2 /\ CompareAfter \in Nat
  /\ DefaultMeta \in PowerMetaData /\ Meta \in PowerMetaData

VARIABLES
  power,                    \* the amplitude of every point of the stream
  detected_an_event,
  requested_data_point_id,
  previous_rms,             \* oldest first
  detections,               \* history: the ids of the windows with an event
  reported                  \* history: the events emitted, as the points
                            \* before the event and the points of it

detectorVars == <<detected_an_event, requested_data_point_id, previous_rms,
                  detections, reported>>

Before == Meta.data_points_stored_before_event
Of     == Meta.data_points_stored_of_event
Period == Meta.dataPointsPerPeriod

-----------------------------------------------------------------------------
(* What the detector asks for.                                             *)

Greater(a, b) == IF a >= b THEN a ELSE b

NextReadInfos(keep, read, next) ==
  [keep |-> keep, read |-> read, next |-> next]

minDataPointsNeeded(meta) ==
  Greater(NumberOfRms * meta.dataPointsPerPeriod, CompareAfter)
    + meta.dataPointsPerPeriod

getFirstDetectionPeriod(meta, id) ==
  NextReadInfos(meta.data_points_stored_before_event,
                minDataPointsNeeded(meta),
                id + meta.data_points_stored_before_event)

NextDetectionGapMutant(id) ==
  NextReadInfos(Before, minDataPointsNeeded(Meta),
                id + minDataPointsNeeded(Meta) + Period)
getNextDetectionPeriod(id) ==
  NextReadInfos(Before, minDataPointsNeeded(Meta),
                id + minDataPointsNeeded(Meta))

EventDataNotShiftedMutant(id) == NextReadInfos(0, Before + Of, id - Before)
getEventData(id) == NextReadInfos(0, Before + Of, id - Before + Period)

getDataAfterEvent(id) ==
  NextReadInfos(Before, minDataPointsNeeded(Meta), id + Before + Of)

-----------------------------------------------------------------------------
(* detectEvent.  A root mean square is kept as the sum of the squares of a *)
(* window and its length; the order is that of the quotients.              *)

rootMeanSquareOfAmpere(window) ==
  LET SumOfSquares[n \in 0..Len(window)] ==
        IF n = 0 THEN 0
        ELSE SumOfSquares[n - 1] + power[window[n]] * power[window[n]]
  IN  [sum |-> SumOfSquares[Len(window)], len |-> Len(window)]

Exceeds(r, s) == r.sum * s.len > s.sum * r.len

\* nth_element at position size / 2
MedianIsLastMutant(rms) ==
  CHOOSE r \in Range(rms) : \A i \in DOMAIN rms : ~Exceeds(rms[i], r)
getMedianPrevRMS(rms) ==
  CHOOSE r \in Range(rms) :
    /\ Cardinality({i \in DOMAIN rms : Exceeds(r, rms[i])}) <= Len(rms) \div 2
    /\ Cardinality({i \in DOMAIN rms : ~Exceeds(rms[i], r)}) > Len(rms) \div 2

initializePreviousRMS(window) ==
  [i \in 1..NumberOfRms |->
     rootMeanSquareOfAmpere(SubSeq(window, (i - 1) * Period + 1, i * Period))]

\* previous_rms with the root mean square of the window at its end
RmsWith(window) ==
  LET pushed == Append(previous_rms, rootMeanSquareOfAmpere(window))
  IN  CASE Len(pushed) > NumberOfRms -> Tail(pushed)
        [] Len(pushed) < NumberOfRms -> pushed \o initializePreviousRMS(window)
        [] OTHER                     -> pushed

detectEvent(window) ==
  /\ Len(previous_rms) + 1 >= NumberOfRms
  /\ Exceeds(rootMeanSquareOfAmpere(window), getMedianPrevRMS(RmsWith(window)))

-----------------------------------------------------------------------------
(* workOnDataPoints(begin, end, data_point_id) by its return statements:   *)
(* what each leaves in the fields and what it answers.                     *)

DetectorInit ==
  /\ detected_an_event = FALSE
  /\ requested_data_point_id = DefaultMeta.data_points_stored_before_event
  /\ previous_rms = <<>>
  /\ detections = {}
  /\ reported = {}

AnsweredByIdAlreadyMovedMutant(window, id) ==
  window # <<>> /\ detected_an_event /\ requested_data_point_id = id + Period
IsEventData(window, id) ==
  window # <<>> /\ detected_an_event /\ requested_data_point_id = id

\* The assertions of detectEvent and initializePreviousRMS
SearchAssertions(window, id) ==
  window # <<>> /\ ~IsEventData(window, id) =>
    /\ Len(window) >= Period /\ Len(window) >= CompareAfter
    /\ Len(previous_rms) + 1 < NumberOfRms =>
         Len(window) > Period * NumberOfRms

\* The answer of a call, as a function of the state before it
DetectorAnswer(window, id) ==
  CASE window = <<>>           -> getFirstDetectionPeriod(Meta, id)
    [] IsEventData(window, id) -> getDataAfterEvent(id)
    [] OTHER -> IF detectEvent(window) THEN getEventData(id)
                ELSE getNextDetectionPeriod(id)

\* begin == end
NothingToDetect(window) ==
  /\ window = <<>>
  /\ UNCHANGED <<detected_an_event, previous_rms, detections, reported>>

\* The window with the data of the event, and all slots of event_detected
\* return
ReportsEvent(window, id) ==
  /\ IsEventData(window, id)
  /\ Len(window) >= Before + Of
  /\ detected_an_event' = FALSE
  /\ reported' = reported \union
       {[before_event |-> SubSeq(window, 1, Before),
         event        |-> SubSeq(window, Before + 1, Len(window))]}
  /\ UNCHANGED <<previous_rms, detections>>

DetectsEvent(window, id) ==
  /\ window # <<>> /\ ~IsEventData(window, id) /\ detectEvent(window)
  /\ detected_an_event' = TRUE
  /\ previous_rms' = <<>>
  /\ detections' = detections \union {id}
  /\ UNCHANGED reported

DetectsNothing(window, id) ==
  /\ window # <<>> /\ ~IsEventData(window, id) /\ ~detectEvent(window)
  /\ previous_rms' = RmsWith(window)
  /\ UNCHANGED <<detected_an_event, detections, reported>>

DetectorWorks(window, id) ==
  /\ requested_data_point_id' = DetectorAnswer(window, id).next
  /\ \/ NothingToDetect(window)
     \/ ReportsEvent(window, id)
     \/ DetectsEvent(window, id)
     \/ DetectsNothing(window, id)

\* createEvent throws for want of data, or a slot throws: there is no answer
ReportThrows(window, id, a_slot_throws) ==
  /\ IsEventData(window, id)
  /\ Len(window) < Before + Of \/ a_slot_throws
  /\ detected_an_event' = FALSE
  /\ UNCHANGED <<requested_data_point_id, previous_rms, detections, reported>>
=============================================================================
