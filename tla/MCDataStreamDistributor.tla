----------------------- MODULE MCDataStreamDistributor -----------------------
(***************************************************************************)
(* Instances of DataStreamDistributor for TLC.  One point of the model is  *)
(* one period of the mains (200 points at 12000 points per second), so     *)
(* that a window of the detector, 1000 points, is NumberOfRms + 1 points.  *)
(* The numbers are scaled down further by the .cfg files.                  *)
(***************************************************************************)
EXTENDS DataStreamDistributor

CONSTANTS
  SampleRate,       \* points the metric provider reads at once
  DefaultSampleRate,\* ... in its first window
  PointsBefore,     \* data_points_stored_before_event
  PointsOf,         \* data_points_stored_of_event
  Lengths           \* the lengths of the streams

PowerMeta(sample_rate, before, of) ==
  [sample_rate |-> sample_rate, dataPointsPerPeriod |-> 1,
   data_points_stored_before_event |-> before,
   data_points_stored_of_event |-> of]

\* PowerMetaData as it is constructed, and with the configuration
UnconfiguredMeta == PowerMeta(DefaultSampleRate, 0, 0)
ConfiguredMeta   == PowerMeta(SampleRate, PointsBefore, PointsOf)

\* The power rises at one point and at another one, or falls there
Curve(length, first, second, last) ==
  [x \in 0..length - 1 |->
     IF x < first THEN 0 ELSE IF x < second THEN 1 ELSE last]

Curves ==
  UNION {{Curve(length, first, second, last) :
            first \in 0..length, second \in 0..length, last \in {0, 2}} :
         length \in Lengths}
==============================================================================
