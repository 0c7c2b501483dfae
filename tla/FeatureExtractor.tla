-------------------------- MODULE FeatureExtractor --------------------------
(***************************************************************************)
(* The sizes in feature extraction (data_analyzer/src/FeatureExtractor.h): *)
(* how many points go into a Fourier transform, which of its results are   *)
(* read, and how many features come out.  The values of the features are   *)
(* left out.  An event has the shape [before, points]: the meta data says  *)
(* that before of its points lie before the event.                         *)
(*                                                                         *)
(* What an extractor keeps from one event to the next are the buffers of   *)
(* its FastFourierTransformCalculator (libanalyze/src).                    *)
(***************************************************************************)
LOCAL INSTANCE Integers

CONSTANTS
  PeriodPoints,     \* dataPointsPerPeriod (200 in the code)
  RmsFeatures,      \* number_of_rms (20)
  Harmonics,        \* number_of_harmonics (10)
  SearchRadius      \* harmonics_search_radius (5)

ASSUME FeatureAssumption ==
  /\ PeriodPoints \in Nat \ {0}
  /\ RmsFeatures \in Nat /\ Harmonics \in Nat /\ SearchRadius \in Nat

Shapes == [before : Nat, points : Nat]

Lower(a, b) == IF a <= b THEN a ELSE b

-----------------------------------------------------------------------------
(* The calculator: the sizes of kiss_fft_buffer and blackman_harris_buffer *)

Calculators == [max_data_size : Nat, blackman_harris_size : Nat]

FreshCalculator == [max_data_size |-> 0, blackman_harris_size |-> 0]

\* setMaxDataSetSize, which only initKissFFT calls
AppendedMutant(calculator, n) == calculator.max_data_size + n
MaxDataSize(calculator, n) ==
  IF n > calculator.max_data_size THEN n ELSE calculator.max_data_size

\* calculateFFTWithBlackmanHarris for n points
AfterFFT(calculator, n) ==
  [max_data_size        |-> MaxDataSize(calculator, n),
   blackman_harris_size |-> n]

\* multiplyKissFFTBufferWithBMH goes through the whole kiss_fft_buffer and
\* takes as many values of the window
WindowFits(calculator) ==
  calculator.max_data_size <= calculator.blackman_harris_size

-----------------------------------------------------------------------------
(* Extraction.                                                             *)

EventPoints(shape) == shape.points - shape.before

\* calcFFTs: four transforms with the same number of points
NumDataPoints(shape) == Lower(shape.before, EventPoints(shape))

\* calcBaseFrequencyPos: roundf(n * frequency / sample_rate)
BaseFrequencyPos(n) == (2 * n + PeriodPoints) \div (2 * PeriodPoints)

\* The assertion of getHarmonics
HarmonicsInTransform(n) ==
  BaseFrequencyPos(n) * (Harmonics + 1) + SearchRadius < n

\* The assertion does not look at where the search begins
SearchBeginsInTransform(n) ==
  Harmonics > 0 => 2 * BaseFrequencyPos(n) >= SearchRadius

\* calcFFTs gets past the end of event_data or of the window,
\* extractPhaseShift past the end of a transform, or getHarmonics before it
ReadsPastBuffer(calculator, shape) ==
  LET n == NumDataPoints(shape)
  IN  \/ shape.points < shape.before
      \/ ~WindowFits(AfterFFT(calculator, n))
      \/ BaseFrequencyPos(n) >= n
      \/ HarmonicsInTransform(n) /\ ~SearchBeginsInTransform(n)

\* extractRms: one for every period but the last, number_of_rms + 1 at most
NumberOfRmsFeatures(shape) ==
  IF EventPoints(shape) <= PeriodPoints THEN 0
  ELSE Lower(RmsFeatures + 1, (EventPoints(shape) - 1) \div PeriodPoints)

\* extractFeatures
NumberOfFeatures(shape) == 1 + NumberOfRmsFeatures(shape) + Harmonics

Extraction(calculator, shape) ==
  IF ReadsPastBuffer(calculator, shape) THEN "undefined"
  ELSE IF HarmonicsInTransform(NumDataPoints(shape)) THEN "extracted"
  ELSE "aborted"
=============================================================================
