--------------------------- MODULE SampleGeometry ---------------------------
(***************************************************************************)
(* Positions in the audio of an utterance: 24 kHz PCM, 25 codes a second.  *)
(***************************************************************************)
EXTENDS Integers

MinOf(a, b) == IF a <= b THEN a ELSE b
MaxOf(a, b) == IF a >= b THEN a ELSE b

\* 24 kHz audio at 25 codes per second.
SamplesPerCodecToken == 960

\* max(1, N - 1) * 960 samples for N codes, none for an empty utterance.
FinalSampleLimit(n) ==
  IF n <= 0 THEN 0 ELSE MaxOf(1, n - 1) * SamplesPerCodecToken
=============================================================================
