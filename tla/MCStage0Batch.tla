--------------------------- MODULE MCStage0Batch ---------------------------
(* Two voices whose speech prompts have different lengths, and two texts.   *)
EXTENDS Stage0Batch

CONSTANTS r1, r2, longVoice, shortVoice

MCVoices == {longVoice, shortVoice}
MCSpeechPrompt == [v \in MCVoices |-> IF v = longVoice THEN 2 ELSE 1]
MCRequests == {<<longVoice, 1>>, <<shortVoice, 2>>}

Symmetry == Permutations({r1, r2})
=============================================================================
