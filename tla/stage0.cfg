\* Three rows, one an unconditional companion; rows are preempted and ids reused.
SPECIFICATION Spec
SYMMETRY Symmetry
CONSTANTS
  r1 = r1
  r2 = r2
  Rows = {r1, r2, u1}
  Uncond = {u1}
  longVoice = longVoice
  shortVoice = shortVoice
  Voices <- MCVoices
  SpeechPrompt <- MCSpeechPrompt
  CondLen = 2
  BosLen = 2
  Requests <- MCRequests
  MaxTokens = 3
INVARIANTS
  OwnVoice
  LayoutAsDefined
PROPERTY
  VoiceStays
CHECK_DEADLOCK FALSE
