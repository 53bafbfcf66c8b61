CONSTANTS
  MaxSequence = 1
  RequireStaple = TRUE
  MaxAttempts = 2
  MaxUpdates = 1
  MaxLater = 1
  MaxFragments = 2
SPECIFICATION Spec
INVARIANTS TranscriptInOrder KeysBindTranscript
PROPERTIES NumbersUsedOnce FatalIsTerminal AuthenticatedInThisHandshake
