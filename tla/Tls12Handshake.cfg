SPECIFICATION Spec
CONSTANTS
  MaxSequence = 2
  MaxAttempts = 2
  MaxTranscript = 8
  MaxTorn = 3
  ServerFlights <- MCServerFlights
  ClientFlights <- MCClientFlights
INVARIANTS
  ChangeCipherSpecPerFinished
  NumbersUsedOnce
  FinishedOverThisHandshake
CHECK_DEADLOCK FALSE
