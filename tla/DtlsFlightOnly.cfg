CONSTANTS
  Keys <- RecordKeys
  MaxEpoch = 1
  MaxSequence = 2
  MaxRecords = 2
  MaxTime = 2
  InitialTimeouts = {1}
  DefaultTimeout = 1
  InitialTimeout = 1
  AttemptLimits = {1}
  MaxAttempts = 1
  FlightTimeout = 1
  MaxFlight = 3
SPECIFICATION SpecFlightOnly
PROPERTIES CompletionIsAcknowledged GivenUpLate FlightEnds
