CONSTANTS
  Keys <- RecordKeys
  MaxEpoch = 1
  MaxSequence = 1
  MaxRecords = 2
  MaxTime = 5
  InitialTimeouts = {1}
  DefaultTimeout = 1
  InitialTimeout = 1
  AttemptLimits = {2}
  MaxAttempts = 2
  FlightTimeout = 4
  MaxFlight = 2
SPECIFICATION SpecFlightOnly
PROPERTIES NumbersMonotonic
