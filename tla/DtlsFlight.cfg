CONSTANTS
  Keys <- RecordKeys
  MaxEpoch = 0
  MaxSequence = 2
  MaxRecords = 2
  MaxTime = 3
  InitialTimeouts = {1}
  DefaultTimeout = 1
  InitialTimeout = 1
  AttemptLimits = {1}
  MaxAttempts = 1
  FlightTimeout = 1
  MaxFlight = 2
SPECIFICATION Spec
INVARIANTS OwedInOutboundEpoch
PROPERTIES NoResendAfterAck
