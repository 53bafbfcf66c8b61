CONSTANTS
  Keys = {k1, k2, k3}
  MaxRecords = 2
  MaxTime = 7
  InitialTimeouts = {0, 3}
  DefaultTimeout = 2
  AttemptLimits = {1, 3}
SPECIFICATION StoreSpec
SYMMETRY KeySymmetry
INVARIANTS Spaced
PROPERTIES NeverResentOnceSettled NothingForgotten
