CONSTANTS
  Randoms = {1, 2}
  Secrets = {1, 2}
  Factor = 3
  MaxBytes = 5
  Size <- MCSize
  MaxNet = 2
SPECIFICATION Spec
INVARIANTS WithinBudget CookieProvesReach
PROPERTIES ClientGetsIn
