SPECIFICATION MCSpec
CONSTANTS
  MaxHops = 2
  AnyPolicy = "any"
INVARIANTS
  VerdictExact
  LimitsOnlyRestrict
CHECK_DEADLOCK FALSE
