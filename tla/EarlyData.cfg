CONSTANTS
  WindowSize = 1
  Capacity = 1
  Lifetimes = {1, 9}
  AgeModulus = 2
  AgeAdd = 1
  MaxSkew = 0
  MaxTime = 2
  MaxHandshakes = 2
  MaxTickets = 2
  MaxSequence = 0
  Budgets = {0, 3}
  Terms <- MCTerms
  Lengths = {0, 2}
SPECIFICATION Spec
INVARIANTS AgePolicyExact SpentStaysSpent BudgetKept AcceptanceOfTranscript RotateKeepsUsable
PROPERTIES ServedOnce
