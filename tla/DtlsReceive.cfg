\* With a window of two bits and three numbers there are shifts within the
\* window and out of it, and with three epochs one is forgotten.  Every value
\* is an integer that the code compares: there is no symmetry to declare.
CONSTANTS
  WindowSize = 2
  MaxEpoch = 2
  MaxSequence = 2
SPECIFICATION Spec
INVARIANTS WindowExact AtMostOnce
PROPERTIES ImplementsDelivery RefusalIsFinal
