SPECIFICATION Braided
CONSTANTS
  N = 7
  MaxPlan = 1
INVARIANT OnlyTheSpanGoes
CHECK_DEADLOCK FALSE
