SPECIFICATION AllowanceFair
CONSTANTS
  Callers = {a1, a2}
  MaxAttempts = 3
  Capacity = 12
  TransientCost = 3
  RejectionCost = 2
  SuccessCredit = 1
  Refills = TRUE
INVARIANT HalfKept
PROPERTY Recovers
