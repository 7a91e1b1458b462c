SPECIFICATION Spec
CONSTANTS
  MaxText = 6
  MaxName = 5
  MaxClauses = 3
  MaxHops = 5
  MaxPatternParts = 3
  WordBits = 4
  LocBits = 6
  Labels = {1, 2}
  ByteBits = 3
  Budgets <- BudgetLengths
  Reserves = {0, 1, 600}
  Spans = {0, 1, 300, 2400}
  Horizon = 800
INVARIANTS ReadAsTheServer ReadForWhatItIs ListComesBack BytesReadWhole ExportedAsGiven VectorsComeBack BudgetKept IndexFoundAgain
CHECK_DEADLOCK FALSE
