SPECIFICATION Spec
CONSTANTS
  Conns = {c1, c2}
  Borrowers = {b1, b2}
  NoConn = NoConn
  CheckAfter = 2
  MaxTime = 5
  MaxEpoch = 2
SYMMETRY Symmetry
INVARIANTS OneFailureIsEnough
CHECK_DEADLOCK FALSE
