SPECIFICATION Spec
CONSTANTS
  Conns = {c1, c2}
  Borrowers = {b1, b2}
  NoConn = NoConn
  MinSize = 1
  MaxSizes = {2}
  MaxGen = 1
  Threads = TRUE
  UserReset = FALSE
SYMMETRY Symmetry
INVARIANT HolderNotRefused
