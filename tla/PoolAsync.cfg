SPECIFICATION Spec
CONSTANTS
  Conns = {c1, c2}
  Borrowers = {b1, b2}
  NoConn = NoConn
  MinSize = 1
  MaxSizes = {2}
  MaxGen = 2
  Threads = FALSE
  UserReset = FALSE
SYMMETRY Symmetry
INVARIANTS EntitledNotRefused GivenBackRefused StaleErrorJustified NothingInherited
PROPERTY ImplementsLending
