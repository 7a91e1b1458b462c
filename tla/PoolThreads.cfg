SPECIFICATION FairSpec
CONSTANTS
  Conns = {c1}
  Borrowers = {b1, b2}
  NoConn = NoConn
  MinSize = 1
  MaxSizes = {1, 2}
  MaxGen = 1
  Threads = TRUE
  UserReset = FALSE
PROPERTY EveryAskEnds
