SPECIFICATION MCSpec
CONSTANTS
  Processes = {p1, p2}
  NoProcess = NoProcess
  A = A
  B = B
  D = D
  k = k
  x = x
  z = z
  Calls <- Asked
  Existing <- Declared
  Altered <- ReadBackOtherwise
  Wrapped = {p1, p2}
  Stable = {p1}
  s1 = s1
  s2 = s2
  Sessions = {s1, s2}
  NoSession = NoSession
  Storages <- Designs
  Ids = {1}
  NoStorage = NoStorage
SYMMETRY Alike
INVARIANTS TakeTurns UnsettledLeavesNothing OthersKept VectorsAreThere HitsAreTheirs
PROPERTY AskedForIsThere
