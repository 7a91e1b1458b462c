SPECIFICATION FairSpec
CONSTANTS
  Connections = {c1}
  c1 = c1
  Limits = {1, 2}
  Grace = 2
  Depth <- Nesting
  NoLimit = NoLimit
  Unheard = Unheard
  NotReady = NotReady
  Forever = Forever
  Nobody = Nobody
INVARIANT NeverOversleeps
PROPERTIES ShutJustified StalledIsFreed
