SPECIFICATION Spec
CONSTANTS
  Limits = {l1}
  NoLimit = NoLimit
  Graphs = {g1, g2}
  NoGraph = NoGraph
  MaxBlocks = 3
INVARIANTS NoteIsTheServers LabelsAreTheGraphs
