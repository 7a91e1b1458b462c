SPECIFICATION Spec
CONSTANTS
    MaxBlocks = 2
    NoBlock = NoBlock
    NoText = NoText
INVARIANTS BoundaryKept NextStartsClean TheServerDecides
PROPERTIES OuterDecides
