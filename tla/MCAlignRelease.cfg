CONSTANTS
    W = 4
    Debug = FALSE
SPECIFICATION Spec
INVARIANT AlignRangeCovers
