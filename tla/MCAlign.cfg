CONSTANTS
    W = 4
    Debug = TRUE
SPECIFICATION Spec
INVARIANT IsPowerOfTwoCorrect
INVARIANT AlignDownCorrect
INVARIANT AlignUpCorrect
INVARIANT AlignRangeCovers
