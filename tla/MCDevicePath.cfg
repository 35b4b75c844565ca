CONSTANTS
    BodyNodes <- MCBodyNodes
    EndNodes <- MCEndNodes
    MaxBody = 2
    MaxSteps = 4
SPECIFICATION Spec
INVARIANTS
    NodeCountCorrect
    CopyCorrect
    RemainingCorrect
    ConcatCorrect
    WalkerCorrect
