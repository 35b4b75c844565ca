CONSTANTS
    BodyNodes <- MCBodyNodesMulti
    EndNodes <- MCEndNodes
    MaxBody = 2
    MaxSteps = 4
SPECIFICATION Spec
INVARIANT NodeCountCorrect
