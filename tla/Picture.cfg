\* A pointer inside the screen, over its corner and mostly left of it.
CONSTANTS
    Width = 3
    Height = 2
    Images <- MCImages
    Shapes <- MCShapes
    Positions <- MCPositions
SPECIFICATION Spec
INVARIANTS AsOnDesktop NoTrail WholeShape
