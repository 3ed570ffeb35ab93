CONSTANTS
    Axes <- MCAxes
    Coord <- MCCoord
    MaxPoints = 4
    MaxLen = 2
SPECIFICATION Spec
INVARIANT EndCurvatureZero
