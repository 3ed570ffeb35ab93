CONSTANTS
    Positions <- MCPositions
    Resolutions <- MCZeroResolutions
    MaxSamples = 5
SPECIFICATION Spec
PROPERTY Termination
CHECK_DEADLOCK FALSE
