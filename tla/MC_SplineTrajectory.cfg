CONSTANTS
    Positions <- MCPositions
    Resolutions <- MCResolutions
    MaxSamples = 5
SPECIFICATION Spec
INVARIANT TypeOK
PROPERTY ImplementsTrajectorySpec
