CONSTANTS
    Axes <- MCAxes
    Coord <- MCCoord
    MaxPoints = 4
    MaxLen = 2
SPECIFICATION Spec
INVARIANT TypeOK
INVARIANT NoConnectivityError
INVARIANT TangentContinuity
INVARIANT ResolveInRange
INVARIANT ResolveRoundTrip
