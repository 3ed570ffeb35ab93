------------------------- MODULE MC_SplineTrajectory -------------------------
EXTENDS SplineTrajectory

MCPositions == 0 .. 4
MCResolutions == {-2, -1, 1, 2}
MCZeroResolutions == {0, 1}

=============================================================================
