CONSTANTS
    Lanelets <- MCLanelets
    LaneletLength <- MCLaneletLength
    NextIds <- MCNextIds
    PreviousIds <- MCRoadStartPreviousIds
    RightOfWayIds <- MCRightOfWayIds
    ConflictingCrosswalks <- MCConflictingCrosswalks
    ConflictingLanes <- MCConflictingLanes
    CrossingAt <- MCCrossingAt
    StopLines <- MCStopLines
    Route <- MCRoute
    Entities = {e1, e2}
    Speeds <- MCSpeeds
    SpeedStep = 1
    StepTimeMs = 1000
    MaxDeceleration = 3
    MaxDecelerationRate = 2
    MaxAcceleration = 2
    MaxAccelerationRate = 2
    BoundingBoxX = 400
    Requests = {"none", "follow_lane", "lane_change"}
    InitialPoses <- MCInitialPoses
    OtherPoses <- MCOtherPoses
    MaxTime = 12
SYMMETRY MCSymmetry
SPECIFICATION Spec
INVARIANT PredecessorDefined
CHECK_DEADLOCK FALSE
