------------------------- MODULE MC_FollowLaneAction -------------------------
(***************************************************************************)
(* A road of four lanelets 0 -> 1 -> 2 -> 3 that ends after lanelet 3; the *)
(* route is <<1, 2, 3>>.  Lanelet 4 is a crosswalk and lanelet 5 a lane    *)
(* that cross the route in lanelet 2, and lanelet 6 has right of way over  *)
(* lanelet 3.  A stop line stands near the end of the route.              *)
(***************************************************************************)
EXTENDS FollowLaneAction, TLC

MCLanelets == 0 .. 6
MCRoad == 0 .. 3
MCLaneletLength == [l \in MCLanelets |-> IF l \in {1, 3} THEN 1000 ELSE 600]
MCShortLaneletLength == [l \in MCLanelets |-> IF l = 2 THEN 200 ELSE 1000]
MCNextIds == [l \in MCLanelets |-> IF l \in 0 .. 2 THEN <<l + 1>> ELSE <<>>]
MCPreviousIds == [l \in MCLanelets |-> IF l \in 1 .. 3 THEN <<l - 1>> ELSE <<>>]
MCRoadStartPreviousIds == [l \in MCLanelets |-> IF l \in 2 .. 3 THEN <<l - 1>> ELSE <<>>]
MCRightOfWayIds == [l \in MCLanelets |-> IF l = 3 THEN {6} ELSE {}]
MCConflictingCrosswalks == [l \in MCLanelets |-> IF l = 2 THEN {4} ELSE {}]
MCConflictingLanes == [l \in MCLanelets |-> IF l = 2 THEN {5} ELSE {}]
MCCrossingAt == [l \in MCLanelets |-> [s |-> 300, at |-> 1300]]
MCStopLines == {2500}
MCRoute == <<1, 2, 3>>
MCSpeeds == -1 .. 3
MCInitialPoses == {[lanelet |-> 1, s |-> 0], [lanelet |-> 1, s |-> 900],
                   [lanelet |-> 0, s |-> 500]}
MCOtherPoses ==
    {[lanelet |-> 2, s |-> 300, valid |-> TRUE, ahead |-> TRUE],
     [lanelet |-> 3, s |-> 500, valid |-> FALSE, ahead |-> TRUE],
     [lanelet |-> 4, s |-> 0, valid |-> TRUE, ahead |-> FALSE],
     [lanelet |-> 5, s |-> 300, valid |-> TRUE, ahead |-> FALSE],
     [lanelet |-> 6, s |-> 0, valid |-> TRUE, ahead |-> FALSE]}

\* Every map of these runs has its route as a path.
ASSUME MCRouteFollowsMap == RouteFollowsMap

\* Their speeds and step time keep a tick within the front-entity margin.
ASSUME MCStepWithinMargin == StepWithinMargin

\* Their initial poses lie on their lanelets.
ASSUME MCInitialPosesOnLanelets == InitialPosesOnLanelets

MCSymmetry == Permutations(Entities)

=============================================================================
