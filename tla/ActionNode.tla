----------------------------- MODULE ActionNode -----------------------------
(***************************************************************************)
(* entity_behavior::ActionNode (behavior_tree_plugin/src/action_node.cpp): *)
(* the blackboard state a behaviour-tree action node reads each tick and   *)
(* the helpers its actions call: queries about the other entities, the     *)
(* stop distance and the lane-following status update.                     *)
(*                                                                         *)
(* Data abstraction.  Arc lengths are integer centimetres, speeds integer  *)
(* metres per second.  The HD map is a set of constants: lanelet lengths,  *)
(* successors and predecessors (in the order HdMapUtils returns them),     *)
(* right-of-way and conflicting lanelets, and where the route meets each   *)
(* conflicting lanelet and stop line.  A collision of the route spline     *)
(* with an entity's polygon is found at the entity's arc length along the  *)
(* route, measured from the ego; boost::optional<double> is a set with at  *)
(* most one element.  The speed planner (planLinearJerk, planAccel,        *)
(* planTwist) is declared outside src/ and is left free: it may choose any *)
(* speed within SpeedStep of the current one.                              *)
(***************************************************************************)
EXTENDS Integers, Sequences

CONSTANTS
    Lanelets,                 \* lanelet ids of the map
    LaneletLength,            \* getLaneletLength, in cm
    NextIds,                  \* getNextLaneletIds: lanelet -> sequence
    PreviousIds,              \* getPreviousLaneletIds: lanelet -> sequence
    RightOfWayIds,            \* getRightOfWayLaneletIds: lanelet -> set
    ConflictingCrosswalks,    \* getConflictingCrosswalkIds, per route lanelet
    ConflictingLanes,         \* getConflictingLaneIds, per route lanelet
    CrossingAt,               \* conflicting lanelet -> [s on it, route position]
    StopLines,                \* route positions of the stop lines
    Route,                    \* route_lanelets
    Entities,                 \* names of the other entities
    Speeds,                   \* speeds the entity can have, m/s
    SpeedStep,                \* largest speed change the planner makes in a step
    StepTimeMs,               \* step_time, in ms
    MaxDeceleration, MaxDecelerationRate, MaxAcceleration, MaxAccelerationRate,
    BoundingBoxX              \* vehicle_parameters.bounding_box.dimensions.x, cm

ASSUME ActionNodeAssumption ==
    /\ LaneletLength \in [Lanelets -> Nat \ {0}]
    /\ NextIds \in [Lanelets -> Seq(Lanelets)]
    /\ PreviousIds \in [Lanelets -> Seq(Lanelets)]
    /\ Route \in Seq(Lanelets) /\ Len(Route) > 0
    /\ \A i, j \in 1 .. Len(Route) : Route[i] = Route[j] => i = j
    /\ Speeds \subseteq Int /\ SpeedStep \in Nat
    /\ StepTimeMs \in Nat /\ StepTimeMs % 20 = 0
    /\ \A c \in {MaxDeceleration, MaxDecelerationRate,
                 MaxAcceleration, MaxAccelerationRate} : c \in Nat \ {0}
    /\ BoundingBoxX \in Nat

VARIABLES
    entity_status,            \* the ego's EntityStatus
    other_entity_status       \* other_entity_status: name -> EntityStatus

None == {}
Some(x) == {x}
Get(o) == CHOOSE x \in o : TRUE

\* An EntityStatus: lanelet pose (lanelet, s, valid) and twist.linear.x.
Statuses == [lanelet : Lanelets, s : Int, valid : BOOLEAN, v : Int]
\* Another entity also carries whether its yaw relative to the ego is
\* within +-pi/2 (lines 215-222).
OtherStatuses == [lanelet : Lanelets, s : Int, valid : BOOLEAN, ahead : BOOLEAN]

\* The lanelets of the route, and where a lanelet stands on it (0 when it
\* does not): the loop index of lines 401-402.
RouteLanelets == {Route[i] : i \in 1 .. Len(Route)}
RouteIndex(l) == IF l \in RouteLanelets THEN CHOOSE i \in 1 .. Len(Route) : Route[i] = l ELSE 0

OnRoute(l) == l \in RouteLanelets

\* The arc length along the route at which each route lanelet starts: the
\* sum of the lengths of the route lanelets before it.
RouteOffset ==
    LET f[i \in 1 .. Len(Route)] ==
            IF i = 1 THEN 0 ELSE f[i - 1] + LaneletLength[Route[i - 1]]
    IN  f
\* A lanelet pose's arc length along the route.
RoutePos(p) == RouteOffset[RouteIndex(p.lanelet)] + p.s

\* The least element of a finite set of integers.
Least(S) == CHOOSE x \in S : \A y \in S : x <= y

\* The route is a path of the map, as the route planner builds it: the
\* first predecessor that getPreviousLaneletIds returns for a route lanelet
\* (line 386), when it is on the route at all, is the route lanelet before
\* it, and the first successor of the last route lanelet (line 416) is not
\* on the route.
RouteFollowsMap ==
    /\ \A i \in 1 .. Len(Route) :
          PreviousIds[Route[i]] # <<>> /\ OnRoute(PreviousIds[Route[i]][1])
          => i > 1 /\ PreviousIds[Route[i]][1] = Route[i - 1]
    /\ NextIds[Route[Len(Route)]] # <<>> => ~OnRoute(NextIds[Route[Len(Route)]][1])

\* The hdmap queries that take the whole route return the union of the
\* per-lanelet answers.
RouteCrosswalks == UNION {ConflictingCrosswalks[l] : l \in RouteLanelets}
RouteConflictingLanes == UNION {ConflictingLanes[l] : l \in RouteLanelets}

\* Distances are measured along the route from the entity; an entity that
\* has left its route (a lanelet pose off it) sees nothing on it.
EgoOnRoute == OnRoute(entity_status.lanelet)

\* Mutation: the horizon is not clamped.
GetHorizonUnclamped(v) == v * 500

\* Lines 77-80: clamp(v * 5, 20, 50), in cm.
GetHorizon(v) == IF v * 500 < 2000 THEN 2000 ELSE IF v * 500 > 5000 THEN 5000 ELSE v * 500

\* Lines 82-89: the status kept, twist and accel zeroed.
StopAtEndOfRoad(st) == [lanelet |-> st.lanelet, s |-> st.s, valid |-> st.valid, v |-> 0]

\* Lines 274-287: the arc length at which the route spline, starting at
\* the ego, meets the entity's polygon; none unless its lanelet pose is
\* valid.
DistanceToTargetEntityPolygon(o) ==
    IF EgoOnRoute /\ o.valid /\ OnRoute(o.lanelet) /\ RoutePos(o) >= RoutePos(entity_status)
    THEN Some(RoutePos(o) - RoutePos(entity_status)) ELSE None

\* Lines 240-249: the crossing of the route with the crosswalk's polygon.
DistanceToTargetEntityOnCrosswalk(o) ==
    IF EgoOnRoute /\ o.valid /\ CrossingAt[o.lanelet].at >= RoutePos(entity_status)
    THEN Some(CrossingAt[o.lanelet].at - RoutePos(entity_status)) ELSE None

\* Lines 274-287 for an entity on a conflicting lane: its polygon meets the
\* route only while it stands on the crossing.
DistanceToEntityOnConflictingLane(o) ==
    IF EgoOnRoute /\ o.valid /\ o.s = CrossingAt[o.lanelet].s
       /\ CrossingAt[o.lanelet].at >= RoutePos(entity_status)
    THEN Some(CrossingAt[o.lanelet].at - RoutePos(entity_status)) ELSE None

\* Lines 128-143: the entities on a right-of-way lanelet of a route lanelet
\* (the lanelet pose's validity is not consulted).
GetRightOfWayEntities ==
    {e \in Entities :
        other_entity_status[e].lanelet \in UNION {RightOfWayIds[l] : l \in RouteLanelets}}

\* Lines 314-345: entities on a conflicting crosswalk and on a conflicting lane.
GetConflictingEntityStatusOnCrossWalk ==
    {e \in Entities : other_entity_status[e].lanelet \in RouteCrosswalks}
GetConflictingEntityStatusOnLane ==
    {e \in Entities : other_entity_status[e].lanelet \in RouteConflictingLanes}

\* Lines 289-312: the least of the distances to the conflicting entities.
GetDistanceToConflictingEntity ==
    LET ds == UNION ({DistanceToTargetEntityOnCrosswalk(other_entity_status[e]) :
                          e \in GetConflictingEntityStatusOnCrossWalk}
                     \cup {DistanceToEntityOnConflictingLane(other_entity_status[e]) :
                          e \in GetConflictingEntityStatusOnLane})
    IN  IF ds = {} THEN None ELSE Some(Least(ds))

\* Lines 208-238: among the entities ahead (yaw within +-pi/2) whose
\* polygon the route meets closer than 40 m, one at the least distance.
FrontCandidates ==
    {e \in Entities : other_entity_status[e].ahead
                      /\ \E d \in DistanceToTargetEntityPolygon(other_entity_status[e]) : d < 4000}
EntityDistance(e) == Get(DistanceToTargetEntityPolygon(other_entity_status[e]))
GetFrontEntityName ==
    IF FrontCandidates = {} THEN None
    ELSE Some(CHOOSE e \in FrontCandidates :
                  \A f \in FrontCandidates : EntityDistance(e) <= EntityDistance(f))

\* Lines 198-206.
GetDistanceToFrontEntity ==
    IF GetFrontEntityName = None THEN None
    ELSE DistanceToTargetEntityPolygon(other_entity_status[Get(GetFrontEntityName)])

\* hdmap getDistanceToStopLine: the nearest stop line ahead on the route.
GetDistanceToStopLine ==
    LET ds == {p - RoutePos(entity_status) : p \in {q \in StopLines : q >= RoutePos(entity_status)}}
    IN  IF ~EgoOnRoute \/ ds = {} THEN None ELSE Some(Least(ds))

Sign(x) == IF x > 0 THEN 1 ELSE IF x < 0 THEN -1 ELSE 0

(***************************************************************************)
(* Lines 492-524, calculateStopDistance, compared exactly with a length x  *)
(* in cm: the sign of stop_distance(v) - x.  Forward, t = sqrt(2v)/rate    *)
(* and the first branch returns t^3/6*rate = sqrt(8v^3)/(6 rate^2); it is  *)
(* taken when sqrt(2v) <= max_deceleration.  The second returns            *)
(* (D^4 + 3 rate^2 (v-D)^2) / (6 rate^2 D) with v1 = v - D.  Backward,     *)
(* sqrt(2v) of a negative v is NaN, the test NaN <= max_acceleration is    *)
(* false, and the second branch is taken with the acceleration limits.     *)
(***************************************************************************)
StopDistanceCmp(v, x) ==
    LET dec == IF v >= 0 THEN MaxDeceleration ELSE MaxAcceleration
        rate == IF v >= 0 THEN MaxDecelerationRate ELSE MaxAccelerationRate
        first == v >= 0 /\ 2 * v <= dec * dec
    IN  IF first
        THEN IF x < 0 THEN 1
             ELSE Sign(80000 * v * v * v - 36 * rate * rate * rate * rate * x * x)
        ELSE Sign(100 * (dec * dec * dec * dec + 3 * rate * rate * (v - dec) * (v - dec))
                  - 6 * rate * rate * dec * x)

\* distance <= stop_distance + c, and distance < stop_distance + c.
WithinStop(d, c, v) == StopDistanceCmp(v, d - c) >= 0
StrictlyWithinStop(d, c, v) == StopDistanceCmp(v, d - c) > 0

\* The distance travelled in a step: (v_new + v_old) / 2 * step_time, cm.
Travel(v, w) == ((v + w) * StepTimeMs) \div 20

(***************************************************************************)
(* Lines 368-439, calculateEntityStatusUpdated, for the new speed w the    *)
(* planner chose: the outcome ("ok", "error" for the SimulationError of    *)
(* line 423, "undefined" for the read of an empty vector at line 386) and  *)
(* the updated status.                                                     *)
(***************************************************************************)
UpdateBackward(st, w, new_s) ==
    LET prev == PreviousIds[st.lanelet]
    IN  IF prev = <<>> THEN [out |-> "undefined", status |-> st]
        ELSE [out |-> "ok",
              status |-> [lanelet |-> prev[1], valid |-> TRUE, v |-> w,
                          s |-> new_s + LaneletLength[prev[1]] - 1]]

\* Mutation: the ego keeps its arc length when it passes into the next
\* route lanelet.
UpdateForwardNoSubtract(st, w, new_s) ==
    LET i == RouteIndex(st.lanelet)
        length == LaneletLength[st.lanelet]
        moved(l, s) == [out |-> "ok", status |-> [lanelet |-> l, valid |-> TRUE, v |-> w, s |-> s]]
    IN  IF i = 0 THEN [out |-> "error", status |-> st]
        ELSE IF length >= new_s THEN moved(st.lanelet, new_s)
        ELSE IF i # Len(Route) THEN moved(Route[i + 1], new_s)
        ELSE IF NextIds[Route[i]] = <<>> THEN [out |-> "ok", status |-> StopAtEndOfRoad(st)]
        ELSE moved(NextIds[Route[i]][1], new_s - length)

UpdateForward(st, w, new_s) ==
    LET i == RouteIndex(st.lanelet)
        length == LaneletLength[st.lanelet]
        moved(l, s) == [out |-> "ok", status |-> [lanelet |-> l, valid |-> TRUE, v |-> w, s |-> s]]
    IN  IF i = 0 THEN [out |-> "error", status |-> st]
        ELSE IF length >= new_s THEN moved(st.lanelet, new_s)
        ELSE IF i # Len(Route) THEN moved(Route[i + 1], new_s - length)
        ELSE IF NextIds[Route[i]] = <<>> THEN [out |-> "ok", status |-> StopAtEndOfRoad(st)]
        ELSE moved(NextIds[Route[i]][1], new_s - length)

CalculateEntityStatusUpdated(st, w) ==
    LET new_s == st.s + Travel(w, st.v)
    IN  IF new_s < 0 THEN UpdateBackward(st, w, new_s) ELSE UpdateForward(st, w, new_s)

=============================================================================
