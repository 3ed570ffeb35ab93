--------------------------- MODULE FollowLaneAction ---------------------------
(***************************************************************************)
(* FollowLaneAction::tick (follow_lane_action.cpp lines 70-124), composed  *)
(* with the ActionNode helpers it calls, ticked once per simulation step.  *)
(* The status a RUNNING tick outputs is the entity's status at the next    *)
(* tick.  The other entities, the request and the driver model are fixed   *)
(* for a run; they range over all values in the initial states.  The      *)
(* scenario ends at MaxTime, or when a tick throws.                        *)
(***************************************************************************)
EXTENDS ActionNode

CONSTANTS
    Requests,        \* the behaviour requests a scenario can make
    InitialPoses,    \* lanelet poses the entity may start from
    OtherPoses,      \* statuses the other entities may have
    MaxTime          \* the step at which the scenario ends

ASSUME FollowLaneAssumption ==
    /\ {"none", "follow_lane"} \subseteq Requests
    /\ InitialPoses \subseteq [lanelet : Lanelets, s : Int]
    /\ OtherPoses \subseteq OtherStatuses
    /\ MaxTime \in Nat

VARIABLES
    request,         \* the "request" input
    see_around,      \* driver_model.see_around
    result,          \* the NodeStatus of the last tick, or "error"/"undefined"
    waypoints,       \* the "waypoints" output: Some([from, to]), or None when empty
    time             \* simulation steps taken

vars == <<entity_status, other_entity_status, request, see_around, result, waypoints, time>>

Init ==
    /\ entity_status \in {[lanelet |-> p.lanelet, s |-> p.s, valid |-> b, v |-> v] :
                              p \in InitialPoses, v \in Speeds, b \in BOOLEAN}
    /\ other_entity_status \in [Entities -> OtherPoses]
    /\ request \in Requests
    /\ see_around \in BOOLEAN
    /\ result = "idle"
    /\ waypoints = None
    /\ time = 0

\* A tick may run while the scenario lasts and nothing has thrown.
Ticking == time < MaxTime /\ result \in {"idle", "RUNNING", "FAILURE"}

Failure ==
    /\ result' = "FAILURE"
    /\ time' = time + 1
    /\ UNCHANGED <<entity_status, other_entity_status, request, see_around, waypoints>>

\* Lines 73-75: a request this action does not serve.
TickOtherRequest ==
    /\ Ticking
    /\ request \notin {"none", "follow_lane"}
    /\ Failure

\* Lines 76-106: with see_around, a right-of-way entity, a front entity
\* within stopping distance + length + 5 m, a stop line within stopping
\* distance + half the length + 5 m, or a conflicting entity closer than
\* length + stopping distance makes the tick fail.
\* Mutation: the front entity is not checked.
BlockedNoFront ==
    LET v == entity_status.v IN
    \/ GetRightOfWayEntities # {}
    \/ \E d \in GetDistanceToStopLine : WithinStop(d, BoundingBoxX \div 2 + 500, v)
    \/ \E d \in GetDistanceToConflictingEntity : StrictlyWithinStop(d, BoundingBoxX, v)

Blocked ==
    LET v == entity_status.v IN
    \/ GetRightOfWayEntities # {}
    \/ \E d \in GetDistanceToFrontEntity : WithinStop(d, BoundingBoxX + 500, v)
    \/ \E d \in GetDistanceToStopLine : WithinStop(d, BoundingBoxX \div 2 + 500, v)
    \/ \E d \in GetDistanceToConflictingEntity : StrictlyWithinStop(d, BoundingBoxX, v)

TickBlocked ==
    /\ Ticking
    /\ request \in {"none", "follow_lane"}
    /\ see_around /\ Blocked
    /\ Failure

Proceeds == request \in {"none", "follow_lane"} /\ ~(see_around /\ Blocked)

\* Lines 107-112: without a lanelet pose the entity is stopped where it is.
TickNoLaneletPose ==
    /\ Ticking
    /\ Proceeds
    /\ ~entity_status.valid
    /\ entity_status' = StopAtEndOfRoad(entity_status)
    /\ result' = "RUNNING"
    /\ time' = time + 1
    /\ UNCHANGED <<other_entity_status, request, see_around, waypoints>>

\* Lines 40-57, calculateWaypoints, on the status the tick started from:
\* the trajectory from s over the horizon, or an empty array when reversing.
CalculateWaypoints(st) ==
    IF st.v >= 0 THEN Some([from |-> st.s, to |-> st.s + GetHorizon(st.v)]) ELSE None

(***************************************************************************)
(* Lines 114-123: the status is advanced with the speed w the planner      *)
(* chose (target_speed, or the speed limit, is the planner's input), then  *)
(* the waypoints are computed from the status the tick started with.       *)
(***************************************************************************)
Planned(w) ==
    /\ w \in Speeds
    /\ w - entity_status.v \in -SpeedStep .. SpeedStep

TickFollowLane ==
    /\ Ticking
    /\ Proceeds
    /\ entity_status.valid
    /\ \E w \in Speeds :
        LET u == CalculateEntityStatusUpdated(entity_status, w) IN
        /\ Planned(w)
        /\ u.out = "ok"
        /\ entity_status' = u.status
        /\ waypoints' = CalculateWaypoints(entity_status)
    /\ result' = "RUNNING"
    /\ time' = time + 1
    /\ UNCHANGED <<other_entity_status, request, see_around>>

\* Line 423 throws, or line 386 reads an empty vector: the scenario ends.
TickFollowLaneAborts ==
    /\ Ticking
    /\ Proceeds
    /\ entity_status.valid
    /\ \E w \in Speeds :
        LET u == CalculateEntityStatusUpdated(entity_status, w) IN
        /\ Planned(w)
        /\ u.out # "ok"
        /\ result' = u.out
    /\ time' = time + 1
    /\ UNCHANGED <<entity_status, other_entity_status, request, see_around, waypoints>>

Next ==
    \/ TickOtherRequest
    \/ TickBlocked
    \/ TickNoLaneletPose
    \/ TickFollowLane
    \/ TickFollowLaneAborts

\* The simulator ticks the tree every step.
Spec == Init /\ [][Next]_vars /\ WF_vars(Next)

-----------------------------------------------------------------------------
(* Properties.                                                             *)

\* A trajectory from s to s + horizon, 20 to 50 m long.
Waypoint(x) == x \in [from : Int, to : Int] /\ x.to - x.from \in 2000 .. 5000

\* Types; the waypoints cover the 20 to 50 m horizon that
\* calculateWaypoints clamps v * 5 to (lines 47-48).
TypeOK ==
    /\ entity_status \in Statuses
    /\ other_entity_status \in [Entities -> OtherStatuses]
    /\ request \in Requests /\ see_around \in BOOLEAN
    /\ result \in {"idle", "RUNNING", "FAILURE", "error", "undefined"}
    /\ \A x \in waypoints : Waypoint(x)
    /\ \A x, y \in waypoints : x = y
    /\ time \in 0 .. MaxTime

\* calculateEntityStatusUpdated (lines 379-436) conserves arc length along
\* the route: when a tick moves the entity from one route lanelet to
\* another, its route position advances by exactly the distance travelled,
\* less the 1 cm that the backward branch (line 387) gives up.
RouteProgressStep ==
    /\ result' = "RUNNING" /\ entity_status.valid
    /\ OnRoute(entity_status.lanelet) /\ OnRoute(entity_status'.lanelet)
    /\ entity_status' # StopAtEndOfRoad(entity_status)
    => LET travel == Travel(entity_status'.v, entity_status.v)
       IN  RoutePos(entity_status') - RoutePos(entity_status)
             = travel - (IF entity_status.s + travel < 0 THEN 1 ELSE 0)

\* Every tick of the action conserves the entity's route position.
RouteProgress == [][RouteProgressStep]_vars

\* The distance one tick can cover (a planned speed change from any speed
\* the entity can have, stopped included) is within the 5 m margin that
\* line 84 adds to the stop distance, and leaves the entity's length within
\* the 40 m range of the front-entity search (action_node.cpp line 222).
StepWithinMargin ==
    \A v \in Speeds \cup {0}, w \in Speeds :
        w - v \in -SpeedStep .. SpeedStep
        => Travel(w, v) <= 500 /\ BoundingBoxX + Travel(w, v) <= 4000

\* Every lanelet pose the entity starts from lies on its lanelet, as the
\* lanelet poses that HdMapUtils::toLaneletPose returns do.
InitialPosesOnLanelets ==
    \A p \in InitialPoses : p.s \in 0 .. LaneletLength[p.lanelet]

\* One tick (a planned speed change from any speed the entity can have)
\* travels less than the length of any lanelet, forward or backward: the
\* update subtracts (lines 405-408) or adds (line 387) one lanelet length.
StepWithinLanelets ==
    \A v \in Speeds \cup {0}, w \in Speeds :
        w - v \in -SpeedStep .. SpeedStep
        => \A l \in Lanelets : Travel(w, v) \in 1 - LaneletLength[l] .. LaneletLength[l]

\* A see-around entity that follows its lane (tick lines 80-88) never closes
\* to less than its own length behind an entity ahead of it on its route
\* that has a lanelet pose and the same heading.
NoRearEndStep ==
    see_around /\ result' = "RUNNING" /\ entity_status.valid
    /\ OnRoute(entity_status.lanelet) /\ OnRoute(entity_status'.lanelet)
    => \A e \in Entities :
         LET o == other_entity_status[e] IN
         o.valid /\ o.ahead /\ OnRoute(o.lanelet)
         /\ RoutePos(o) - RoutePos(entity_status) >= BoundingBoxX
         => RoutePos(o) - RoutePos(entity_status') >= BoundingBoxX

\* No tick of a see-around entity closes on an entity ahead of it.
NoRearEnd == [][NoRearEndStep]_vars

\* A lanelet pose stays on its lanelet: the update subtracts the length of
\* the lanelet it leaves (lines 405-408) and adds that of the one it enters
\* backward (line 387), so that 0 <= s <= length.
LaneletPoseInRange ==
    entity_status.valid => entity_status.s \in 0 .. LaneletLength[entity_status.lanelet]

\* Reversing past the start of a lanelet reads its first predecessor
\* (line 386); the read is defined only when there is one.
PredecessorDefined == result # "undefined"

=============================================================================
