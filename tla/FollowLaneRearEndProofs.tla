----------------------- MODULE FollowLaneRearEndProofs -----------------------
(***************************************************************************)
(* The front-entity guard of FollowLaneAction::tick (lines 80-88) keeps a  *)
(* see-around entity from running into an entity ahead of it on its route, *)
(* for every map whose route is a path and every speed range and step time *)
(* whose ticks stay within the guard's 5 m margin.                        *)
(***************************************************************************)
EXTENDS FollowLaneActionProofs, NatLeast, TLAPS


\* A pose on the route has an integer route position.
LEMMA RoutePosInt ==
    ASSUME NEW p, OnRoute(p.lanelet), p.s \in Int
    PROVE  RoutePos(p) \in Int
<1>1. RouteIndex(p.lanelet) \in 1 .. Len(Route)
    BY RouteIndexOf
<1>. QED  BY <1>1, OffsetSum DEF RoutePos

\* A candidate of getFrontEntityName (lines 213-227) lies ahead along the
\* route, and getDistanceToTargetEntityPolygon answers its distance.
LEMMA FrontDistance ==
    ASSUME TypeOK, NEW f \in FrontCandidates
    PROVE  /\ EntityDistance(f) \in Nat
           /\ DistanceToTargetEntityPolygon(other_entity_status[f]) = Some(EntityDistance(f))
<1>. DEFINE o == other_entity_status[f]
<1>0. o \in OtherStatuses /\ entity_status \in Statuses
    BY DEF TypeOK, FrontCandidates
<1>1. \E d \in DistanceToTargetEntityPolygon(o) : d < 4000
    BY DEF FrontCandidates
<1>2. /\ EgoOnRoute /\ OnRoute(o.lanelet)
      /\ RoutePos(o) >= RoutePos(entity_status)
      /\ DistanceToTargetEntityPolygon(o) = Some(RoutePos(o) - RoutePos(entity_status))
    BY <1>1 DEF DistanceToTargetEntityPolygon, None
<1>3. RoutePos(o) \in Int /\ RoutePos(entity_status) \in Int
    BY <1>0, <1>2, RoutePosInt DEF Statuses, OtherStatuses, EgoOnRoute
<1>4. EntityDistance(f) = RoutePos(o) - RoutePos(entity_status)
    BY <1>2 DEF EntityDistance, Get, Some
<1>7. EntityDistance(f) \in Nat
    <2>1. RoutePos(o) >= RoutePos(entity_status)
        BY <1>2
    <2>. HIDE DEF o
    <2>. QED  BY <1>3, <1>4, <2>1
<1>8. DistanceToTargetEntityPolygon(o) = Some(EntityDistance(f))
    BY <1>2, <1>4, Zenon
<1>. QED  BY <1>7, <1>8

\* std::min_element (line 234) finds a least distance among the candidates,
\* so the front entity is no farther than any candidate.
LEMMA FrontEntityNear ==
    ASSUME TypeOK, NEW a \in FrontCandidates
    PROVE  \E d \in GetDistanceToFrontEntity : d \in Int /\ d <= EntityDistance(a)
<1>. DEFINE T == {EntityDistance(f) : f \in FrontCandidates}
<1>0. \A f \in FrontCandidates :
        /\ EntityDistance(f) \in Nat
        /\ DistanceToTargetEntityPolygon(other_entity_status[f]) = Some(EntityDistance(f))
    BY FrontDistance, Zenon
<1>1. T \subseteq Nat /\ T # {}
    <2>1. \A f \in FrontCandidates : EntityDistance(f) \in Nat
        BY <1>0, Zenon
    <2>2. EntityDistance(a) \in T
        OBVIOUS
    <2>. QED  BY <2>1, <2>2, Zenon
<1>2. PICK m \in T : \A y \in T : m <= y
    BY <1>1, NatHasLeast
<1>3. \E c \in FrontCandidates : \A g \in FrontCandidates : EntityDistance(c) <= EntityDistance(g)
    <2>1. PICK c \in FrontCandidates : EntityDistance(c) = m
        BY <1>2
    <2>2. \A g \in FrontCandidates : EntityDistance(g) \in T
        OBVIOUS
    <2>3. \A g \in FrontCandidates : EntityDistance(c) <= EntityDistance(g)
        BY <1>1, <1>2, <2>1, <2>2
    <2>. QED  BY <2>3
<1>. DEFINE c0 == CHOOSE e \in FrontCandidates :
                      \A f \in FrontCandidates : EntityDistance(e) <= EntityDistance(f)
<1>4. c0 \in FrontCandidates /\ \A g \in FrontCandidates : EntityDistance(c0) <= EntityDistance(g)
    BY <1>3, Zenon
<1>5. GetFrontEntityName = Some(c0)
    <2>1. FrontCandidates # {}
        OBVIOUS
    <2>. QED  BY <2>1, Zenon DEF GetFrontEntityName
<1>6. GetDistanceToFrontEntity = DistanceToTargetEntityPolygon(other_entity_status[c0])
    <2>1. Get(Some(c0)) = c0 /\ Some(c0) # None
        BY Zenon DEF Get, Some, None
    <2>. QED  BY <1>5, <2>1, Zenon DEF GetDistanceToFrontEntity
<1>7. GetDistanceToFrontEntity = Some(EntityDistance(c0)) /\ EntityDistance(c0) \in Int
    <2>1. /\ EntityDistance(c0) \in Nat
          /\ DistanceToTargetEntityPolygon(other_entity_status[c0]) = Some(EntityDistance(c0))
        BY <1>0, <1>4, Zenon
    <2>. QED  BY <1>6, <2>1
<1>. QED  BY <1>4, <1>7 DEF Some

(***************************************************************************)
(* A RUNNING tick of a see-around entity on its route.  If it stopped at   *)
(* the end of the road it did not move.  Otherwise it moved by at most the *)
(* distance travelled (UpdateProgress).  That distance is within the 5 m   *)
(* margin, and an entity ahead less than 40 m off is no nearer than the    *)
(* front entity, which the guard of lines 81-87 keeps 5 m beyond the       *)
(* length and the stop distance.  An entity 40 m or more ahead stays       *)
(* beyond the length, since a step is shorter than 40 m less the length.   *)
(***************************************************************************)
LEMMA RearStep ==
    ASSUME RouteFollowsMap, StepWithinMargin, TypeOK, SpeedInv, [Next]_vars
    PROVE  [NoRearEndStep]_vars
<1>. SUFFICES ASSUME Next, see_around, result' = "RUNNING", entity_status.valid,
                     OnRoute(entity_status.lanelet), OnRoute(entity_status'.lanelet),
                     NEW e \in Entities,
                     other_entity_status[e].valid, other_entity_status[e].ahead,
                     OnRoute(other_entity_status[e].lanelet),
                     RoutePos(other_entity_status[e]) - RoutePos(entity_status) >= BoundingBoxX
              PROVE  RoutePos(other_entity_status[e]) - RoutePos(entity_status') >= BoundingBoxX
    BY DEF NoRearEndStep
<1>. DEFINE o == other_entity_status[e]
            g == RoutePos(o) - RoutePos(entity_status)
<1>0. entity_status \in Statuses /\ o \in OtherStatuses /\ BoundingBoxX \in Nat
    BY BoxNat DEF TypeOK
<1>1. RoutePos(o) \in Int /\ RoutePos(entity_status) \in Int
    BY <1>0, RoutePosInt DEF Statuses, OtherStatuses
<1>2. CASE TickOtherRequest \/ TickBlocked \/ TickFollowLaneAborts
    <2>1. entity_status' = entity_status
        BY <1>2 DEF TickOtherRequest, TickBlocked, Failure, TickFollowLaneAborts
    <2>. QED  BY <2>1
<1>3. CASE TickNoLaneletPose
    BY <1>3 DEF TickNoLaneletPose
<1>4. CASE TickFollowLane
    <2>. PICK w \in Speeds :
            /\ Planned(w)
            /\ CalculateEntityStatusUpdated(entity_status, w).out = "ok"
            /\ entity_status' = CalculateEntityStatusUpdated(entity_status, w).status
        BY <1>4 DEF TickFollowLane
    <2>. DEFINE travel == Travel(w, entity_status.v)
                diff == RoutePos(entity_status') - RoutePos(entity_status)
    <2>1. travel \in Int /\ travel <= 500 /\ BoundingBoxX + travel <= 4000
        <3>1. entity_status.v \in Speeds \cup {0} /\ w - entity_status.v \in -SpeedStep .. SpeedStep
            BY DEF SpeedInv, Planned
        <3>2. travel \in Int
            BY <1>0, SpeedsInt, TravelInt DEF Statuses
        <3>. QED  BY <3>1, <3>2 DEF StepWithinMargin
    <2>2. diff \in Int /\ (diff <= 0 \/ diff <= travel)
        <3>1. CASE entity_status' = StopAtEndOfRoad(entity_status)
            <4>1. RoutePos(entity_status') = RoutePos(entity_status)
                BY <3>1 DEF RoutePos, StopAtEndOfRoad
            <4>. QED  BY <1>1, <4>1
        <3>2. CASE entity_status' # StopAtEndOfRoad(entity_status)
            <4>1. diff = travel - (IF entity_status.s + travel < 0 THEN 1 ELSE 0)
                BY <1>0, <3>2, UpdateProgress
            <4>. QED  BY <2>1, <4>1
        <3>. QED  BY <3>1, <3>2
    <2>3. /\ g \in Int /\ g >= BoundingBoxX
          /\ RoutePos(o) - RoutePos(entity_status') = g - diff
        <3>1. RoutePos(entity_status') \in Int
            <4>1. entity_status' \in Statuses
                BY <1>0, UpdateType
            <4>. QED  BY <4>1, RoutePosInt DEF Statuses
        <3>. QED  BY <1>1, <3>1
    <2>. HIDE DEF o, g, diff, travel
    <2>4. CASE diff <= 0
        BY <1>0, <2>2, <2>3, <2>4 DEF o
    <2>5. CASE g >= 4000
        BY <1>0, <2>1, <2>2, <2>3, <2>5 DEF o
    <2>6. CASE diff > 0 /\ g < 4000
        <3>1. DistanceToTargetEntityPolygon(o) = Some(g)
            BY <1>0, <1>1, <2>3 DEF DistanceToTargetEntityPolygon, EgoOnRoute, o, g
        <3>2. e \in FrontCandidates
            BY <2>6, <3>1 DEF FrontCandidates, Some, o
        <3>3. EntityDistance(e) = g
            BY <3>1 DEF EntityDistance, Get, Some, o
        <3>4. PICK d \in GetDistanceToFrontEntity : d \in Int /\ d <= g
            BY <3>2, <3>3, FrontEntityNear
        <3>5. ~WithinStop(d, BoundingBoxX + 500, entity_status.v)
            BY <1>4, <3>4 DEF TickFollowLane, Proceeds, Blocked
        <3>6. d - (BoundingBoxX + 500) >= 0
            <4>1. StopDistanceCmp(entity_status.v, d - (BoundingBoxX + 500)) < 0
                BY <1>0, <3>4, <3>5 DEF WithinStop, StopDistanceCmp, Sign
            <4>. QED  BY <1>0, <3>4, <4>1, StopCmpNegative DEF Statuses
        <3>. QED  BY <1>0, <2>1, <2>2, <2>3, <3>4, <3>6 DEF o
    <2>. QED  BY <2>2, <2>3, <2>4, <2>5, <2>6
<1>. QED  BY <1>2, <1>3, <1>4 DEF Next

\* With a route that is a path of the map and ticks short enough to stay
\* within the 5 m margin of lines 82-84, the front-entity guard of
\* FollowLaneAction::tick keeps a see-around entity from closing to less
\* than its own length on any entity ahead of it on the route.
THEOREM NoRearEndCollision ==
    ASSUME RouteFollowsMap, StepWithinMargin
    PROVE  Spec => NoRearEnd
<1>1. TypeOK /\ SpeedInv /\ [Next]_vars => [NoRearEndStep]_vars
    BY RearStep
<1>. QED  BY <1>1, TypeCorrect, SpeedInvariant, PTL DEF Spec, NoRearEnd

=============================================================================
