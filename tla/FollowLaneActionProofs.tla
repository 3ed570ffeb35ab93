------------------------ MODULE FollowLaneActionProofs ------------------------
(***************************************************************************)
(* Proofs about FollowLaneAction::tick composed with the ActionNode        *)
(* helpers, for every map, route, speed range and bound that satisfy the   *)
(* modules' assumptions.                                                   *)
(***************************************************************************)
EXTENDS FollowLaneAction, NatLeast, TLAPS

-----------------------------------------------------------------------------
(* The map's assumptions, one fact at a time.                            *)

LEMMA RouteSeq == Route \in Seq(Lanelets) /\ Len(Route) \in Nat \ {0}
BY ActionNodeAssumption

LEMMA RouteInjective == \A i, j \in 1 .. Len(Route) : Route[i] = Route[j] => i = j
BY ActionNodeAssumption

LEMMA LengthType == LaneletLength \in [Lanelets -> Nat \ {0}]
BY ActionNodeAssumption

LEMMA NextType == NextIds \in [Lanelets -> Seq(Lanelets)]
BY ActionNodeAssumption

LEMMA PreviousType == PreviousIds \in [Lanelets -> Seq(Lanelets)]
BY ActionNodeAssumption

LEMMA SpeedsInt == Speeds \subseteq Int
BY ActionNodeAssumption

LEMMA StepTimeNat == StepTimeMs \in Nat
BY ActionNodeAssumption

LEMMA BoxNat == BoundingBoxX \in Nat
BY ActionNodeAssumption

LEMMA LimitsPositive ==
    \A c \in {MaxDeceleration, MaxDecelerationRate, MaxAcceleration, MaxAccelerationRate} :
        c \in Nat \ {0}
BY ActionNodeAssumption

\* RouteOffset obeys its defining recurrence: it is the running sums of the
\* route lanelets' lengths, shifted by one.
LEMMA OffsetRec ==
    RouteOffset = [i \in 1 .. Len(Route) |->
                      IF i = 1 THEN 0 ELSE RouteOffset[i - 1] + LaneletLength[Route[i - 1]]]
<1>. DEFINE n == Len(Route)
            L == [k \in 1 .. n |-> LaneletLength[Route[k]]]
<1>1. n \in Nat /\ \A k \in 1 .. n : Route[k] \in Lanelets
    BY RouteSeq
<1>2. L \in Seq(Int) /\ Len(L) = n
    <2>1. L \in [1 .. n -> Int]
        BY <1>1, LengthType
    <2>. QED  BY <1>1, <2>1
<1>3. PICK g : g = [j \in 0 .. n |-> IF j = 0 THEN 0 ELSE g[j - 1] + L[j]]
    <2>1. \E g : g = [j \in 0 .. Len(L) |-> IF j = 0 THEN 0 ELSE g[j - 1] + L[j]]
        <3>. HIDE DEF L
        <3>. QED  BY <1>2, SumsExist, Zenon
    <2>. HIDE DEF L
    <2>. QED  BY <1>2, <2>1, Zenon
<1>4. \E f : f = [i \in 1 .. n |-> IF i = 1 THEN 0 ELSE f[i - 1] + LaneletLength[Route[i - 1]]]
    <2>. DEFINE f == [i \in 1 .. n |-> g[i - 1]]
    <2>0. f = [i \in 1 .. n |-> g[i - 1]]
        OBVIOUS
    <2>1. ASSUME NEW i \in 1 .. n
          PROVE  f[i] = IF i = 1 THEN 0 ELSE f[i - 1] + LaneletLength[Route[i - 1]]
        <3>1. CASE i = 1
            BY <1>1, <1>3, <3>1
        <3>2. CASE i # 1
            <4>1. i - 1 \in 1 .. n /\ i - 1 \in 0 .. n /\ i - 2 \in 0 .. n /\ i - 1 # 0
                BY <1>1, <3>2
            <4>2. g[i - 1] = g[(i - 1) - 1] + L[i - 1]
                <5>. HIDE DEF L
                <5>1. \A j \in 0 .. n : g[j] = IF j = 0 THEN 0 ELSE g[j - 1] + L[j]
                    BY <1>3, Zenon
                <5>2. g[i - 1] = IF i - 1 = 0 THEN 0 ELSE g[(i - 1) - 1] + L[i - 1]
                    BY <5>1, <4>1
                <5>. QED  BY <5>2, <4>1
            <4>3. f[i] = g[i - 1] /\ f[i - 1] = g[(i - 1) - 1]
                BY <4>1
            <4>. QED  BY <3>2, <4>1, <4>2, <4>3
        <3>. QED  BY <3>1, <3>2
    <2>. HIDE DEF f
    <2>2. f = [i \in 1 .. n |-> IF i = 1 THEN 0 ELSE f[i - 1] + LaneletLength[Route[i - 1]]]
        BY <2>0, <2>1
    <2>. QED  BY <2>2
<1>. QED  BY <1>4, Zenon DEF RouteOffset

\* RouteOffset holds the running sum of the route lanelets' lengths.
LEMMA OffsetSum ==
    /\ RouteOffset \in [1 .. Len(Route) -> Int]
    /\ \A i \in 2 .. Len(Route) : RouteOffset[i] = RouteOffset[i - 1] + LaneletLength[Route[i - 1]]
<1>. DEFINE n == Len(Route)
<1>1. n \in Nat /\ \A k \in 1 .. n : Route[k] \in Lanelets
    BY RouteSeq
<1>2. \A i \in 2 .. n : RouteOffset[i] = RouteOffset[i - 1] + LaneletLength[Route[i - 1]]
    <2>. SUFFICES ASSUME NEW i \in 2 .. n
                  PROVE  RouteOffset[i] = RouteOffset[i - 1] + LaneletLength[Route[i - 1]]
        OBVIOUS
    <2>1. i \in 1 .. n /\ i # 1
        BY <1>1
    <2>. QED  BY <2>1, OffsetRec, Zenon
\* The offsets are integers: the least index where one is not cannot be
\* the first, whose offset is 0, nor a later one, whose offset adds a
\* length to the integer before it.
<1>3. \A i \in 1 .. n : RouteOffset[i] \in Int
    <2>. DEFINE Bad == {i \in 1 .. n : RouteOffset[i] \notin Int}
    <2>. SUFFICES ASSUME Bad # {} PROVE FALSE
        BY DEF Bad
    <2>1. PICK m \in Bad : \A y \in Bad : m <= y
        <3>1. Bad \in SUBSET Nat
            BY <1>1 DEF Bad
        <3>. HIDE DEF Bad
        <3>. QED  BY <3>1, NatHasLeast, Zenon
    <2>2. RouteOffset[1] = 0
        <3>1. 1 \in 1 .. n
            BY RouteSeq
        <3>. QED  BY <3>1, OffsetRec
    <2>3. m \in 2 .. n
        BY <1>1, <2>1, <2>2 DEF Bad
    <2>4. m - 1 \notin Bad /\ m - 1 \in 1 .. n
        <3>1. ~(m <= m - 1) /\ m - 1 \in 1 .. n
            BY <2>3
        <3>. QED  BY <3>1, <2>1
    <2>5. RouteOffset[m - 1] \in Int /\ LaneletLength[Route[m - 1]] \in Int
        BY <1>1, <2>4, LengthType DEF Bad
    <2>6. RouteOffset[m] \in Int
        BY <1>2, <2>3, <2>5
    <2>. QED  BY <2>1, <2>6 DEF Bad
<1>4. DOMAIN RouteOffset = 1 .. n
    BY OffsetRec, Zenon
<1>5. RouteOffset = [i \in 1 .. n |-> RouteOffset[i]]
    BY <1>4, OffsetRec, Zenon
<1>6. RouteOffset \in [1 .. n -> Int]
    <2>. HIDE DEF n
    <2>. QED  BY <1>3, <1>5, Zenon
<1>. QED  BY <1>2, <1>6, Zenon DEF n

-----------------------------------------------------------------------------
(* Lemmas about the helpers.                                               *)

\* The loop of lines 401-402 finds a route lanelet at its one position.
LEMMA RouteIndexOf ==
    ASSUME NEW l
    PROVE  /\ RouteIndex(l) \in 0 .. Len(Route)
           /\ OnRoute(l) => RouteIndex(l) \in 1 .. Len(Route) /\ Route[RouteIndex(l)] = l
           /\ ~OnRoute(l) => RouteIndex(l) = 0
<1>1. Len(Route) \in Nat
    BY RouteSeq
<1>2. CASE OnRoute(l)
    <2>1. \E i \in 1 .. Len(Route) : Route[i] = l
        BY <1>2 DEF OnRoute, RouteLanelets
    <2>2. RouteIndex(l) = CHOOSE i \in 1 .. Len(Route) : Route[i] = l
        BY <1>2 DEF RouteIndex, OnRoute
    <2>3. RouteIndex(l) \in 1 .. Len(Route) /\ Route[RouteIndex(l)] = l
        BY <2>1, <2>2, Zenon
    <2>. QED  BY <1>1, <1>2, <2>3
<1>3. CASE ~OnRoute(l)
    BY <1>3 DEF RouteIndex, OnRoute
<1>. QED  BY <1>2, <1>3

LEMMA RouteIndexAt ==
    ASSUME NEW i \in 1 .. Len(Route)
    PROVE  OnRoute(Route[i]) /\ RouteIndex(Route[i]) = i
<1>1. OnRoute(Route[i])
    BY DEF OnRoute, RouteLanelets
<1>2. Route[RouteIndex(Route[i])] = Route[i] /\ RouteIndex(Route[i]) \in 1 .. Len(Route)
    BY <1>1, RouteIndexOf
<1>. QED  BY <1>1, <1>2, RouteInjective

\* The route lanelets are lanelets of the map.
LEMMA RouteType ==
    \A i \in 1 .. Len(Route) : Route[i] \in Lanelets
BY RouteSeq

\* A trajectory from a over the horizon getHorizon gives for a speed v is
\* a waypoint pair: lines 47-48 clamp the horizon to [20 m, 50 m].
LEMMA WaypointOf ==
    ASSUME NEW a \in Int, NEW v \in Int
    PROVE  Waypoint([from |-> a, to |-> a + GetHorizon(v)])
<1>1. GetHorizon(v) \in Int /\ GetHorizon(v) \in 2000 .. 5000
    BY DEF GetHorizon
<1>. DEFINE r == [from |-> a, to |-> a + GetHorizon(v)]
<1>. SUFFICES Waypoint(r)
    OBVIOUS
<1>2. r \in [from : Int, to : Int]
    BY <1>1
<1>3. r.to - r.from \in 2000 .. 5000
    BY <1>1
<1>. HIDE DEF r
<1>. QED  BY <1>2, <1>3 DEF Waypoint

\* calculateWaypoints (lines 45-56) outputs a trajectory over the clamped
\* horizon, or nothing.
LEMMA WaypointsType ==
    ASSUME NEW st \in Statuses
    PROVE  /\ \A x \in CalculateWaypoints(st) : Waypoint(x)
           /\ \A x, y \in CalculateWaypoints(st) : x = y
<1>1. st.s \in Int /\ st.v \in Int
    BY DEF Statuses
<1>3. CASE st.v >= 0
    <2>. DEFINE wp == [from |-> st.s, to |-> st.s + GetHorizon(st.v)]
    <2>1. CalculateWaypoints(st) = {wp}
        BY <1>3 DEF CalculateWaypoints, Some
    <2>2. Waypoint(wp)
        BY <1>1, WaypointOf, Zenon
    <2>. HIDE DEF wp
    <2>. QED  BY <2>1, <2>2, Zenon
<1>4. CASE ~(st.v >= 0)
    BY <1>4 DEF CalculateWaypoints, None
<1>. QED  BY <1>3, <1>4

LEMMA TravelInt ==
    ASSUME NEW v \in Int, NEW w \in Int
    PROVE  Travel(v, w) \in Int
BY StepTimeNat DEF Travel

\* calculateEntityStatusUpdated yields a status and one of three outcomes.
LEMMA UpdateType ==
    ASSUME NEW st \in Statuses, NEW w \in Speeds
    PROVE  /\ CalculateEntityStatusUpdated(st, w).out \in {"ok", "error", "undefined"}
           /\ CalculateEntityStatusUpdated(st, w).status \in Statuses
<1>. DEFINE new_s == st.s + Travel(w, st.v)
<1>0. st.s \in Int /\ st.v \in Int /\ st.lanelet \in Lanelets /\ w \in Int
    BY SpeedsInt DEF Statuses
<1>a. Travel(w, st.v) \in Int
    BY <1>0, TravelInt, Zenon
<1>1. new_s \in Int /\ w \in Int
    BY <1>0, <1>a
<1>2. CASE new_s < 0
    <2>1. CalculateEntityStatusUpdated(st, w) = UpdateBackward(st, w, new_s)
        BY <1>2 DEF CalculateEntityStatusUpdated
    <2>2. PreviousIds[st.lanelet] \in Seq(Lanelets)
        BY <1>0, PreviousType
    <2>3. PreviousIds[st.lanelet] # <<>> => PreviousIds[st.lanelet][1] \in Lanelets
        BY <2>2
    <2>4. PreviousIds[st.lanelet] # <<>>
          => LaneletLength[PreviousIds[st.lanelet][1]] \in Int
        BY <2>3, LengthType
    <2>. QED  BY <1>1, <2>1, <2>3, <2>4 DEF UpdateBackward, Statuses
<1>3. CASE ~(new_s < 0)
    <2>1. CalculateEntityStatusUpdated(st, w) = UpdateForward(st, w, new_s)
        BY <1>3 DEF CalculateEntityStatusUpdated
    <2>. DEFINE i == RouteIndex(st.lanelet)
    <2>2. i \in 0 .. Len(Route)
        BY RouteIndexOf
    <2>3. i \in 1 .. Len(Route) - 1 => Route[i + 1] \in Lanelets
        BY <2>2, RouteType
    <2>4. i = Len(Route) /\ NextIds[Route[i]] # <<>> => NextIds[Route[i]][1] \in Lanelets
        <3>1. i = Len(Route) => NextIds[Route[i]] \in Seq(Lanelets)
            BY RouteType, RouteSeq, NextType
        <3>. QED  BY <3>1
    <2>5. LaneletLength[st.lanelet] \in Int
        BY <1>0, LengthType
    <2>6. StopAtEndOfRoad(st) \in Statuses
        BY <1>0 DEF StopAtEndOfRoad, Statuses
    <2>. DEFINE length == LaneletLength[st.lanelet]
                moved(l, s) == [out |-> "ok", status |-> [lanelet |-> l, valid |-> TRUE, v |-> w, s |-> s]]
    <2>7. ASSUME NEW l \in Lanelets, NEW s \in Int PROVE moved(l, s).status \in Statuses
        BY <1>0 DEF Statuses
    <2>8. CASE i = 0
        BY <1>0, <2>1, <2>8 DEF UpdateForward
    <2>9. CASE i # 0 /\ length >= new_s
        BY <1>0, <1>1, <2>1, <2>7, <2>9 DEF UpdateForward
    <2>10. CASE i # 0 /\ ~(length >= new_s) /\ i # Len(Route)
        <3>1. Route[i + 1] \in Lanelets /\ new_s - length \in Int
            BY <1>1, <2>2, <2>3, <2>5, <2>10
        <3>. QED  BY <2>1, <2>7, <2>10, <3>1 DEF UpdateForward
    <2>11. CASE i # 0 /\ ~(length >= new_s) /\ i = Len(Route) /\ NextIds[Route[i]] = <<>>
        BY <2>1, <2>6, <2>11 DEF UpdateForward
    <2>12. CASE i # 0 /\ ~(length >= new_s) /\ i = Len(Route) /\ NextIds[Route[i]] # <<>>
        <3>1. NextIds[Route[i]][1] \in Lanelets /\ new_s - length \in Int
            BY <1>1, <2>4, <2>5, <2>12
        <3>. QED  BY <2>1, <2>7, <2>12, <3>1 DEF UpdateForward
    <2>. QED  BY <2>8, <2>9, <2>10, <2>11, <2>12
<1>. QED  BY <1>2, <1>3

(***************************************************************************)
(* One call of calculateEntityStatusUpdated that starts and ends on the   *)
(* route moves the entity along it by the distance travelled (less the    *)
(* 0.01 m the backward branch gives up at line 387), unless it stopped at *)
(* the end of the road.                                                    *)
(***************************************************************************)
LEMMA UpdateProgress ==
    ASSUME RouteFollowsMap, NEW st \in Statuses, NEW w \in Speeds,
           CalculateEntityStatusUpdated(st, w).out = "ok",
           OnRoute(st.lanelet),
           OnRoute(CalculateEntityStatusUpdated(st, w).status.lanelet),
           CalculateEntityStatusUpdated(st, w).status # StopAtEndOfRoad(st)
    PROVE  LET nx == CalculateEntityStatusUpdated(st, w).status
               travel == Travel(w, st.v)
           IN  /\ nx.v = w
               /\ RoutePos(nx) - RoutePos(st) = travel - (IF st.s + travel < 0 THEN 1 ELSE 0)
<1>. DEFINE travel == Travel(w, st.v)
            new_s == st.s + travel
            u == CalculateEntityStatusUpdated(st, w)
            nx == u.status
            i == RouteIndex(st.lanelet)
            len == LaneletLength[st.lanelet]
<1>0. /\ st.s \in Int /\ st.v \in Int /\ st.lanelet \in Lanelets /\ w \in Int
      /\ travel \in Int /\ new_s \in Int
    <2>1. st.s \in Int /\ st.v \in Int /\ st.lanelet \in Lanelets /\ w \in Int
        BY SpeedsInt DEF Statuses
    <2>2. travel \in Int
        BY <2>1, TravelInt, Zenon
    <2>. QED  BY <2>1, <2>2
<1>1. i \in 1 .. Len(Route) /\ Route[i] = st.lanelet /\ Len(Route) \in Nat
    BY RouteIndexOf, RouteSeq
<1>2. RoutePos(st) = RouteOffset[i] + st.s
    BY DEF RoutePos
<1>3. RouteOffset[i] \in Int /\ len \in Int
    BY <1>0, <1>1, OffsetSum, LengthType
<1>4. CASE new_s < 0
    <2>. DEFINE prev == PreviousIds[st.lanelet]
    <2>1. u = UpdateBackward(st, w, new_s)
        BY <1>4 DEF CalculateEntityStatusUpdated
    <2>2. prev # <<>>
        BY <2>1 DEF UpdateBackward
    <2>3. nx = [lanelet |-> prev[1], valid |-> TRUE, v |-> w,
                s |-> new_s + LaneletLength[prev[1]] - 1]
        BY <2>1, <2>2 DEF UpdateBackward
    <2>4. i > 1 /\ prev[1] = Route[i - 1]
        <3>1. OnRoute(prev[1])
            BY <2>3
        <3>. QED  BY <1>1, <2>2, <3>1 DEF RouteFollowsMap
    <2>5. RouteIndex(nx.lanelet) = i - 1
        BY <1>1, <2>3, <2>4, RouteIndexAt
    <2>6. /\ RouteOffset[i] = RouteOffset[i - 1] + LaneletLength[Route[i - 1]]
          /\ RouteOffset[i - 1] \in Int /\ LaneletLength[Route[i - 1]] \in Int
        BY <1>1, <2>4, OffsetSum, LengthType, RouteType
    <2>7. RoutePos(nx) = RouteOffset[i - 1] + (new_s + LaneletLength[Route[i - 1]] - 1)
        BY <2>3, <2>4, <2>5 DEF RoutePos
    <2>. QED  BY <1>0, <1>2, <1>3, <1>4, <2>3, <2>6, <2>7
<1>5. CASE ~(new_s < 0)
    <2>. DEFINE moved(l, s) == [lanelet |-> l, valid |-> TRUE, v |-> w, s |-> s]
    <2>1. u = UpdateForward(st, w, new_s)
        BY <1>5 DEF CalculateEntityStatusUpdated
    <2>2. i # 0
        BY <1>1
    <2>3. CASE len >= new_s
        <3>1. nx = moved(st.lanelet, new_s)
            BY <2>1, <2>2, <2>3 DEF UpdateForward
        <3>2. RoutePos(nx) = RouteOffset[i] + new_s
            BY <3>1 DEF RoutePos
        <3>. QED  BY <1>0, <1>2, <1>3, <1>5, <3>1, <3>2
    <2>4. CASE ~(len >= new_s) /\ i # Len(Route)
        <3>1. nx = moved(Route[i + 1], new_s - len)
            BY <2>1, <2>2, <2>4 DEF UpdateForward
        <3>2. i + 1 \in 1 .. Len(Route)
            BY <1>1, <2>4
        <3>3. RouteIndex(Route[i + 1]) = i + 1
            BY <3>2, RouteIndexAt
        <3>4. RouteOffset[i + 1] = RouteOffset[i] + len
            <4>1. i + 1 \in 2 .. Len(Route) /\ (i + 1) - 1 = i
                BY <1>1, <3>2
            <4>. QED  BY <1>1, <4>1, OffsetSum
        <3>5. RoutePos(nx) = RouteOffset[i + 1] + (new_s - len)
            BY <3>1, <3>3 DEF RoutePos
        <3>. QED  BY <1>0, <1>2, <1>3, <1>5, <3>1, <3>4, <3>5
    <2>5. CASE ~(len >= new_s) /\ i = Len(Route) /\ NextIds[Route[i]] = <<>>
        <3>1. nx = StopAtEndOfRoad(st)
            BY <2>1, <2>2, <2>5 DEF UpdateForward
        <3>. QED  BY <3>1
    <2>6. CASE ~(len >= new_s) /\ i = Len(Route) /\ NextIds[Route[i]] # <<>>
        <3>1. nx.lanelet = NextIds[Route[i]][1]
            BY <2>1, <2>2, <2>6 DEF UpdateForward
        <3>2. ~OnRoute(NextIds[Route[Len(Route)]][1])
            BY <2>6 DEF RouteFollowsMap
        <3>. QED  BY <2>6, <3>1, <3>2
    <2>. QED  BY <2>3, <2>4, <2>5, <2>6
<1>. QED  BY <1>4, <1>5

-----------------------------------------------------------------------------
(* Type correctness.                                                       *)

LEMMA TypeInit == Init => TypeOK
<1>. SUFFICES ASSUME Init PROVE TypeOK
    OBVIOUS
<1>1. entity_status \in Statuses
    BY SpeedsInt, FollowLaneAssumption DEF Init, Statuses
<1>2. other_entity_status \in [Entities -> OtherStatuses]
    BY FollowLaneAssumption DEF Init
<1>3. time \in 0 .. MaxTime
    BY FollowLaneAssumption DEF Init
<1>. QED  BY <1>1, <1>2, <1>3 DEF Init, TypeOK, None

LEMMA TypeStep == TypeOK /\ [Next]_vars => TypeOK'
<1>. SUFFICES ASSUME TypeOK, [Next]_vars PROVE TypeOK'
    OBVIOUS
<1>0. time + 1 \in 0 .. MaxTime <=> time < MaxTime
    BY FollowLaneAssumption DEF TypeOK
<1>1. CASE TickOtherRequest \/ TickBlocked
    BY <1>0, <1>1 DEF TickOtherRequest, TickBlocked, Failure, Ticking, TypeOK
<1>2. CASE TickNoLaneletPose
    <2>1. StopAtEndOfRoad(entity_status) \in Statuses
        BY DEF TypeOK, StopAtEndOfRoad, Statuses
    <2>. QED  BY <1>0, <1>2, <2>1 DEF TickNoLaneletPose, Ticking, TypeOK
<1>3. CASE TickFollowLane
    <2>0. entity_status \in Statuses
        BY DEF TypeOK
    <2>. PICK w \in Speeds :
            LET u == CalculateEntityStatusUpdated(entity_status, w) IN
            /\ Planned(w)
            /\ u.out = "ok"
            /\ entity_status' = u.status
            /\ waypoints' = CalculateWaypoints(entity_status)
        BY <1>3 DEF TickFollowLane
    <2>1. entity_status' \in Statuses
        BY <2>0, UpdateType
    <2>2. /\ \A x \in waypoints' : Waypoint(x)
          /\ \A x, y \in waypoints' : x = y
        BY <2>0, WaypointsType
    <2>. QED  BY <1>0, <1>3, <2>1, <2>2 DEF TickFollowLane, Ticking, TypeOK
<1>4. CASE TickFollowLaneAborts
    <2>0. entity_status \in Statuses
        BY DEF TypeOK
    <2>. PICK w \in Speeds : CalculateEntityStatusUpdated(entity_status, w).out # "ok"
                             /\ result' = CalculateEntityStatusUpdated(entity_status, w).out
        BY <1>4 DEF TickFollowLaneAborts
    <2>1. result' \in {"error", "undefined"}
        BY <2>0, UpdateType
    <2>. QED  BY <1>0, <1>4, <2>1 DEF TickFollowLaneAborts, Ticking, TypeOK
<1>5. CASE UNCHANGED vars
    BY <1>5 DEF vars, TypeOK
<1>. QED  BY <1>1, <1>2, <1>3, <1>4, <1>5 DEF Next

\* The state FollowLaneAction's tick leaves is well typed, and the
\* waypoints it outputs cover the clamped 20-50 m horizon of lines 47-48.
THEOREM TypeCorrect == Spec => []TypeOK
BY TypeInit, TypeStep, PTL DEF Spec

-----------------------------------------------------------------------------
(* Conservation of the route position.                                     *)

\* A step of the action that is not a RUNNING tick of calculateEntityStatusUpdated
\* with a valid pose leaves RouteProgressStep vacuous; the tick itself is
\* UpdateProgress.
LEMMA ProgressStep ==
    ASSUME RouteFollowsMap, TypeOK, [Next]_vars
    PROVE  [RouteProgressStep]_vars
<1>. SUFFICES ASSUME Next,
                     result' = "RUNNING", entity_status.valid,
                     OnRoute(entity_status.lanelet), OnRoute(entity_status'.lanelet),
                     entity_status' # StopAtEndOfRoad(entity_status)
              PROVE  LET travel == Travel(entity_status'.v, entity_status.v)
                     IN  RoutePos(entity_status') - RoutePos(entity_status)
                           = travel - (IF entity_status.s + travel < 0 THEN 1 ELSE 0)
    BY DEF RouteProgressStep
<1>0. entity_status \in Statuses
    BY DEF TypeOK
<1>1. CASE TickOtherRequest \/ TickBlocked
    BY <1>1 DEF TickOtherRequest, TickBlocked, Failure
<1>2. CASE TickNoLaneletPose
    BY <1>2 DEF TickNoLaneletPose
<1>3. CASE TickFollowLaneAborts
    <2>. PICK w \in Speeds : CalculateEntityStatusUpdated(entity_status, w).out # "ok"
                             /\ result' = CalculateEntityStatusUpdated(entity_status, w).out
        BY <1>3 DEF TickFollowLaneAborts
    <2>. QED  BY <1>0, UpdateType
<1>4. CASE TickFollowLane
    <2>. PICK w \in Speeds :
            /\ CalculateEntityStatusUpdated(entity_status, w).out = "ok"
            /\ entity_status' = CalculateEntityStatusUpdated(entity_status, w).status
        BY <1>4 DEF TickFollowLane
    <2>1. /\ entity_status'.v = w
          /\ RoutePos(entity_status') - RoutePos(entity_status)
               = Travel(w, entity_status.v)
                 - (IF entity_status.s + Travel(w, entity_status.v) < 0 THEN 1 ELSE 0)
        BY <1>0, UpdateProgress
    <2>. QED  BY <2>1
<1>. QED  BY <1>1, <1>2, <1>3, <1>4 DEF Next

\* When the route is a path of the map, calculateEntityStatusUpdated (lines
\* 379-436) conserves arc length along it: a tick that keeps the entity on
\* its route advances its route position by the distance travelled, less
\* the 0.01 m of line 387 when it reverses into the previous lanelet.
THEOREM ProgressAlongRoute ==
    ASSUME RouteFollowsMap
    PROVE  Spec => RouteProgress
<1>1. TypeOK /\ [Next]_vars => [RouteProgressStep]_vars
    BY ProgressStep
<1>. QED  BY <1>1, TypeCorrect, PTL DEF Spec, RouteProgress

-----------------------------------------------------------------------------
(* The stop distance and the speed.                                        *)

\* calculateStopDistance (lines 492-524) is never negative: a distance the
\* comparison finds beyond it is not below 0.
LEMMA StopCmpNegative ==
    ASSUME NEW v \in Int, NEW x \in Int, StopDistanceCmp(v, x) < 0
    PROVE  x >= 0
<1>. DEFINE dec == IF v >= 0 THEN MaxDeceleration ELSE MaxAcceleration
            rate == IF v >= 0 THEN MaxDecelerationRate ELSE MaxAccelerationRate
            first == v >= 0 /\ 2 * v <= dec * dec
<1>1. dec \in Nat \ {0} /\ rate \in Nat \ {0}
    BY LimitsPositive
<1>2. CASE first
    <2>1. x < 0 => StopDistanceCmp(v, x) = 1
        BY <1>2 DEF StopDistanceCmp
    <2>. QED  BY <2>1
<1>3. CASE ~first
    <2>. DEFINE p == 100 * (dec * dec * dec * dec + 3 * rate * rate * (v - dec) * (v - dec))
                k == 6 * rate * rate * dec
    <2>1. StopDistanceCmp(v, x) = Sign(p - k * x)
        BY <1>3 DEF StopDistanceCmp
    <2>2. p - k * x < 0
        BY <2>1 DEF Sign
    <2>3. dec * dec * dec * dec > 0 /\ (v - dec) * (v - dec) >= 0 /\ rate * rate > 0
        BY <1>1
    <2>4. p > 0
        BY <1>1, <2>3
    <2>5. k \in Nat \ {0}
        BY <1>1
    <2>6. x < 0 => k * x < 0
        BY <2>5
    <2>7. p \in Int /\ k * x \in Int
        BY <1>1, <2>5
    <2>. HIDE DEF p, k
    <2>. QED  BY <2>2, <2>4, <2>6, <2>7
<1>. QED  BY <1>2, <1>3

\* The speed is one the planner chose, or 0 after stopAtEndOfRoad.
SpeedInv == entity_status.v \in Speeds \cup {0}

\* An update that succeeds sets the planned speed, or stops the entity.
LEMMA UpdateSpeed ==
    ASSUME NEW st \in Statuses, NEW w \in Speeds,
           CalculateEntityStatusUpdated(st, w).out = "ok"
    PROVE  CalculateEntityStatusUpdated(st, w).status.v \in {w, 0}
<1>. DEFINE new_s == st.s + Travel(w, st.v)
<1>1. CASE new_s < 0
    BY <1>1 DEF CalculateEntityStatusUpdated, UpdateBackward
<1>2. CASE ~(new_s < 0)
    BY <1>2 DEF CalculateEntityStatusUpdated, UpdateForward, StopAtEndOfRoad
<1>. QED  BY <1>1, <1>2

LEMMA SpeedInvariant == Spec => []SpeedInv
<1>1. Init => SpeedInv
    BY DEF Init, SpeedInv
<1>2. TypeOK /\ SpeedInv /\ [Next]_vars => SpeedInv'
    <2>. SUFFICES ASSUME TypeOK, SpeedInv, [Next]_vars PROVE SpeedInv'
        OBVIOUS
    <2>1. CASE TickFollowLane
        <3>. PICK w \in Speeds :
                /\ CalculateEntityStatusUpdated(entity_status, w).out = "ok"
                /\ entity_status' = CalculateEntityStatusUpdated(entity_status, w).status
            BY <2>1 DEF TickFollowLane
        <3>. QED  BY UpdateSpeed DEF TypeOK, SpeedInv
    <2>2. CASE TickNoLaneletPose
        BY <2>2 DEF TickNoLaneletPose, StopAtEndOfRoad, SpeedInv
    <2>3. CASE TickOtherRequest \/ TickBlocked \/ TickFollowLaneAborts \/ UNCHANGED vars
        BY <2>3 DEF TickOtherRequest, TickBlocked, Failure, TickFollowLaneAborts, vars, SpeedInv
    <2>. QED  BY <2>1, <2>2, <2>3 DEF Next
<1>. QED  BY <1>1, <1>2, TypeCorrect, PTL DEF Spec

=============================================================================
