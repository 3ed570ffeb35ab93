------------------------- MODULE FollowLanePoseProofs -------------------------
(***************************************************************************)
(* When does calculateEntityStatusUpdated (action_node.cpp lines 368-439) *)
(* keep a lanelet pose on its lanelet?  It subtracts the length of the     *)
(* lanelet it leaves (lines 405-408) or adds the length of the one it      *)
(* backs into (line 387) once per tick; the lanelet_overshoot run shows    *)
(* that a tick longer than the lanelet it enters leaves s past that        *)
(* lanelet's end.  This module proves the converse: when every tick        *)
(* travels less than any lanelet's length and the entity starts on its     *)
(* lanelet, every lanelet pose it ever has lies on its lanelet.            *)
(***************************************************************************)
EXTENDS FollowLaneActionProofs, TLAPS

\* One successful update from a pose on its lanelet, with a planned speed
\* and a step no longer than any lanelet, lands on the lanelet it names.
LEMMA UpdateInRange ==
    ASSUME StepWithinLanelets,
           NEW st \in Statuses, st.v \in Speeds \cup {0},
           st.s \in 0 .. LaneletLength[st.lanelet],
           NEW w \in Speeds, w - st.v \in -SpeedStep .. SpeedStep,
           CalculateEntityStatusUpdated(st, w).out = "ok"
    PROVE  LET nx == CalculateEntityStatusUpdated(st, w).status
           IN  nx.s \in 0 .. LaneletLength[nx.lanelet]
<1>. DEFINE travel == Travel(w, st.v)
            new_s == st.s + travel
            u == CalculateEntityStatusUpdated(st, w)
            nx == u.status
            i == RouteIndex(st.lanelet)
            len == LaneletLength[st.lanelet]
<1>0. /\ st.s \in Int /\ st.v \in Int /\ st.lanelet \in Lanelets /\ w \in Int
      /\ travel \in Int /\ new_s \in Int /\ len \in Nat \ {0}
    <2>1. st.s \in Int /\ st.v \in Int /\ st.lanelet \in Lanelets /\ w \in Int
        BY SpeedsInt DEF Statuses
    <2>2. travel \in Int
        BY <2>1, TravelInt, Zenon
    <2>3. len \in Nat \ {0}
        BY <2>1, LengthType
    <2>. QED  BY <2>1, <2>2, <2>3
\* The step bound, for the lanelet the update lands on.
<1>1. ASSUME NEW l \in Lanelets
      PROVE  travel \in 1 - LaneletLength[l] .. LaneletLength[l]
    BY Zenon DEF StepWithinLanelets
<1>. HIDE DEF travel
<1>2. CASE new_s < 0
    <2>. DEFINE prev == PreviousIds[st.lanelet]
    <2>1. u = UpdateBackward(st, w, new_s)
        BY <1>2 DEF CalculateEntityStatusUpdated, travel
    <2>2. prev # <<>> /\ prev[1] \in Lanelets
        <3>1. prev \in Seq(Lanelets)
            BY <1>0, PreviousType
        <3>2. prev # <<>>
            BY <2>1 DEF UpdateBackward
        <3>. QED  BY <3>1, <3>2
    <2>3. nx = [lanelet |-> prev[1], valid |-> TRUE, v |-> w,
                s |-> new_s + LaneletLength[prev[1]] - 1]
        BY <2>1, <2>2 DEF UpdateBackward
    <2>4. LaneletLength[prev[1]] \in Nat \ {0}
        BY <2>2, LengthType
    <2>5. travel \in 1 - LaneletLength[prev[1]] .. LaneletLength[prev[1]]
        BY <1>1, <2>2
    <2>6. new_s + LaneletLength[prev[1]] - 1 \in 0 .. LaneletLength[prev[1]]
        BY <1>0, <1>2, <2>4, <2>5
    <2>. QED  BY <2>3, <2>6
<1>3. CASE ~(new_s < 0)
    <2>. DEFINE moved(l, s) == [lanelet |-> l, valid |-> TRUE, v |-> w, s |-> s]
    <2>1. u = UpdateForward(st, w, new_s)
        BY <1>3 DEF CalculateEntityStatusUpdated, travel
    <2>2. i # 0
        BY <2>1 DEF UpdateForward
    <2>3. CASE len >= new_s
        <3>1. nx = moved(st.lanelet, new_s)
            BY <2>1, <2>2, <2>3 DEF UpdateForward
        <3>. QED  BY <1>0, <1>3, <2>3, <3>1
    \* Past the end of the lanelet: new_s - len is positive and at most the
    \* step, which is at most the length of the lanelet entered.
    <2>4. ASSUME NEW l \in Lanelets, ~(len >= new_s)
          PROVE  new_s - len \in 0 .. LaneletLength[l]
        BY <1>0, <1>1, <2>4, LengthType
    <2>5. CASE ~(len >= new_s) /\ i # Len(Route)
        <3>1. nx = moved(Route[i + 1], new_s - len)
            BY <2>1, <2>2, <2>5 DEF UpdateForward
        <3>2. Route[i + 1] \in Lanelets
            <4>1. i \in 1 .. Len(Route) - 1
                BY <2>2, <2>5, RouteIndexOf
            <4>. QED  BY <4>1, RouteType
        <3>. QED  BY <2>4, <2>5, <3>1, <3>2
    <2>6. CASE ~(len >= new_s) /\ i = Len(Route) /\ NextIds[Route[i]] = <<>>
        <3>1. nx = StopAtEndOfRoad(st)
            BY <2>1, <2>2, <2>6 DEF UpdateForward
        <3>. QED  BY <3>1 DEF StopAtEndOfRoad
    <2>7. CASE ~(len >= new_s) /\ i = Len(Route) /\ NextIds[Route[i]] # <<>>
        <3>1. nx = moved(NextIds[Route[i]][1], new_s - len)
            BY <2>1, <2>2, <2>7 DEF UpdateForward
        <3>2. NextIds[Route[i]][1] \in Lanelets
            <4>1. NextIds[Route[i]] \in Seq(Lanelets)
                BY <2>7, RouteType, RouteSeq, NextType
            <4>. QED  BY <2>7, <4>1
        <3>. QED  BY <2>4, <2>7, <3>1, <3>2
    <2>. QED  BY <2>3, <2>5, <2>6, <2>7
<1>. QED  BY <1>2, <1>3

-----------------------------------------------------------------------------
(* The invariant.                                                          *)

LEMMA PoseInit ==
    ASSUME InitialPosesOnLanelets
    PROVE  Init => LaneletPoseInRange
BY DEF Init, InitialPosesOnLanelets, LaneletPoseInRange

LEMMA PoseStep ==
    ASSUME StepWithinLanelets
    PROVE  TypeOK /\ SpeedInv /\ LaneletPoseInRange /\ [Next]_vars => LaneletPoseInRange'
<1>. SUFFICES ASSUME TypeOK, SpeedInv, LaneletPoseInRange, [Next]_vars
              PROVE  LaneletPoseInRange'
    OBVIOUS
<1>1. CASE TickFollowLane
    <2>. PICK w \in Speeds :
            /\ Planned(w)
            /\ CalculateEntityStatusUpdated(entity_status, w).out = "ok"
            /\ entity_status' = CalculateEntityStatusUpdated(entity_status, w).status
        BY <1>1 DEF TickFollowLane
    <2>1. /\ entity_status \in Statuses
          /\ entity_status.v \in Speeds \cup {0}
          /\ entity_status.s \in 0 .. LaneletLength[entity_status.lanelet]
        BY <1>1 DEF TickFollowLane, TypeOK, SpeedInv, LaneletPoseInRange
    <2>2. w - entity_status.v \in -SpeedStep .. SpeedStep
        BY DEF Planned
    <2>. QED  BY <2>1, <2>2, UpdateInRange DEF LaneletPoseInRange
<1>2. CASE TickNoLaneletPose
    BY <1>2 DEF TickNoLaneletPose, StopAtEndOfRoad, LaneletPoseInRange
<1>3. CASE TickOtherRequest \/ TickBlocked \/ TickFollowLaneAborts \/ UNCHANGED vars
    BY <1>3 DEF TickOtherRequest, TickBlocked, Failure, TickFollowLaneAborts, vars,
                LaneletPoseInRange
<1>. QED  BY <1>1, <1>2, <1>3 DEF Next

\* calculateEntityStatusUpdated keeps every lanelet pose of the entity on
\* its lanelet (0 <= s <= length) whenever the entity starts on its
\* lanelet and no tick travels farther forward than a lanelet is long, nor
\* as far backward; the
\* lanelet_overshoot run shows the pose leaving its lanelet when a tick
\* outruns a short lanelet.
THEOREM LaneletPoseStaysInRange ==
    ASSUME InitialPosesOnLanelets, StepWithinLanelets
    PROVE  Spec => []LaneletPoseInRange
<1>1. Spec => [](TypeOK /\ SpeedInv)
    BY TypeCorrect, SpeedInvariant, PTL
<1>. QED  BY <1>1, PoseInit, PoseStep, PTL DEF Spec

=============================================================================
