# Formal models of the spline engine and the lane-following action

This directory holds TLA+ models of two parts of scenario_simulator_v2: the Catmull-Rom spline engine at its geometry core, and the behaviour-tree lane-following action that moves an NPC vehicle along its route. It also holds the TLC configurations that check them and the TLAPS proofs about them. `PROJECT.json` lists every component, run, mutant, mapping to source lines, finding, hazard and theorem.

## The system

The spline engine is `src/common/math/geometry/src/spline/catmull_rom_spline.cpp`. It turns an ordered list of control points into a piecewise-cubic path and answers queries by arc length. Spec §2 names three parts:

- **CatmullRomSpline**, in `src/`. The constructor picks a shape by the number of control points n:
  - n = 0 throws;
  - n = 1 is a point;
  - n = 2 is a line;
  - n ≥ 3 derives one HermiteCurve per pair of adjacent points.

  For n ≥ 3 it then fills a length table, sums it into `total_length_` and calls `checkConnection()`. Queries first map a global arc length s to a (curve index, local s) pair with `getCurveIndexAndS`. They then call the curve. `getSInSplineCurve` maps the pair back.
- **HermiteCurve** and **LineSegment** are not under `src/`. The model takes from spec §4.2 only what the spline uses: a curve's value, its first and second derivative, and whether it is a constant curve.

The second part is the NPC vehicle's behaviour tree:

- **ActionNode** (`src/simulation/behavior_tree_plugin/src/action_node.cpp`) is the base class of every action. It gives the queries an action asks about its surroundings: the entity ahead, the stop line, the right-of-way entities, the entities on conflicting crosswalks and lanes. It also gives the kinematic update `calculateEntityStatusUpdated` and the stopping distance `calculateStopDistance`.
- **FollowLaneAction** (`follow_lane_sequence/follow_lane_action.cpp`) is ticked once per simulation step. Its tick fails when the vehicle must yield or stop. Otherwise it advances the vehicle one step along the route and outputs its waypoints.

The two files come from two versions of the tree. `follow_lane_action.cpp` is under `src/simulation/simulation_api`. It is a `VehicleActionNode` that calls `getDistanceToFrontEntity()`, `calculateStopDistance()` and `calculateEntityStatusUpdated(target_speed)`. The helpers are translated from `behavior_tree_plugin/src/action_node.cpp`, whose versions take the spline, the constraints and the speed as arguments. The model composes the tick of the first with the helpers of the second. The control flow that the model keeps is the same in both. `foundConflictingEntity` is not modelled: the tick never calls it.

The spline and the tree interact: the action builds a spline of the route and asks it for the arc length at which an entity's polygon collides with it. The model takes that arc length to be the entity's position along the route; see *Data abstraction* below.

The remaining files under `src/` are listed in `PROJECT.json` as not modelled, each with its reason:

- `EgoEntity` and the JobList tests;
- the longitudinal speed planner, which has only declarations;
- the occupancy grid;
- the OpenSCENARIO syntax classes.

## Modules

| Module | Models |
|---|---|
| `CatmullRomSpline` | The spline's state and its operations: construct, point query, release. It also defines the properties. |
| `MC_CatmullRomSpline` | The constants for TLC: axes `{"x","y"}` and coordinates `{0,1}`. |
| `CatmullRomSplineProofs` | TLAPS proofs of the type invariant, connectivity and tangent continuity. |
| `CatmullRomSplineResolveProofs` | TLAPS proofs that `getCurveIndexAndS` resolves every s in range and that `getSInSplineCurve` inverts it. |
| `TrajectorySpec` | The abstract contract of `getTrajectory` (spec §4.3): a call returns start, every \|resolution\| towards end, then end. |
| `SplineTrajectory` | The loop of `getTrajectory` (lines 97-119), one iteration per step, and its refinement of `TrajectorySpec`. |
| `MC_SplineTrajectory` | Positions 0..4, and resolutions {−2,−1,1,2} or {0,1}. |
| `SplineTrajectoryProofs` | TLAPS proofs of the loop's type invariant and of the refinement. |
| `ActionNode` | The ActionNode state and queries, and `calculateEntityStatusUpdated`, over an HD map given as constants. |
| `FollowLaneAction` | `FollowLaneAction::tick` composed with the ActionNode queries it calls. |
| `MC_FollowLaneAction` | A four-lanelet route with a crosswalk, a conflicting lane, a right-of-way lanelet and a stop line. |
| `FollowLaneActionProofs` | TLAPS proofs of the type invariant and the conservation of route position. |
| `FollowLaneRearEndProofs` | TLAPS proof that the front-entity guard prevents rear-end collisions. |
| `FollowLanePoseProofs` | TLAPS proof that lanelet poses stay on their lanelets when no tick outruns a lanelet. |
| `NatLeast` | The least-number principle (a non-empty set of naturals has a least element), from the well-founded induction library, and `SumsExist`: every sequence of integers has a function of its running sums. |

### State

The state mirrors the members of `CatmullRomSpline`:

- `control_points`
- `curves`, which stands for `curves_`
- `length_list`, which stands for `length_list_`
- `total_length`, which stands for `total_length_`

Two variables are added:

- `alive` says whether an instance exists;
- `ret` records the outcome of the last call: `ok`, or which error was thrown, or `undefined` when the code reads out of bounds.

`ConnectivityError` stands for the SimulationError that `checkConnection` throws.

### Data abstraction

- **Coordinates.** They are small integers (`Coord`).
- **Coefficients.** A HermiteCurve is kept as its four coefficient vectors *before* the common factor ½ of lines 152-163. So `FirstCurve`, `LastCurve` and `InnerCurve` are the code's integer combinations of control points, line for line, and evaluation is exact. `Eval2`, `Tangent2` and `Accel2` return twice the value, the derivative and the second derivative. `Equals` compares a point with a doubled point. On integer coordinates a mismatch is at least ½, far above the float epsilon that `equals()` tolerates, so the exact test is faithful.
- **Segment length.** `getLength()` integrates numerically and is not modelled. `LengthChoices` lets it return any length in `0..MaxLen`, zero exactly for a constant curve. Every length table the integrator could produce is therefore explored.
- **Uninitialized total length.** For n ∈ {1,2}, `total_length_` is never assigned. The model chooses it freely in `SRange`, so every value the build could leave is covered.

### Actions

| Action | Code |
|---|---|
| `ConstructEmpty` | lines 124-126: n = 0 throws |
| `ConstructDegenerate` | lines 127-133: n ∈ {1,2}; no curves, `total_length_` unset |
| `ConstructCurves` | lines 134-237: the whole lambda |
| `GetPoint` | lines 386-390: `getCurveIndexAndS` then `curves_[i]`; the result is `undefined` when i is out of range |
| `Release` | the spline is dropped; spec §5 says it lives for one planning cycle |

`ConstructCurves` covers the whole lambda in one step:

1. derive the coefficients;
2. fill the length table;
3. sum the total;
4. call `checkConnection`.

The other queries (`getPose`, `getTangentVector`, `getNormalVector`, the squared distances) use the same dispatch as `GetPoint`. `CurveIndexAndS` and `SInSplineCurve` translate lines 239-257 and 259-271, including the `s < 0` and `s >= total_length_` branches and the final throw.

## Runs

| Run | cfg | Expect | Shows |
|---|---|---|---|
| spline_core | `MC_CatmullRomSpline.cfg` | pass (23,482 states) | See the list below. |
| end_curvature | `MC_CatmullRomSpline_EndCurvatureZero.cfg` | violation | Spec §4.3 says the end curvature is zero. The first and last segments have b = P0 − 2P1 + P2 ≠ 0 (lines 141, 167), which gives nonzero end curvature on any turning 3-point spline. |
| degenerate_query | `MC_CatmullRomSpline_QueryDefined.cfg` | violation | `getPoint` on a 1- or 2-point spline indexes the empty `curves_`: index 0 for s < 0, and `size()-1`, which wraps, for s ≥ total. |

The spline_core run shows:

- **NoConnectivityError:** `checkConnection` never throws.
- **TangentContinuity:** adjacent curves meet with equal tangents.
- **ResolveInRange:** every s in [0, total] resolves to an existing curve, with a local s inside its length, and strictly inside a positive length when s < total.
- **ResolveRoundTrip:** `getSInSplineCurve(getCurveIndexAndS(s)) = s` for every s from −1 to total + 1.

Each property of spline_core has a mutant in `PROJECT.json`, a plausible bug that TLC catches:

- a length loop that skips the last curve;
- a sign slip in the first segment;
- a linear last segment;
- a closed segment test;
- an inverse mapping that counts the curve's own length.

**Bounds.** MaxPoints = 4 gives every branch of the coefficient loop:

- n = 3 builds first and last segments only;
- n = 4 adds an interior segment and both joins between different formulas.

Two coordinates per axis give collinear, turning and repeated points, and so zero-length curves. MaxLen = 2 gives unequal segment lengths and makes segment boundaries fall at interior values of s. The theorems extend the properties they cover to every n and every integer coordinate.

**Fairness.** There is none. The properties are safety properties, and the spline does nothing on its own.

## Spline proofs (`CatmullRomSplineProofs`)

`tlapm CatmullRomSplineProofs.tla` proves three theorems for all constants satisfying `SplineAssumption` (the axes include x and y, coordinates are integers, MaxPoints ∈ Nat, MaxLen ≥ 1):

- **TypeCorrect:** `Spec => []TypeOK`.
- **ConnectivityHolds:** `Spec => []NoConnectivityError`.
- **SplineIsSmooth:** `Spec => []TangentContinuity`.

All three rest on the inductive invariant `IInv == TypeOK /\ NoConnectivityError /\ TangentContinuity`. The two properties alone are not inductive, because the step needs the types of the curves and the control points. The argument runs as follows:

1. Per-axis identity lemmas over plain integers (`FirstIdentities`, `LastIdentities`, `InnerIdentities`) state what each coefficient formula evaluates to at t = 0 and t = 1, and its tangent there.
2. `FirstCoeffs`, `LastCoeffs` and `InnerCoeffs` instantiate them at the control points.
3. `Connected` shows that `CheckConnection(P, BuildCurves(P))` holds for every list of three or more points. So `ConstructCurves` always takes its success branch.
4. `Smooth` shows that the tangent at the end of curve j equals that at the start of curve j + 1: (P[j+1] − P[j−1]) for every kind of neighbour.

## Resolve proofs (`CatmullRomSplineResolveProofs`)

`tlapm CatmullRomSplineResolveProofs.tla` proves, under the same `SplineAssumption`:

- **ResolveStaysInRange:** `Spec => []ResolveInRange`.
- **ResolveInverts:** `Spec => []ResolveRoundTrip`.

Neither property is inductive alone: both need to know that `total_length_` is the last running sum of `length_list_` (lines 229-232). The inductive invariant is `RInv == IInv /\ TotalIsSum`, where `TotalIsSum` says exactly that whenever the spline has curves. TLC checked `RInv` on the spline_core model (23,482 states) before it was proved. The argument:

1. `Cum` is a recursive function. The library's rule for recursive functions, and its induction rules, take an operator parameter, which the installed provers cannot instantiate. So `CumExists` proves that a function obeying the recurrence exists, with the least-number principle (`NatHasLeast`) applied to the concrete set of lengths k for which no prefix function on 0..k exists. `CumRec` then gives the recurrence `Cum(L)[j] = Cum(L)[j-1] + L[j]`. `CumFacts` shows the sums are natural numbers, by the same least-counterexample argument.
2. `InsideCurve`: for 0 ≤ s < total, the least j with s < `Cum[j]` is not 0, because `Cum[0] = 0`. The curve before it starts at or below s, so j contains s.
3. `ResolveInside`: the set of curves the loop of lines 250-256 would accept is therefore non-empty. `Min` of it is one of them, so the result names an existing curve and a local s of `s - Cum[j-1]`, with `0 ≤ local s < L[j]`.
4. `ResolvePastEnd`: for s ≥ total, the result is the last curve with local s `s - (total - L[n])`. This is `L[n]` at s = total and maps back to s, because `total = Cum[n-1] + L[n]`.

Induction over data is thus done by hand: each induction is a least-counterexample argument over a concrete set. It is not done through a rule with an operator parameter.

**Only model-checked.** The two violations stay with TLC.

## getTrajectory (`SplineTrajectory`, `TrajectorySpec`)

**The abstract specification.** `TrajectorySpec` has three actions:

- `Request` takes a call (start, end, resolution);
- `Respond` returns `Samples(a)` in one step;
- `Return` hands the result to the caller.

`Samples(a)` is start, then start ± k·|r| for every k with k·|r| < |end − start|, then end. That is ⌈|end − start| / |r|⌉ + 1 points, the count spec §4.3 gives. `WF(Respond)` says that every call returns.

**The implementation.** `SplineTrajectory` has these actions:

- `Call` takes the arguments (lines 97-102);
- `StepForward` and `StepBackward` are one iteration of the forward or the backward loop (lines 103-106 and 112-115);
- `Finish` is the loop exit together with the final `push_back(end_s)`;
- `Return` hands the result to the caller.

The mutable state is the loop variable `s` and the vector `ret`. Arc lengths are integers. A step adds `std::fabs(resolution)`, as the code does, whatever the resolution's sign.

**Fairness.** It is weak fairness on the three loop actions. The loop does no waiting and no I/O, so a running call keeps executing.

**Refinement.** The mapping is:

- `phase` is `busy` while the loop runs;
- `out` is `ret` once the loop has finished.

| Run | cfg | Expect | Shows |
|---|---|---|---|
| trajectory | `MC_SplineTrajectory.cfg` | pass (512 states) | `TypeOK` and `ImplementsTrajectorySpec`, the abstract `Spec` with its fairness. Every call with start, end ∈ 0..4 and a non-zero resolution returns exactly the specified points, and returns eventually. |
| trajectory_zero_resolution | `MC_SplineTrajectory_Termination.cfg` | violation | `Termination`. With resolution 0, `s` never moves and the loop never ends (line 114). Spec §4.3 calls the trajectory finite. |

`MaxSamples` = 5 bounds `ret`. It is reached only when the resolution is zero: with |r| ≥ 1 and distance ≤ 4, a call has at most 5 points.

**Proofs (`SplineTrajectoryProofs`).** Both theorems hold for all positions and resolutions allowed by `TrajectoryAssumption`:

- **TypeCorrect:** `Spec => []TypeOK`. The loop variable stays within one |resolution| of the interval.
- **TrajectoryRefinement:** if 0 ∉ Resolutions, then `Spec` implies `Abstract!Init /\ [][Abstract!Next]_Abstract!vars`. This is the safety part of the refinement.

`TrajectoryRefinement` rests on the inductive invariant `IInv`. Its `LoopInv` conjunct says three things while the loop runs:

- `ret` holds the first k samples;
- `s` is the (k+1)-th sample;
- every sample so far lies short of end.

The refinement itself is not inductive. Only `LoopInv` lets `Finish` be shown to return `Samples(args)`. The lemmas are:

- `SampleCount`: (d + r − 1) ÷ r = k when (k−1)·r < d ≤ k·r;
- `FinishCount`: at the exit, that k is the abstract count;
- `FinishSamples`: appending end gives `Samples`, by extensionality of sequences.

The liveness half (the abstract WF) is checked by TLC only.

## The lane-following action (`ActionNode`, `FollowLaneAction`)

**State.**

- `entity_status` is the vehicle's status: lanelet, s, `lanelet_pose_valid`, speed.
- `other_entity_status` holds the other entities: lanelet, s, validity, and whether they head the same way as the route.
- `request` and `see_around` are the blackboard inputs.
- `result` is the tick's NodeStatus, or `error` for a thrown SimulationError, or `undefined` for the out-of-bounds read at line 386.
- `waypoints` is the output.
- `time` counts simulation steps.

**Data abstraction.**

- Arc lengths are in cm, speeds in m/s and the step time in ms. The update at lines 380-382 is `Travel(v, w) = ((v + w)·StepTimeMs) ÷ 20`.
- The HD map (lanelet lengths, successors, predecessors, right-of-way lanelets, conflicting crosswalks and lanes, stop lines) is a set of constants.
- `getCollisionPointIn2D` of the route spline and an entity's polygon is taken to be the entity's arc length along the route from the vehicle. It is none when either of them is off the route. The spline itself is modelled in `CatmullRomSpline`, not here.
- `boost::optional` values are sets with at most one element.
- `calculateStopDistance` is compared exactly, never rounded. `StopDistanceCmp` compares the distance with a bound through squares of integers. This covers both forward branches, and the backward branch, where `sqrt` of a negative number is NaN and the test at line 515 fails.
- The longitudinal speed planner is declared outside `src/`. It may choose any speed within `SpeedStep` of the current one.
- The other entities are fixed during a run, and take every placement among `OtherPoses` initially.

**Actions.** Each is one complete tick:

| Action | tick lines |
|---|---|
| `TickOtherRequest` | 72-75: a request the action does not serve fails. |
| `TickBlocked` | 76-106: right-of-way entity, front entity, stop line or conflicting entity within reach; fails. |
| `TickNoLaneletPose` | 107-112: `stopAtEndOfRoad`. |
| `TickFollowLane` | 114-123: `calculateEntityStatusUpdated` succeeds; waypoints from the status the tick started with. |
| `TickFollowLaneAborts` | 117: the update throws (line 423) or reads past the end of an empty vector (line 386). |

**Fairness.** `WF_vars(Next)`: the simulator ticks the tree every step while the scenario runs. Deadlock is not checked, because the scenario stops at `MaxTime` or when a tick throws.

| Run | cfg | Expect | Shows |
|---|---|---|---|
| follow_lane | `MC_FollowLaneAction.cfg` | pass (269,290 states) | See the list below. |
| lanelet_overshoot | `MC_FollowLaneAction_Overshoot.cfg` | violation | `LaneletPoseInRange`. Lines 405-408 subtract one lanelet's length. When a step is longer than the next lanelet (here 200 cm), `s` ends past the lanelet's end. |
| reverse_at_road_start | `MC_FollowLaneAction_Reverse.cfg` | violation | `PredecessorDefined`. Reversing over the start of a lanelet with no predecessor reads `previous_lanelet_ids[0]` of an empty vector. |

The follow_lane run checks:

- **TypeOK**, including that the waypoints span the 20-50 m horizon.
- **RouteProgress:** when a tick moves the vehicle between route lanelets, its route position advances by exactly the distance travelled. The backward branch gives up 1 cm.
- **NoRearEnd:** a see-around vehicle never closes to within its length behind a valid, same-heading entity ahead of it on the route.
- **LaneletPoseInRange:** every lanelet pose stays on its lanelet, 0 ≤ s ≤ length. Here every tick (−1 m to 3 m) is shorter than every lanelet (6 m or more). The lanelet_overshoot run shows the same property failing when a lanelet is shorter than a tick.

**Bounds.** The route has three lanelets (1000, 600 and 1000 cm) and a dead end after it. The step time is 1 s and speeds range over −1..3 m/s, so one tick crosses a lanelet boundary and reversing crosses the route's start. Two other entities in five placements put an entity ahead, on the crosswalk, on the conflicting lane and on the right-of-way lanelet. Twelve ticks let the vehicle reach the dead end. The symmetry over the two entities is sound, because no definition tells them apart.

**Proofs (`FollowLaneActionProofs`, `FollowLaneRearEndProofs`, `FollowLanePoseProofs`).** These hold for every map, route, set of entities, speed range, step time and bound that satisfy `ActionNodeAssumption` and `FollowLaneAssumption`:

- **TypeCorrect:** `Spec => []TypeOK`. `TypeOK` is inductive as it stands. The waypoints conjunct rests on `GetHorizon` being clamped to 2000..5000 for every integer speed.
- **ProgressAlongRoute:** `RouteFollowsMap => (Spec => RouteProgress)`. `UpdateProgress` follows each branch of `calculateEntityStatusUpdated`:
  - staying on the lanelet adds the travel;
  - moving to `Route[i+1]` adds the travel through `RouteOffset[i+1] = RouteOffset[i] + length`;
  - reversing lands on `Route[i-1]` and gives up 1 cm;
  - the successor of the last route lanelet is off the route, so that branch cannot end on it.
- **NoRearEndCollision:** `RouteFollowsMap /\ StepWithinMargin => (Spec => NoRearEnd)`. The inductive invariant is `TypeOK /\ SpeedInv`, where `SpeedInv` says the speed is a planned one or the 0 that `stopAtEndOfRoad` sets. TLC confirmed `SpeedInv` on the follow_lane model before it was proved. The step argument (`RearStep`) runs as follows:
  1. A tick moves the vehicle by at most the distance travelled.
  2. `StepWithinMargin` bounds that distance by 5 m, and by 40 m less the vehicle's length.
  3. An entity ahead that is less than 40 m away is a front candidate. The candidate `getFrontEntityName` picks is no farther (`FrontEntityNear`), because `std::min_element` finds a least distance (`NatHasLeast`).
  4. The guard at lines 81-87 lets the tick run only when that candidate is beyond the stop distance plus the length plus 5 m.
  5. The stop distance is never negative (`StopCmpNegative`).

- **LaneletPoseStaysInRange:** `InitialPosesOnLanelets /\ StepWithinLanelets => (Spec => []LaneletPoseInRange)`. The inductive invariant is `TypeOK /\ SpeedInv /\ LaneletPoseInRange`. `UpdateInRange` follows each branch of `calculateEntityStatusUpdated`:
  - staying keeps 0 ≤ new_s ≤ length;
  - passing into the next lanelet leaves `new_s - length`, which is positive and at most the travel, so at most the next lanelet's length;
  - reversing leaves `new_s + length(prev) - 1`, which is at least 0 because the travel is more than `-length(prev)`;
  - stopping at the end of the road keeps the pose.

Four hypotheses are part of the theorems' statements, not assumed of every model:

- `RouteFollowsMap` says the route is a path of the map. The first predecessor of a route lanelet, when it is on the route, is the lanelet before it on the route. The first successor of the last route lanelet is off the route. The route planner that builds `route_lanelets` is outside `src/`. Without this hypothesis, reversing could jump to a route lanelet elsewhere on the route, and the route position would not be conserved.
- `StepWithinMargin` says a tick never travels more than the 5 m margin, nor more than 40 m less the vehicle's length. Without it, a fast or long step can carry the vehicle past the margin: 20 m/s at a 0.5 s step travels 10 m. So the guard alone does not prevent rear-end collisions.

- `InitialPosesOnLanelets` says the entity starts on its lanelet, as every lanelet pose from `toLaneletPose` does.
- `StepWithinLanelets` says a tick travels at most the length of any lanelet forward, and less than it backward. This is exactly where the code is right. Lines 405-408 and 387 add or subtract one lanelet length per tick, so a tick that outruns a lanelet leaves the pose past its end. The lanelet_overshoot model breaks this hypothesis: TLC refuses it there, with a 200 cm lanelet and 300 cm ticks.

`MC_FollowLaneAction` asserts `RouteFollowsMap`, `StepWithinMargin` and `InitialPosesOnLanelets` (`ASSUME MCRouteFollowsMap`, `ASSUME MCStepWithinMargin`, `ASSUME MCInitialPosesOnLanelets`), and TLC evaluates them on every run. `StepWithinLanelets` holds on the follow_lane model's constants and fails on the lanelet_overshoot model's. That is why it is not an ASSUME of the shared MC module. The route offsets `RouteOffset` are a recursive function in `ActionNode`: the offset starts at 0 and adds each route lanelet's length. TLAPS sees a recursive function definition only as a CHOOSE. `OffsetRec` in `FollowLaneActionProofs` therefore proves that a function satisfying the equation exists. It builds that function from the running sums of `SumsExist` in `NatLeast`. `OffsetSum` then proves that every offset is an integer. It uses a least-counterexample argument through `NatHasLeast`: the least index with a non-integer offset can be neither the first nor a later one.

**Only model-checked.** These stay with TLC:

- `PredecessorDefined`, which the code violates; `LaneletPoseInRange` is proved only under `StepWithinLanelets`, and its failure without it is shown by TLC;
- all liveness. TLAPS does not reason about `ENABLED` and fairness here.

## Not modelled

1. `getLeftBounds`/`getRightBounds`, whose `num_points = 0` divides at line 55, the collision queries (lines 273-355) and `getSValue`.
2. `EgoEntity`: the order of `setStatus` and `onUpdate` around `initial_pose_`.
3. The other ActionNode queries, which `FollowLaneAction::tick` does not call: `getYieldStopDistance`, `getDistanceToTrafficLightStopLine`, `calculateEntityStatusUpdatedInWorldFrame`.

Floating-point rounding against the absolute epsilon of `equals()` is out of reach of an exact model. At map coordinates the rounding of the coefficients is far below that epsilon, so it is not listed as a hazard.
