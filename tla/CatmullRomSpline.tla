-------------------------- MODULE CatmullRomSpline --------------------------
(***************************************************************************)
(* math::geometry::CatmullRomSpline (src/common/math/geometry/src/spline/  *)
(* catmull_rom_spline.cpp): construction of the piecewise-cubic curve from *)
(* its control points, the connectivity check, and the translation of a   *)
(* global arc length s into (curve index, local s) and back.               *)
(*                                                                         *)
(* Abstractions.  Coordinates are integers.  A curve is kept as its        *)
(* coefficients BEFORE the halving of lines 152-163 (the "doubled"         *)
(* coefficients), so that every value is an integer; the halving is exact *)
(* in binary floating point, and the model evaluates 2 * point(t).  The   *)
(* arc length of a segment, computed by HermiteCurve's numeric integrator  *)
(* (not under src/), is a natural number chosen at construction, zero     *)
(* exactly when the segment is a single point.  Curve indices are 1-based *)
(* (the code's index i is the model's i + 1).                              *)
(***************************************************************************)
EXTENDS Integers, Sequences, FiniteSetsExt

CONSTANTS
    Axes,       \* the axes of a control point: "x", "y" and (optionally) "z"
    Coord,      \* the values a control-point coordinate may take
    MaxPoints,  \* the most control points a caller passes to the constructor
    MaxLen      \* the longest arc length the integrator returns for a segment

ASSUME SplineAssumption ==
    /\ {"x", "y"} \subseteq Axes
    /\ Coord \subseteq Int
    /\ MaxPoints \in Nat
    /\ MaxLen \in Nat \ {0}

Point == [Axes -> Coord]
Vec == [Axes -> Int]
\* A HermiteCurve: x(t) = (a t^3 + b t^2 + c t + d) / 2 on each axis.
Coeffs == [a : Vec, b : Vec, c : Vec, d : Vec]

\* The longest total length a model spline can have.
MaxTotal == (MaxPoints - 1) * MaxLen

\* The arc lengths s a caller queries: one before the start, every integer
\* position along the longest spline, and one past its end.
SRange == -1 .. MaxTotal + 1

-----------------------------------------------------------------------------
(* Coefficient derivation, lines 136-224, one operator per branch.        *)

\* Mutation: a sign slip in the linear coefficient of segment 0.
FirstCurveSignSlip(P) ==
    [a |-> [k \in Axes |-> 0],
     b |-> [k \in Axes |-> P[1][k] - 2 * P[2][k] + P[3][k]],
     c |-> [k \in Axes |-> -3 * P[1][k] + 4 * P[2][k] + P[3][k]],
     d |-> [k \in Axes |-> 2 * P[1][k]]]

\* Segment 0 (the code's i == 0), lines 140-151.
FirstCurve(P) ==
    [a |-> [k \in Axes |-> 0],
     b |-> [k \in Axes |-> P[1][k] - 2 * P[2][k] + P[3][k]],
     c |-> [k \in Axes |-> -3 * P[1][k] + 4 * P[2][k] - P[3][k]],
     d |-> [k \in Axes |-> 2 * P[1][k]]]

\* Mutation: the last segment drawn as a straight chord, which still meets
\* both of its control points.
LastCurveLinear(P, j) ==
    [a |-> [k \in Axes |-> 0],
     b |-> [k \in Axes |-> 0],
     c |-> [k \in Axes |-> 2 * (P[j + 1][k] - P[j][k])],
     d |-> [k \in Axes |-> 2 * P[j][k]]]

\* The last segment (the code's i == n - 1), lines 166-177.
LastCurve(P, j) ==
    [a |-> [k \in Axes |-> 0],
     b |-> [k \in Axes |-> P[j - 1][k] - 2 * P[j][k] + P[j + 1][k]],
     c |-> [k \in Axes |-> -P[j - 1][k] + P[j + 1][k]],
     d |-> [k \in Axes |-> 2 * P[j][k]]]

\* An interior segment, lines 192-209.
InnerCurve(P, j) ==
    [a |-> [k \in Axes |-> -P[j - 1][k] + 3 * P[j][k] - 3 * P[j + 1][k] + P[j + 2][k]],
     b |-> [k \in Axes |-> 2 * P[j - 1][k] - 5 * P[j][k] + 4 * P[j + 1][k] - P[j + 2][k]],
     c |-> [k \in Axes |-> -P[j - 1][k] + P[j + 1][k]],
     d |-> [k \in Axes |-> 2 * P[j][k]]]

\* The loop of lines 137-224: one curve per pair of adjacent control points.
BuildCurves(P) ==
    [j \in 1 .. Len(P) - 1 |->
        IF j = 1 THEN FirstCurve(P)
        ELSE IF j = Len(P) - 1 THEN LastCurve(P, j)
        ELSE InnerCurve(P, j)]

\* Twice HermiteCurve::getPoint(t), for t in {0, 1}.
Eval2(cv, t) == [k \in Axes |-> cv.a[k] * t * t * t + cv.b[k] * t * t + cv.c[k] * t + cv.d[k]]

\* Twice HermiteCurve::getTangentVector(t): the derivative of the cubic.
Tangent2(cv, t) == [k \in Axes |-> 3 * cv.a[k] * t * t + 2 * cv.b[k] * t + cv.c[k]]

\* Twice the second derivative of the cubic.
Accel2(cv, t) == [k \in Axes |-> 6 * cv.a[k] * t + 2 * cv.b[k]]

Twice(p) == [k \in Axes |-> 2 * p[k]]

\* equals(p0, p1), lines 457-470, with p1 given doubled.  On integer
\* coordinates two points differ by at least 1/2, far above the float
\* epsilon of line 459, so the tolerance test is exact equality.
Equals(p, q2) == Twice(p) = q2

\* checkConnection(), lines 430-455.
CheckConnection(P, cv) ==
    /\ Len(P) = Len(cv) + 1
    /\ \A j \in 1 .. Len(cv) : Equals(P[j], Eval2(cv[j], 0)) /\ Equals(P[j + 1], Eval2(cv[j], 1))
    /\ cv # <<>>

\* A segment that is a single point: the only one whose length is zero.
IsConstant(cv) == \A k \in Axes : cv.a[k] = 0 /\ cv.b[k] = 0 /\ cv.c[k] = 0

\* Mutation: the length loop stops one curve short.
LengthChoicesSkipLast(cv) ==
    {L \in [1 .. Len(cv) - 1 -> 0 .. MaxLen] :
        \A j \in 1 .. Len(cv) - 1 : L[j] = 0 <=> IsConstant(cv[j])}

\* The loop of lines 225-228 that fills length_list_ with each curve's
\* getLength(): the lengths the integrator may return, zero exactly for a
\* constant curve.
LengthChoices(cv) ==
    {L \in [1 .. Len(cv) -> 0 .. MaxLen] :
        \A j \in 1 .. Len(cv) : L[j] = 0 <=> IsConstant(cv[j])}

\* The running sum of a length list: Cum(L)[j] is the length of curves 1..j.
Cum(L) == LET f[j \in 0 .. Len(L)] == IF j = 0 THEN 0 ELSE f[j - 1] + L[j] IN f

-----------------------------------------------------------------------------
VARIABLES
    alive,           \* a CatmullRomSpline instance exists
    control_points,  \* control_points
    curves,          \* curves_
    length_list,     \* length_list_
    total_length,    \* total_length_
    ret              \* the outcome of the last operation called on the spline

vars == <<alive, control_points, curves, length_list, total_length, ret>>
spline == <<control_points, curves, length_list, total_length>>

NoRet == [op |-> "none", arg |-> 0, out |-> "ok"]

\* What the constructor reports when called with n control points.
ConstructRet(n, out) == [op |-> "construct", arg |-> n, out |-> out]

Outcomes == {"ok", "SemanticError", "ConnectivityError", "SimulationError", "undefined"}
Rets == [op : {"none", "construct", "point"}, arg : Int, out : Outcomes]

-----------------------------------------------------------------------------
(* Queries.                                                                *)

\* Mutation: the segment test of line 252 closed on the right.
CurveIndexAndSClosed(s) ==
    LET n == Len(curves)
        C == Cum(length_list)
        found == {j \in 1 .. n : C[j - 1] <= s /\ s <= C[j]}
    IN  IF s < 0 THEN [out |-> "ok", idx |-> 1, s |-> s]
        ELSE IF s >= total_length
             THEN IF n = 0 THEN [out |-> "undefined", idx |-> 0, s |-> 0]
                  ELSE [out |-> "ok", idx |-> n, s |-> s - (total_length - length_list[n])]
        ELSE IF found = {} THEN [out |-> "SimulationError", idx |-> 0, s |-> 0]
        ELSE LET j == Min(found) IN [out |-> "ok", idx |-> j, s |-> s - C[j - 1]]

\* getCurveIndexAndS(s), lines 239-257.  For s past the end of a spline
\* with no curves, curves_.size() - 1 wraps and curves_[...] is read out of
\* bounds: undefined behaviour.
CurveIndexAndS(s) ==
    LET n == Len(curves)
        C == Cum(length_list)
        found == {j \in 1 .. n : C[j - 1] <= s /\ s < C[j]}
    IN  IF s < 0 THEN [out |-> "ok", idx |-> 1, s |-> s]
        ELSE IF s >= total_length
             THEN IF n = 0 THEN [out |-> "undefined", idx |-> 0, s |-> 0]
                  ELSE [out |-> "ok", idx |-> n, s |-> s - (total_length - length_list[n])]
        ELSE IF found = {} THEN [out |-> "SimulationError", idx |-> 0, s |-> 0]
        ELSE LET j == Min(found) IN [out |-> "ok", idx |-> j, s |-> s - C[j - 1]]

\* Mutation: the loop adds curve_index's own length before returning.
SInSplineCurveOverCount(i, s) ==
    IF i \in 1 .. Len(curves)
    THEN [out |-> "ok", val |-> Cum(length_list)[i] + s]
    ELSE [out |-> "SemanticError", val |-> 0]

\* getSInSplineCurve(curve_index, s), lines 259-271.
SInSplineCurve(i, s) ==
    IF i \in 1 .. Len(curves)
    THEN [out |-> "ok", val |-> Cum(length_list)[i - 1] + s]
    ELSE [out |-> "SemanticError", val |-> 0]

\* getPoint(s), lines 386-390: resolve s, then evaluate curves_[index];
\* indexing the empty curves_ of a point or line spline is undefined.
PointOutcome(s) ==
    LET r == CurveIndexAndS(s)
    IN  IF r.out = "ok" /\ r.idx \notin 1 .. Len(curves)
        THEN [out |-> "undefined", idx |-> r.idx, s |-> r.s]
        ELSE r

-----------------------------------------------------------------------------
(* Operations.                                                             *)

Init ==
    /\ alive = FALSE
    /\ control_points = <<>>
    /\ curves = <<>>
    /\ length_list = <<>>
    /\ total_length = 0
    /\ ret = NoRet

\* The constructor, lines 121-237, with its trailing length table, total
\* length and checkConnection(), one action per branch on the number n of
\* control points.  An empty list throws a SemanticError (lines 125-129).
ConstructEmpty(n) ==
    /\ n = 0
    /\ ret' = ConstructRet(n, "SemanticError")
    /\ UNCHANGED <<alive, spline>>

\* A point or line spline (1 or 2 control points) builds no curve and never
\* assigns total_length_, which holds whatever it held.
ConstructDegenerate(n, P) ==
    /\ n \in {1, 2}
    /\ alive' = TRUE
    /\ control_points' = P
    /\ curves' = <<>>
    /\ length_list' = <<>>
    /\ total_length' \in SRange
    /\ ret' = ConstructRet(n, "ok")

\* Three or more control points: the curves of lines 136-224, their lengths
\* and total (lines 225-232), then checkConnection(), which throws.
ConstructCurves(n, P) ==
    /\ n >= 3
    /\ LET cv == BuildCurves(P) IN
       \E L \in LengthChoices(cv), total \in 0 .. MaxTotal :
         /\ total = Cum(L)[Len(L)]
         /\ IF CheckConnection(P, cv)
            THEN /\ alive' = TRUE
                 /\ control_points' = P
                 /\ curves' = cv
                 /\ length_list' = L
                 /\ total_length' = total
                 /\ ret' = ConstructRet(n, "ok")
            ELSE /\ ret' = ConstructRet(n, "ConnectivityError")
                 /\ UNCHANGED <<alive, spline>>

Construct ==
    /\ ~alive
    /\ \E n \in 0 .. MaxPoints : \E P \in [1 .. n -> Point] :
        \/ ConstructEmpty(n)
        \/ ConstructDegenerate(n, P)
        \/ ConstructCurves(n, P)

\* getPoint(s) (and getPose, getTangentVector, getNormalVector and
\* getSquaredDistanceIn2D/Vector, which resolve s the same way).
GetPoint ==
    /\ alive
    /\ \E s \in SRange : ret' = [op |-> "point", arg |-> s, out |-> PointOutcome(s).out]
    /\ UNCHANGED <<alive, spline>>

\* The caller drops the spline at the end of its planning cycle.
Release ==
    /\ alive
    /\ alive' = FALSE
    /\ control_points' = <<>>
    /\ curves' = <<>>
    /\ length_list' = <<>>
    /\ total_length' = 0
    /\ ret' = NoRet

Next == Construct \/ GetPoint \/ Release

Spec == Init /\ [][Next]_vars

-----------------------------------------------------------------------------
(* Properties.                                                             *)

\* Every variable holds a value of its type.
TypeOK ==
    /\ alive \in BOOLEAN
    /\ control_points \in Seq(Point)
    /\ curves \in Seq(Coeffs)
    /\ length_list \in [DOMAIN curves -> 0 .. MaxLen]
    /\ total_length \in Int
    /\ ret \in Rets

\* The constructor never throws from checkConnection(): for every list of
\* three or more control points, the coefficients of lines 136-224 put the
\* start of curve i on control point i and its end on control point i + 1.
NoConnectivityError == ret.out # "ConnectivityError"

\* Adjacent curves of a built spline meet with the same tangent (C1): the
\* end tangent of curve i, however it was derived (first, interior or last
\* formula), is the start tangent of curve i + 1.
TangentContinuity ==
    \A j \in 1 .. Len(curves) - 1 : Tangent2(curves[j], 1) = Tangent2(curves[j + 1], 0)

\* On a curve spline, every s in [0, total_length] resolves to a curve that
\* exists and a local s within that curve's length; for s < total_length
\* the curve has positive length and the local s is strictly inside it, so
\* zero-length curves (repeated control points) are never selected.
ResolveInRange ==
    alive /\ curves # <<>> =>
        \A s \in 0 .. total_length :
            LET r == CurveIndexAndS(s) IN
            /\ r.out = "ok"
            /\ r.idx \in 1 .. Len(curves)
            /\ 0 <= r.s /\ r.s <= length_list[r.idx]
            /\ s < total_length => r.s < length_list[r.idx]

\* On a curve spline, resolving any s (before the start, inside, or past
\* the end) never throws, and getSInSplineCurve maps the result back to s.
ResolveRoundTrip ==
    alive /\ curves # <<>> =>
        \A s \in SRange :
            LET r == CurveIndexAndS(s) IN
            /\ r.out = "ok"
            /\ SInSplineCurve(r.idx, r.s) = [out |-> "ok", val |-> s]

\* (spec 4.3) The end tangents are one-sided and give zero curvature at the
\* very ends: x'y'' - y'x'' vanishes at the start of the first curve and
\* at the end of the last.
Cross(u, v) == u["x"] * v["y"] - u["y"] * v["x"]
EndCurvatureZero ==
    curves # <<>> =>
        /\ Cross(Tangent2(curves[1], 0), Accel2(curves[1], 0)) = 0
        /\ Cross(Tangent2(curves[Len(curves)], 1), Accel2(curves[Len(curves)], 1)) = 0

\* (spec 8, 9) Queries on a constructed spline behave predictably: a point
\* query returns a value or throws, it never reads out of bounds.
QueryDefined == ret.out # "undefined"

=============================================================================
