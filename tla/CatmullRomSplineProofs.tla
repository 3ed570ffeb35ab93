----------------------- MODULE CatmullRomSplineProofs -----------------------
(***************************************************************************)
(* Proofs about CatmullRomSpline for every value of the constants: the    *)
(* coefficient formulas of the constructor put every curve's ends on its  *)
(* control points (so checkConnection never throws) and give adjacent     *)
(* curves equal tangents at their joint; hence the type invariant,        *)
(* NoConnectivityError and TangentContinuity hold in every reachable      *)
(* state.                                                                  *)
(***************************************************************************)
EXTENDS CatmullRomSpline, SequenceTheorems, TLAPS

USE SplineAssumption

-----------------------------------------------------------------------------
(* Lemmas about the coefficient formulas.                                  *)

\* Control-point sequences as the constructor receives them.
LEMMA PointsAreSeq ==
    ASSUME NEW n \in Nat, NEW P \in [1 .. n -> Point]
    PROVE  /\ P \in Seq(Point)
           /\ Len(P) = n
<1>1. P \in Seq(Point)
    BY SeqDef
<1>2. Len(P) = n
    BY <1>1, LenProperties
<1>. QED  BY <1>1, <1>2

\* Which formula builds curve j.
LEMMA CurveIs ==
    ASSUME NEW n \in Nat, n >= 3, NEW P \in [1 .. n -> Point], NEW j \in 1 .. n - 1
    PROVE  BuildCurves(P)[j] = IF j = 1 THEN FirstCurve(P)
                               ELSE IF j = n - 1 THEN LastCurve(P, j)
                               ELSE InnerCurve(P, j)
<1>1. Len(P) = n
    BY PointsAreSeq
<1>. QED  BY <1>1 DEF BuildCurves

\* The value and the tangent of a cubic at the ends of its parameter range,
\* on one axis.
LEMMA EndValues ==
    ASSUME NEW cv \in Coeffs, NEW k \in Axes
    PROVE  /\ Eval2(cv, 0)[k] = cv.d[k]
           /\ Eval2(cv, 1)[k] = cv.a[k] + cv.b[k] + cv.c[k] + cv.d[k]
           /\ Tangent2(cv, 0)[k] = cv.c[k]
           /\ Tangent2(cv, 1)[k] = 3 * cv.a[k] + 2 * cv.b[k] + cv.c[k]
<1>1. cv.a[k] \in Int /\ cv.b[k] \in Int /\ cv.c[k] \in Int /\ cv.d[k] \in Int
    BY DEF Coeffs, Vec
<1>. QED  BY <1>1 DEF Eval2, Tangent2

\* Two points are equal when they agree on every axis.
LEMMA AxisEq ==
    ASSUME NEW cv \in Coeffs, NEW t \in Int, NEW p \in [Axes -> Int],
           \A k \in Axes : Eval2(cv, t)[k] = Twice(p)[k]
    PROVE  Eval2(cv, t) = Twice(p)
BY Zenon DEF Eval2, Twice

\* Two tangents are equal when they agree on every axis.
LEMMA TangentEq ==
    ASSUME NEW cv \in Coeffs, NEW nx \in Coeffs, NEW t \in Int, NEW u \in Int,
           \A k \in Axes : Tangent2(cv, t)[k] = Tangent2(nx, u)[k]
    PROVE  Tangent2(cv, t) = Tangent2(nx, u)
BY Zenon DEF Tangent2

\* The coordinates of the control points are integers.
LEMMA PointInt ==
    ASSUME NEW n \in Nat, NEW P \in [1 .. n -> Point], NEW i \in 1 .. n, NEW k \in Axes
    PROVE  P[i][k] \in Int /\ P[i] \in [Axes -> Int]
BY DEF Point

\* The integer identities behind the coefficient formulas: the value of
\* each segment at t = 1 is its end point, and its tangent at t = 1 is the
\* next segment's tangent at t = 0 (twice, as everything is doubled).
LEMMA IntCombos ==
    ASSUME NEW p0 \in Int, NEW p1 \in Int, NEW p2 \in Int, NEW p3 \in Int
    PROVE  /\ -p0 + 3 * p1 - 3 * p2 + p3 \in Int
           /\ 2 * p0 - 5 * p1 + 4 * p2 - p3 \in Int
           /\ -p0 + p2 \in Int
           /\ 2 * p1 \in Int
OBVIOUS

LEMMA FirstIdentities ==
    ASSUME NEW p0 \in Int, NEW p1 \in Int, NEW p2 \in Int
    PROVE  /\ 0 + (p0 - 2 * p1 + p2) + (-3 * p0 + 4 * p1 - p2) + 2 * p0 = 2 * p1
           /\ 3 * 0 + 2 * (p0 - 2 * p1 + p2) + (-3 * p0 + 4 * p1 - p2) = -p0 + p2
OBVIOUS

LEMMA LastIdentities ==
    ASSUME NEW p0 \in Int, NEW p1 \in Int, NEW p2 \in Int
    PROVE  0 + (p0 - 2 * p1 + p2) + (-p0 + p2) + 2 * p1 = 2 * p2
OBVIOUS

LEMMA InnerIdentities ==
    ASSUME NEW p0 \in Int, NEW p1 \in Int, NEW p2 \in Int, NEW p3 \in Int
    PROVE  /\ (-p0 + 3 * p1 - 3 * p2 + p3) + (2 * p0 - 5 * p1 + 4 * p2 - p3)
                 + (-p0 + p2) + 2 * p1 = 2 * p2
           /\ 3 * (-p0 + 3 * p1 - 3 * p2 + p3) + 2 * (2 * p0 - 5 * p1 + 4 * p2 - p3)
                 + (-p0 + p2) = -p1 + p3
OBVIOUS

\* The integer combinations of the first and last segments' coefficients.
LEMMA EndCombos ==
    ASSUME NEW p0 \in Int, NEW p1 \in Int, NEW p2 \in Int
    PROVE  /\ p0 - 2 * p1 + p2 \in Int
           /\ -3 * p0 + 4 * p1 - p2 \in Int
           /\ -p0 + p2 \in Int
           /\ 2 * p0 \in Int
OBVIOUS

\* Segment 0's coefficients (lines 140-151), axis by axis.
LEMMA FirstCoeffs ==
    ASSUME NEW n \in Nat, n >= 3, NEW P \in [1 .. n -> Point]
    PROVE  /\ FirstCurve(P) \in Coeffs
           /\ \A k \in Axes :
                /\ FirstCurve(P).a[k] = 0
                /\ FirstCurve(P).b[k] = P[1][k] - 2 * P[2][k] + P[3][k]
                /\ FirstCurve(P).c[k] = -3 * P[1][k] + 4 * P[2][k] - P[3][k]
                /\ FirstCurve(P).d[k] = 2 * P[1][k]
<1>1. \A i \in 1 .. n : P[i] \in [Axes -> Int]
    BY DEF Point
<1>2. FirstCurve(P) \in Coeffs
    <2>1. ASSUME NEW k \in Axes
          PROVE  /\ P[1][k] - 2 * P[2][k] + P[3][k] \in Int
                 /\ -3 * P[1][k] + 4 * P[2][k] - P[3][k] \in Int
                 /\ 2 * P[1][k] \in Int
        <3>1. P[1][k] \in Int /\ P[2][k] \in Int /\ P[3][k] \in Int
            BY <1>1
        <3>. QED  BY <3>1, EndCombos, Zenon
    <2>2. [k \in Axes |-> 0] \in Vec
        BY DEF Vec
    <2>3. [k \in Axes |-> P[1][k] - 2 * P[2][k] + P[3][k]] \in Vec
        BY <2>1 DEF Vec
    <2>4. [k \in Axes |-> -3 * P[1][k] + 4 * P[2][k] - P[3][k]] \in Vec
        BY <2>1 DEF Vec
    <2>5. [k \in Axes |-> 2 * P[1][k]] \in Vec
        BY <2>1 DEF Vec
    <2>. QED  BY <2>2, <2>3, <2>4, <2>5 DEF FirstCurve, Coeffs
<1>. QED  BY <1>2 DEF FirstCurve

\* The last segment's coefficients (lines 166-177), axis by axis.
LEMMA LastCoeffs ==
    ASSUME NEW n \in Nat, NEW P \in [1 .. n -> Point], NEW j \in 2 .. n - 1
    PROVE  /\ LastCurve(P, j) \in Coeffs
           /\ \A k \in Axes :
                /\ LastCurve(P, j).a[k] = 0
                /\ LastCurve(P, j).b[k] = P[j - 1][k] - 2 * P[j][k] + P[j + 1][k]
                /\ LastCurve(P, j).c[k] = -P[j - 1][k] + P[j + 1][k]
                /\ LastCurve(P, j).d[k] = 2 * P[j][k]
<1>1. \A i \in 1 .. n : P[i] \in [Axes -> Int]
    BY DEF Point
<1>2. LastCurve(P, j) \in Coeffs
    <2>1. ASSUME NEW k \in Axes
          PROVE  /\ P[j - 1][k] - 2 * P[j][k] + P[j + 1][k] \in Int
                 /\ -P[j - 1][k] + P[j + 1][k] \in Int
                 /\ 2 * P[j][k] \in Int
        <3>1. P[j - 1][k] \in Int /\ P[j][k] \in Int /\ P[j + 1][k] \in Int
            BY <1>1
        <3>2. 2 * P[j][k] \in Int
            BY <3>1, EndCombos, Zenon
        <3>. QED  BY <3>1, <3>2, EndCombos, Zenon
    <2>2. [k \in Axes |-> 0] \in Vec
        BY DEF Vec
    <2>3. [k \in Axes |-> P[j - 1][k] - 2 * P[j][k] + P[j + 1][k]] \in Vec
        BY <2>1 DEF Vec
    <2>4. [k \in Axes |-> -P[j - 1][k] + P[j + 1][k]] \in Vec
        BY <2>1 DEF Vec
    <2>5. [k \in Axes |-> 2 * P[j][k]] \in Vec
        BY <2>1 DEF Vec
    <2>. QED  BY <2>2, <2>3, <2>4, <2>5 DEF LastCurve, Coeffs
<1>. QED  BY <1>2 DEF LastCurve

\* An interior segment's coefficients (lines 192-209), axis by axis.
LEMMA InnerCoeffs ==
    ASSUME NEW n \in Nat, NEW P \in [1 .. n -> Point], NEW j \in 2 .. n - 2
    PROVE  /\ InnerCurve(P, j) \in Coeffs
           /\ \A k \in Axes :
                /\ InnerCurve(P, j).a[k] = -P[j - 1][k] + 3 * P[j][k] - 3 * P[j + 1][k] + P[j + 2][k]
                /\ InnerCurve(P, j).b[k] = 2 * P[j - 1][k] - 5 * P[j][k] + 4 * P[j + 1][k] - P[j + 2][k]
                /\ InnerCurve(P, j).c[k] = -P[j - 1][k] + P[j + 1][k]
                /\ InnerCurve(P, j).d[k] = 2 * P[j][k]
<1>1. \A i \in 1 .. n : P[i] \in [Axes -> Int]
    BY DEF Point
<1>2. InnerCurve(P, j) \in Coeffs
    <2>1. /\ P[j - 1] \in [Axes -> Int] /\ P[j] \in [Axes -> Int]
          /\ P[j + 1] \in [Axes -> Int] /\ P[j + 2] \in [Axes -> Int]
        BY <1>1
    <2>2. ASSUME NEW k \in Axes
          PROVE  /\ -P[j - 1][k] + 3 * P[j][k] - 3 * P[j + 1][k] + P[j + 2][k] \in Int
                 /\ 2 * P[j - 1][k] - 5 * P[j][k] + 4 * P[j + 1][k] - P[j + 2][k] \in Int
                 /\ -P[j - 1][k] + P[j + 1][k] \in Int
                 /\ 2 * P[j][k] \in Int
        <3>1. P[j - 1][k] \in Int /\ P[j][k] \in Int /\ P[j + 1][k] \in Int /\ P[j + 2][k] \in Int
            BY <2>1
        <3>. QED  BY <3>1, IntCombos
    <2>3. [k \in Axes |-> -P[j - 1][k] + 3 * P[j][k] - 3 * P[j + 1][k] + P[j + 2][k]] \in Vec
        BY <2>2 DEF Vec
    <2>4. [k \in Axes |-> 2 * P[j - 1][k] - 5 * P[j][k] + 4 * P[j + 1][k] - P[j + 2][k]] \in Vec
        BY <2>2 DEF Vec
    <2>5. [k \in Axes |-> -P[j - 1][k] + P[j + 1][k]] \in Vec
        BY <2>2 DEF Vec
    <2>6. [k \in Axes |-> 2 * P[j][k]] \in Vec
        BY <2>2 DEF Vec
    <2>. QED  BY <2>3, <2>4, <2>5, <2>6 DEF InnerCurve, Coeffs
<1>. QED  BY <1>2 DEF InnerCurve

\* Every curve is a coefficient record.
LEMMA CurveType ==
    ASSUME NEW n \in Nat, n >= 3, NEW P \in [1 .. n -> Point], NEW j \in 1 .. n - 1
    PROVE  BuildCurves(P)[j] \in Coeffs
BY CurveIs, FirstCoeffs, LastCoeffs, InnerCoeffs

\* Every curve starts on control point j and ends on control point j + 1.
LEMMA CurveEnds ==
    ASSUME NEW n \in Nat, n >= 3, NEW P \in [1 .. n -> Point], NEW j \in 1 .. n - 1
    PROVE  /\ Eval2(BuildCurves(P)[j], 0) = Twice(P[j])
           /\ Eval2(BuildCurves(P)[j], 1) = Twice(P[j + 1])
<1>. DEFINE cv == BuildCurves(P)[j]
<1>1. \A k \in Axes : Eval2(cv, 0)[k] = Twice(P[j])[k] /\ Eval2(cv, 1)[k] = Twice(P[j + 1])[k]
    <2>. SUFFICES ASSUME NEW k \in Axes
                  PROVE  Eval2(cv, 0)[k] = Twice(P[j])[k] /\ Eval2(cv, 1)[k] = Twice(P[j + 1])[k]
        OBVIOUS
    <2>1. /\ Eval2(cv, 0)[k] = cv.d[k]
          /\ Eval2(cv, 1)[k] = cv.a[k] + cv.b[k] + cv.c[k] + cv.d[k]
        BY CurveType, EndValues
    <2>2. Twice(P[j])[k] = 2 * P[j][k] /\ Twice(P[j + 1])[k] = 2 * P[j + 1][k]
        BY DEF Twice
    <2>3. /\ j - 1 \in 1 .. n => P[j - 1][k] \in Int
          /\ P[j][k] \in Int /\ P[j + 1][k] \in Int
          /\ j + 2 \in 1 .. n => P[j + 2][k] \in Int
          /\ P[1][k] \in Int /\ P[2][k] \in Int /\ P[3][k] \in Int
        <3>1. \A i \in 1 .. n : P[i][k] \in Int
            BY PointInt
        <3>2. j \in 1 .. n /\ j + 1 \in 1 .. n /\ 1 \in 1 .. n /\ 2 \in 1 .. n /\ 3 \in 1 .. n
            OBVIOUS
        <3>. QED  BY <3>1, <3>2
    <2>4. CASE j = 1
        <3>1. cv = FirstCurve(P)
            BY <2>4, CurveIs
        <3>2. cv.a[k] = 0 /\ cv.b[k] = P[1][k] - 2 * P[2][k] + P[3][k]
                  /\ cv.c[k] = -3 * P[1][k] + 4 * P[2][k] - P[3][k] /\ cv.d[k] = 2 * P[1][k]
            BY <2>4, <3>1, FirstCoeffs
        <3>3. P[1][k] \in Int /\ P[2][k] \in Int /\ P[3][k] \in Int
            BY <2>3
        <3>4. 0 + (P[1][k] - 2 * P[2][k] + P[3][k]) + (-3 * P[1][k] + 4 * P[2][k] - P[3][k])
                + 2 * P[1][k] = 2 * P[2][k]
            BY <3>3, FirstIdentities, Zenon
        <3>. QED  BY <2>1, <2>2, <2>4, <3>2, <3>4
    <2>5. CASE j # 1 /\ j = n - 1
        <3>1. cv = LastCurve(P, j)
            BY <2>5, CurveIs
        <3>2. cv.a[k] = 0 /\ cv.b[k] = P[j - 1][k] - 2 * P[j][k] + P[j + 1][k]
                  /\ cv.c[k] = -P[j - 1][k] + P[j + 1][k] /\ cv.d[k] = 2 * P[j][k]
            <4>1. j \in 2 .. n - 1
                BY <2>5
            <4>2. /\ LastCurve(P, j).a[k] = 0
                  /\ LastCurve(P, j).b[k] = P[j - 1][k] - 2 * P[j][k] + P[j + 1][k]
                  /\ LastCurve(P, j).c[k] = -P[j - 1][k] + P[j + 1][k]
                  /\ LastCurve(P, j).d[k] = 2 * P[j][k]
                BY <4>1, LastCoeffs, Zenon
            <4>. QED  BY <3>1, <4>2, Zenon
        <3>3. P[j - 1][k] \in Int
            BY <2>3, <2>5
        <3>4. 0 + (P[j - 1][k] - 2 * P[j][k] + P[j + 1][k]) + (-P[j - 1][k] + P[j + 1][k])
                + 2 * P[j][k] = 2 * P[j + 1][k]
            BY <2>3, <3>3, LastIdentities, Zenon
        <3>. QED  BY <2>1, <2>2, <3>2, <3>4
    <2>6. CASE j # 1 /\ j # n - 1
        <3>1. cv = InnerCurve(P, j)
            BY <2>6, CurveIs
        <3>0. j \in 2 .. n - 2
            BY <2>6
        <3>2. cv.a[k] = -P[j - 1][k] + 3 * P[j][k] - 3 * P[j + 1][k] + P[j + 2][k]
                  /\ cv.b[k] = 2 * P[j - 1][k] - 5 * P[j][k] + 4 * P[j + 1][k] - P[j + 2][k]
                  /\ cv.c[k] = -P[j - 1][k] + P[j + 1][k] /\ cv.d[k] = 2 * P[j][k]
            <4>1. /\ InnerCurve(P, j).a[k] = -P[j - 1][k] + 3 * P[j][k] - 3 * P[j + 1][k] + P[j + 2][k]
                  /\ InnerCurve(P, j).b[k] = 2 * P[j - 1][k] - 5 * P[j][k] + 4 * P[j + 1][k] - P[j + 2][k]
                  /\ InnerCurve(P, j).c[k] = -P[j - 1][k] + P[j + 1][k]
                  /\ InnerCurve(P, j).d[k] = 2 * P[j][k]
                BY <3>0, InnerCoeffs, Zenon
            <4>. QED  BY <3>1, <4>1, Zenon
        <3>3. P[j - 1][k] \in Int /\ P[j + 2][k] \in Int
            BY <2>3, <2>6
        <3>4. (-P[j - 1][k] + 3 * P[j][k] - 3 * P[j + 1][k] + P[j + 2][k])
                + (2 * P[j - 1][k] - 5 * P[j][k] + 4 * P[j + 1][k] - P[j + 2][k])
                + (-P[j - 1][k] + P[j + 1][k]) + 2 * P[j][k] = 2 * P[j + 1][k]
            <4>. DEFINE q0 == P[j - 1][k]  q1 == P[j][k]  q2 == P[j + 1][k]  q3 == P[j + 2][k]
            <4>1. q0 \in Int /\ q1 \in Int /\ q2 \in Int /\ q3 \in Int
                BY <2>3, <3>3
            <4>. HIDE DEF q0, q1, q2, q3
            <4>2. (-q0 + 3 * q1 - 3 * q2 + q3) + (2 * q0 - 5 * q1 + 4 * q2 - q3)
                    + (-q0 + q2) + 2 * q1 = 2 * q2
                BY <4>1, InnerIdentities
            <4>. QED  BY <4>2 DEF q0, q1, q2, q3
        <3>. QED  BY <2>1, <2>2, <3>2, <3>4
    <2>. QED  BY <2>4, <2>5, <2>6
<1>2. P[j] \in [Axes -> Int] /\ P[j + 1] \in [Axes -> Int]
    BY PointInt
<1>3. cv \in Coeffs
    BY CurveType
<1>4. Eval2(cv, 0) = Twice(P[j])
    BY <1>1, <1>2, <1>3, AxisEq
<1>5. Eval2(cv, 1) = Twice(P[j + 1])
    BY <1>1, <1>2, <1>3, AxisEq
<1>. QED  BY <1>4, <1>5

\* The curves are a sequence of coefficient records, one per segment.
LEMMA CurvesType ==
    ASSUME NEW n \in Nat, n >= 3, NEW P \in [1 .. n -> Point]
    PROVE  /\ BuildCurves(P) \in Seq(Coeffs)
           /\ Len(BuildCurves(P)) = n - 1
<1>1. DOMAIN BuildCurves(P) = 1 .. n - 1
    BY PointsAreSeq DEF BuildCurves
<1>2. BuildCurves(P) \in [1 .. n - 1 -> Coeffs]
    BY <1>1, CurveType DEF BuildCurves
<1>3. BuildCurves(P) \in Seq(Coeffs)
    BY <1>2, SeqDef
<1>4. Len(BuildCurves(P)) = n - 1
    BY <1>1, <1>3, LenProperties
<1>. QED  BY <1>3, <1>4

\* The coefficients pass checkConnection().
LEMMA Connected ==
    ASSUME NEW n \in Nat, n >= 3, NEW P \in [1 .. n -> Point]
    PROVE  CheckConnection(P, BuildCurves(P))
<1>1. Len(BuildCurves(P)) = n - 1 /\ Len(P) = n
    BY CurvesType, PointsAreSeq
<1>2. BuildCurves(P) # << >>
    BY <1>1
<1>3. \A j \in 1 .. n - 1 : /\ Equals(P[j], Eval2(BuildCurves(P)[j], 0))
                           /\ Equals(P[j + 1], Eval2(BuildCurves(P)[j], 1))
    BY CurveEnds DEF Equals
<1>. QED  BY <1>1, <1>2, <1>3 DEF CheckConnection

\* The end tangent of curve j is the start tangent of curve j + 1.
LEMMA Smooth ==
    ASSUME NEW n \in Nat, n >= 3, NEW P \in [1 .. n -> Point], NEW j \in 1 .. n - 2
    PROVE  Tangent2(BuildCurves(P)[j], 1) = Tangent2(BuildCurves(P)[j + 1], 0)
<1>. DEFINE cv == BuildCurves(P)[j]
            nx == BuildCurves(P)[j + 1]
<1>1. \A k \in Axes : Tangent2(cv, 1)[k] = Tangent2(nx, 0)[k]
    <2>. SUFFICES ASSUME NEW k \in Axes PROVE Tangent2(cv, 1)[k] = Tangent2(nx, 0)[k]
        OBVIOUS
    <2>1. /\ Tangent2(cv, 1)[k] = 3 * cv.a[k] + 2 * cv.b[k] + cv.c[k]
          /\ Tangent2(nx, 0)[k] = nx.c[k]
        BY CurveType, EndValues
    <2>2. /\ j - 1 \in 1 .. n => P[j - 1][k] \in Int
          /\ P[j][k] \in Int /\ P[j + 1][k] \in Int /\ P[j + 2][k] \in Int
          /\ P[1][k] \in Int /\ P[2][k] \in Int /\ P[3][k] \in Int
        <3>1. \A i \in 1 .. n : P[i][k] \in Int
            BY PointInt
        <3>2. /\ j - 1 \in 1 .. n => j - 1 \in 1 .. n
              /\ j \in 1 .. n /\ j + 1 \in 1 .. n /\ j + 2 \in 1 .. n
              /\ 1 \in 1 .. n /\ 2 \in 1 .. n /\ 3 \in 1 .. n
            OBVIOUS
        <3>. QED  BY <3>1, <3>2
    <2>3. nx.c[k] = -P[j][k] + P[j + 2][k]
        <3>1. CASE j + 1 = n - 1
            <4>1. nx = LastCurve(P, j + 1)
                BY <3>1, CurveIs
            <4>2. j + 1 \in 2 .. n - 1
                BY <3>1
            <4>3. LastCurve(P, j + 1).c[k] = -P[j][k] + P[j + 2][k]
                BY <4>2, LastCoeffs
            <4>. QED  BY <4>1, <4>3
        <3>2. CASE j + 1 # n - 1
            <4>1. nx = InnerCurve(P, j + 1)
                BY <3>2, CurveIs
            <4>2. j + 1 \in 2 .. n - 2
                BY <3>2
            <4>3. InnerCurve(P, j + 1).c[k] = -P[(j + 1) - 1][k] + P[(j + 1) + 1][k]
                BY <4>2, InnerCoeffs, Zenon
            <4>4. (j + 1) - 1 = j /\ (j + 1) + 1 = j + 2
                OBVIOUS
            <4>. QED  BY <4>1, <4>3, <4>4
        <3>. QED  BY <3>1, <3>2
    <2>4. CASE j = 1
        <3>1. cv.a[k] = 0 /\ cv.b[k] = P[1][k] - 2 * P[2][k] + P[3][k]
                  /\ cv.c[k] = -3 * P[1][k] + 4 * P[2][k] - P[3][k]
            <4>1. cv = FirstCurve(P)
                BY <2>4, CurveIs
            <4>2. FirstCurve(P).a[k] = 0 /\ FirstCurve(P).b[k] = P[1][k] - 2 * P[2][k] + P[3][k]
                  /\ FirstCurve(P).c[k] = -3 * P[1][k] + 4 * P[2][k] - P[3][k]
                BY FirstCoeffs, Zenon
            <4>. QED  BY <4>1, <4>2, Zenon
        <3>2. 3 * 0 + 2 * (P[1][k] - 2 * P[2][k] + P[3][k]) + (-3 * P[1][k] + 4 * P[2][k] - P[3][k])
                = -P[1][k] + P[3][k]
            BY <2>2, FirstIdentities, Zenon
        <3>. QED  BY <2>1, <2>3, <2>4, <3>1, <3>2
    <2>5. CASE j # 1
        <3>0. cv = InnerCurve(P, j) /\ j \in 2 .. n - 2
            BY <2>5, CurveIs
        <3>1. cv.a[k] = -P[j - 1][k] + 3 * P[j][k] - 3 * P[j + 1][k] + P[j + 2][k]
                  /\ cv.b[k] = 2 * P[j - 1][k] - 5 * P[j][k] + 4 * P[j + 1][k] - P[j + 2][k]
                  /\ cv.c[k] = -P[j - 1][k] + P[j + 1][k]
            <4>1. \A kk \in Axes :
                    /\ InnerCurve(P, j).a[kk] = -P[j - 1][kk] + 3 * P[j][kk] - 3 * P[j + 1][kk] + P[j + 2][kk]
                    /\ InnerCurve(P, j).b[kk] = 2 * P[j - 1][kk] - 5 * P[j][kk] + 4 * P[j + 1][kk] - P[j + 2][kk]
                    /\ InnerCurve(P, j).c[kk] = -P[j - 1][kk] + P[j + 1][kk]
                BY <3>0, InnerCoeffs
            <4>. QED  BY <3>0, <4>1
        <3>2. P[j - 1][k] \in Int
            BY <2>2, <2>5
        <3>3. 3 * (-P[j - 1][k] + 3 * P[j][k] - 3 * P[j + 1][k] + P[j + 2][k])
                + 2 * (2 * P[j - 1][k] - 5 * P[j][k] + 4 * P[j + 1][k] - P[j + 2][k])
                + (-P[j - 1][k] + P[j + 1][k]) = -P[j][k] + P[j + 2][k]
            <4>. DEFINE q0 == P[j - 1][k]  q1 == P[j][k]  q2 == P[j + 1][k]  q3 == P[j + 2][k]
            <4>1. q0 \in Int /\ q1 \in Int /\ q2 \in Int /\ q3 \in Int
                BY <2>2, <3>2
            <4>. HIDE DEF q0, q1, q2, q3
            <4>2. 3 * (-q0 + 3 * q1 - 3 * q2 + q3) + 2 * (2 * q0 - 5 * q1 + 4 * q2 - q3)
                    + (-q0 + q2) = -q1 + q3
                BY <4>1, InnerIdentities
            <4>. QED  BY <4>2 DEF q0, q1, q2, q3
        <3>. QED  BY <2>1, <2>3, <3>1, <3>3
    <2>. QED  BY <2>4, <2>5
<1>2. cv \in Coeffs /\ nx \in Coeffs
    BY CurveType
<1>. QED  BY <1>1, <1>2, TangentEq

-----------------------------------------------------------------------------
(* The invariant.                                                          *)

IInv == TypeOK /\ NoConnectivityError /\ TangentContinuity

\* The state left by Init and by the destructor is well typed.
LEMMA EmptyTyped ==
    /\ <<>> \in Seq(Point)
    /\ <<>> \in Seq(Coeffs)
    /\ <<>> \in [DOMAIN <<>> -> 0 .. MaxLen]
    /\ Len(<<>>) = 0
    /\ NoRet \in Rets
    /\ NoRet.out # "ConnectivityError"
<1>1. <<>> \in Seq(Point) /\ <<>> \in Seq(Coeffs) /\ Len(<<>>) = 0
    BY EmptySeq
<1>2. <<>> \in Seq(0 .. MaxLen) /\ Len(<<>>) = 0
    BY EmptySeq
<1>3. <<>> \in [DOMAIN <<>> -> 0 .. MaxLen]
    BY <1>2, LenProperties
<1>4. NoRet \in Rets /\ NoRet.out # "ConnectivityError"
    BY DEF NoRet, Rets, Outcomes
<1>. QED  BY <1>1, <1>2, <1>3, <1>4

LEMMA InitIInv == Init => IInv
<1>. SUFFICES ASSUME Init PROVE IInv
    OBVIOUS
<1>1. TypeOK
    <2>1. alive \in BOOLEAN /\ total_length \in Int /\ ret \in Rets
        <3>1. alive \in BOOLEAN
            BY DEF Init
        <3>2. total_length \in Int
            BY DEF Init
        <3>3. ret \in Rets
            BY DEF Init, NoRet, Rets, Outcomes
        <3>. QED  BY <3>1, <3>2, <3>3
    <2>2. control_points \in Seq(Point) /\ curves \in Seq(Coeffs)
        BY Zenon, EmptyTyped DEF Init
    <2>3. length_list \in [DOMAIN curves -> 0 .. MaxLen]
        BY Zenon, EmptyTyped DEF Init
    <2>. QED  BY <2>1, <2>2, <2>3 DEF TypeOK
<1>2. NoConnectivityError
    BY EmptyTyped DEF Init, NoConnectivityError
<1>3. TangentContinuity
    BY EmptyTyped DEF Init, TangentContinuity
<1>. QED  BY <1>1, <1>2, <1>3 DEF IInv

LEMMA NextIInv == IInv /\ [Next]_vars => IInv'
<1>. SUFFICES ASSUME IInv, [Next]_vars PROVE IInv'
    OBVIOUS
<1>. USE DEF IInv, TypeOK
<1>1. CASE Construct
    <2>. PICK n \in 0 .. MaxPoints : \E P \in [1 .. n -> Point] :
            ConstructEmpty(n) \/ ConstructDegenerate(n, P) \/ ConstructCurves(n, P)
        BY <1>1 DEF Construct
    <2>. PICK P \in [1 .. n -> Point] :
            ConstructEmpty(n) \/ ConstructDegenerate(n, P) \/ ConstructCurves(n, P)
        OBVIOUS
    <2>1. CASE ConstructEmpty(n)
        BY <2>1 DEF ConstructEmpty, spline, NoConnectivityError, TangentContinuity,
                    NoRet, ConstructRet, Rets, Outcomes
    <2>2. CASE ConstructDegenerate(n, P)
        <3>1. P \in Seq(Point)
            BY PointsAreSeq
        <3>2. total_length' \in Int
            BY <2>2 DEF ConstructDegenerate, SRange
        <3>. QED  BY <2>2, <3>1, <3>2
                  DEF ConstructDegenerate, NoConnectivityError, TangentContinuity,
                      NoRet, ConstructRet, Rets, Outcomes
    <2>3. CASE ConstructCurves(n, P)
        <3>. DEFINE cv == BuildCurves(P)
        <3>0. n >= 3
            BY <2>3 DEF ConstructCurves
        <3>. PICK L \in LengthChoices(cv), total \in 0 .. MaxTotal :
                /\ total = Cum(L)[Len(L)]
                /\ IF CheckConnection(P, cv)
                   THEN /\ alive' = TRUE
                        /\ control_points' = P
                        /\ curves' = cv
                        /\ length_list' = L
                        /\ total_length' = total
                        /\ ret' = ConstructRet(n, "ok")
                   ELSE /\ ret' = ConstructRet(n, "ConnectivityError")
                        /\ UNCHANGED <<alive, spline>>
            BY <2>3 DEF ConstructCurves
        <3>1. CheckConnection(P, cv)
            BY <3>0, Connected
        <3>2. /\ alive' = TRUE
              /\ control_points' = P
              /\ curves' = cv
              /\ length_list' = L
              /\ total_length' = total
              /\ ret' = ConstructRet(n, "ok")
            BY <3>1
        <3>3. Len(cv) = n - 1
            BY <3>0, PointsAreSeq DEF BuildCurves
        <3>4. TypeOK'
            <4>1. P \in Seq(Point)
                BY PointsAreSeq
            <4>2. cv \in Seq(Coeffs)
                BY <3>0, CurvesType
            <4>3. DOMAIN cv = 1 .. n - 1
                BY <3>0, PointsAreSeq DEF BuildCurves
            <4>4. L \in [DOMAIN cv -> 0 .. MaxLen]
                BY <3>3, <4>3 DEF LengthChoices
            <4>5. total \in Int
                BY DEF MaxTotal
            <4>6. ret' \in Rets
                BY <3>2 DEF NoRet, ConstructRet, Rets, Outcomes
            <4>. QED  BY <3>2, <4>1, <4>2, <4>4, <4>5, <4>6
        <3>5. NoConnectivityError'
            BY <3>2 DEF NoConnectivityError, ConstructRet
        <3>6. TangentContinuity'
            BY <3>0, <3>2, <3>3, Smooth, SMTT(30) DEF TangentContinuity
        <3>. QED  BY <3>4, <3>5, <3>6
    <2>. QED  BY <2>1, <2>2, <2>3
<1>2. CASE GetPoint
    <2>. PICK s \in SRange : ret' = [op |-> "point", arg |-> s, out |-> PointOutcome(s).out]
        BY <1>2 DEF GetPoint
    <2>1. CurveIndexAndS(s).out \in {"ok", "SimulationError", "undefined"}
        BY DEF CurveIndexAndS
    <2>2. PointOutcome(s).out \in {"ok", "SimulationError", "undefined"}
        BY <2>1 DEF PointOutcome
    <2>3. ret' \in Rets /\ ret'.out # "ConnectivityError"
        BY <2>2 DEF Rets, Outcomes, SRange
    <2>. QED  BY <1>2, <2>3 DEF GetPoint, spline, NoConnectivityError, TangentContinuity
<1>3. CASE Release
    <2>1. TypeOK'
        <3>1. alive' \in BOOLEAN /\ total_length' \in Int /\ ret' \in Rets
            <4>1. alive' \in BOOLEAN
                BY <1>3 DEF Release
            <4>2. total_length' \in Int
                BY <1>3 DEF Release
            <4>3. ret' \in Rets
                BY <1>3 DEF Release, NoRet, Rets, Outcomes
            <4>. QED  BY <4>1, <4>2, <4>3
        <3>2. control_points' \in Seq(Point) /\ curves' \in Seq(Coeffs)
            BY Zenon, <1>3, EmptyTyped DEF Release
        <3>3. length_list' \in [DOMAIN curves' -> 0 .. MaxLen]
            BY Zenon, <1>3, EmptyTyped DEF Release
        <3>. QED  BY <3>1, <3>2, <3>3 DEF TypeOK
    <2>2. NoConnectivityError'
        BY <1>3, EmptyTyped DEF Release, NoConnectivityError
    <2>3. TangentContinuity'
        BY <1>3, EmptyTyped DEF Release, TangentContinuity
    <2>. QED  BY <2>1, <2>2, <2>3
<1>4. CASE UNCHANGED vars
    BY <1>4 DEF vars, NoConnectivityError, TangentContinuity
<1>. QED  BY <1>1, <1>2, <1>3, <1>4 DEF Next

-----------------------------------------------------------------------------
(* Theorems.                                                               *)

\* Type correctness of the spline's state.
THEOREM TypeCorrect == Spec => []TypeOK
<1>1. IInv => TypeOK
    BY DEF IInv
<1>. QED  BY <1>1, InitIInv, NextIInv, PTL DEF Spec

\* The constructor never throws a connectivity error (checkConnection,
\* lines 430-455, always succeeds on the curves of lines 136-224).
THEOREM ConnectivityHolds == Spec => []NoConnectivityError
<1>1. IInv => NoConnectivityError
    BY DEF IInv
<1>. QED  BY <1>1, InitIInv, NextIInv, PTL DEF Spec

\* Every built spline is C1: adjacent curves share the tangent at the joint.
THEOREM SplineIsSmooth == Spec => []TangentContinuity
<1>1. IInv => TangentContinuity
    BY DEF IInv
<1>. QED  BY <1>1, InitIInv, NextIInv, PTL DEF Spec

=============================================================================
