-------------------- MODULE CatmullRomSplineResolveProofs --------------------
(***************************************************************************)
(* Proofs that getCurveIndexAndS (lines 239-257) and getSInSplineCurve     *)
(* (lines 259-271) agree on every spline the constructor builds: every s   *)
(* in [0, total_length_] resolves to a curve that exists and a local s     *)
(* within its length, and mapping the result back gives s again.           *)
(*                                                                         *)
(* The argument rests on the running sums Cum(length_list_): Cum(L)[0] is  *)
(* 0, Cum(L)[j] is Cum(L)[j-1] + L[j], and total_length_ is the last of    *)
(* them (lines 229-232).  Cum is a recursive function; the recurrence and  *)
(* its type are established by the least-number principle (NatLeast)      *)
(* applied to the set of indices where they would first fail, which needs *)
(* no induction rule with an operator parameter.                           *)
(***************************************************************************)
EXTENDS CatmullRomSplineProofs, NatLeast, TLAPS

USE SplineAssumption

-----------------------------------------------------------------------------
(* The running sums.                                                       *)

\* Cum satisfies its recurrence.
LEMMA CumRec ==
    ASSUME NEW L \in Seq(Int)
    PROVE  Cum(L) = [j \in 0 .. Len(L) |-> IF j = 0 THEN 0 ELSE Cum(L)[j - 1] + L[j]]
BY SumsExist, Zenon DEF Cum


\* The running sums of a list of lengths start at 0, add one length per
\* curve, and are natural numbers.
LEMMA CumFacts ==
    ASSUME NEW L \in Seq(Nat)
    PROVE  /\ Cum(L)[0] = 0
           /\ \A j \in 1 .. Len(L) : Cum(L)[j] = Cum(L)[j - 1] + L[j]
           /\ \A j \in 0 .. Len(L) : Cum(L)[j] \in Nat
<1>. DEFINE n == Len(L)
            C == Cum(L)
<1>0. n \in Nat /\ L \in Seq(Int)
    BY LenProperties, SeqDef
<1>1. C = [j \in 0 .. n |-> IF j = 0 THEN 0 ELSE C[j - 1] + L[j]]
    BY <1>0, CumRec
<1>. HIDE DEF C
<1>2. C[0] = 0
    BY <1>0, <1>1
<1>3. \A j \in 1 .. n : C[j] = C[j - 1] + L[j]
    <2>. SUFFICES ASSUME NEW j \in 1 .. n PROVE C[j] = C[j - 1] + L[j]
        OBVIOUS
    <2>1. j \in 0 .. n /\ j # 0
        BY <1>0
    <2>2. C[j] = IF j = 0 THEN 0 ELSE C[j - 1] + L[j]
        BY <1>1, <2>1, Zenon
    <2>. QED  BY <2>1, <2>2
<1>4. \A j \in 0 .. n : C[j] \in Nat
    <2>. DEFINE Bad == {j \in 0 .. n : C[j] \notin Nat}
    <2>. SUFFICES ASSUME Bad # {} PROVE FALSE
        BY DEF Bad
    <2>1. PICK m \in Bad : \A y \in Bad : m <= y
        <3>1. Bad \in SUBSET Nat
            BY <1>0 DEF Bad
        <3>. QED  BY <3>1, NatHasLeast
    <2>2. m \in 1 .. n
        BY <1>0, <1>2, <2>1 DEF Bad
    <2>3. m - 1 \notin Bad
        <3>1. ~(m <= m - 1)
            BY <2>2
        <3>. QED  BY <3>1, <2>1
    <2>4. C[m - 1] \in Nat /\ L[m] \in Nat
        BY <1>0, <2>2, <2>3 DEF Bad
    <2>5. C[m] \in Nat
        BY <1>3, <2>2, <2>4
    <2>. QED  BY <2>1, <2>5 DEF Bad
<1>. QED  BY <1>2, <1>3, <1>4 DEF C

\* total_length_ is the sum of length_list_ (lines 229-232) whenever the
\* spline has curves.
TotalIsSum ==
    curves # <<>> => total_length = Cum(length_list)[Len(length_list)]

\* The inductive invariant of the resolve theorems.
RInv == IInv /\ TotalIsSum


-----------------------------------------------------------------------------
(* Resolving an arc length on a curve spline.                              *)

\* On a spline with curves, length_list_ is a list of natural numbers, one
\* per curve, whose running sums end at total_length_.
LEMMA SplineSums ==
    ASSUME TypeOK, TotalIsSum, curves # <<>>
    PROVE  LET n == Len(curves)
               C == Cum(length_list)
           IN  /\ n \in Nat \ {0}
               /\ length_list \in [1 .. n -> 0 .. MaxLen]
               /\ Len(length_list) = n
               /\ C[0] = 0
               /\ \A j \in 1 .. n : C[j] = C[j - 1] + length_list[j]
               /\ \A j \in 0 .. n : C[j] \in Nat
               /\ total_length = C[n]
<1>. DEFINE n == Len(curves)
<1>1. n \in Nat \ {0} /\ DOMAIN curves = 1 .. n
    BY EmptySeq, LenProperties DEF TypeOK
<1>2. length_list \in [1 .. n -> 0 .. MaxLen]
    BY <1>1 DEF TypeOK
<1>3. length_list \in Seq(Nat) /\ Len(length_list) = n
    <2>1. length_list \in [1 .. n -> Nat]
        BY <1>2
    <2>2. length_list \in Seq(Nat)
        BY <1>1, <2>1, SeqDef
    <2>. QED  BY <1>1, <2>1, <2>2, LenProperties
<1>4. total_length = Cum(length_list)[n]
    BY <1>3 DEF TotalIsSum
<1>. QED  BY <1>1, <1>2, <1>3, <1>4, CumFacts

\* An s strictly inside [0, total_length_) lies in some curve j with
\* positive length: Cum[j - 1] <= s < Cum[j].  The least j with s < Cum[j]
\* is such a curve, because Cum[0] = 0 <= s.
LEMMA InsideCurve ==
    ASSUME TypeOK, TotalIsSum, curves # <<>>,
           NEW s \in Int, 0 <= s, s < total_length
    PROVE  LET C == Cum(length_list)
           IN  \E j \in 1 .. Len(curves) : C[j - 1] <= s /\ s < C[j]
<1>. DEFINE n == Len(curves)
            C == Cum(length_list)
            Above == {j \in 0 .. n : s < C[j]}
<1>1. /\ n \in Nat \ {0}
      /\ C[0] = 0
      /\ \A j \in 0 .. n : C[j] \in Nat
      /\ total_length = C[n]
    BY SplineSums
<1>. HIDE DEF C
<1>2. Above # {} /\ Above \in SUBSET Nat
    BY <1>1
<1>3. PICK m \in Above : \A y \in Above : m <= y
    BY <1>2, NatHasLeast
<1>4. m \in 1 .. n /\ s < C[m]
    BY <1>1, <1>3
<1>5. C[m - 1] <= s
    <2>1. m - 1 \in 0 .. n /\ ~(m <= m - 1)
        BY <1>4
    <2>2. m - 1 \notin Above
        BY <2>1, <1>3
    <2>3. C[m - 1] \in Nat
        BY <1>1, <2>1
    <2>. QED  BY <2>1, <2>2, <2>3
<1>. QED  BY <1>4, <1>5 DEF C

\* For such an s, getCurveIndexAndS returns the first curve that contains
\* it and the distance from that curve's start.
LEMMA ResolveInside ==
    ASSUME TypeOK, TotalIsSum, curves # <<>>,
           NEW s \in Int, 0 <= s, s < total_length
    PROVE  LET C == Cum(length_list)
               r == CurveIndexAndS(s)
           IN  /\ r.out = "ok"
               /\ r.idx \in 1 .. Len(curves)
               /\ C[r.idx - 1] <= s /\ s < C[r.idx]
               /\ r.s = s - C[r.idx - 1]
<1>. DEFINE n == Len(curves)
            C == Cum(length_list)
            found == {j \in 1 .. n : C[j - 1] <= s /\ s < C[j]}
<1>1. n \in Nat /\ total_length \in Int
    BY SplineSums
<1>2. found # {} /\ found \in SUBSET Nat
    BY <1>1, InsideCurve
<1>3. Min(found) \in found
    <2>1. \E m \in found : \A y \in found : m <= y
        BY <1>2, NatHasLeast
    <2>. QED  BY <2>1, Zenon DEF Min
<1>4. CurveIndexAndS(s) = [out |-> "ok", idx |-> Min(found), s |-> s - C[Min(found) - 1]]
    <2>1. ~(s < 0) /\ ~(s >= total_length)
        BY <1>1
    <2>. QED  BY <1>2, <2>1, Zenon DEF CurveIndexAndS
<1>. QED  BY <1>3, <1>4


LEMMA InitRInv == Init => RInv
<1>. SUFFICES ASSUME Init PROVE RInv
    OBVIOUS
<1>1. IInv
    BY InitIInv
<1>2. TotalIsSum
    BY DEF Init, TotalIsSum
<1>. QED  BY <1>1, <1>2 DEF RInv

LEMMA NextRInv == RInv /\ [Next]_vars => RInv'
<1>. SUFFICES ASSUME RInv, [Next]_vars PROVE RInv'
    OBVIOUS
<1>1. IInv'
    BY NextIInv DEF RInv
<1>2. TotalIsSum'
    <2>1. CASE Construct
        <3>. PICK n \in 0 .. MaxPoints : \E P \in [1 .. n -> Point] :
                ConstructEmpty(n) \/ ConstructDegenerate(n, P) \/ ConstructCurves(n, P)
            BY <2>1 DEF Construct
        <3>. PICK P \in [1 .. n -> Point] :
                ConstructEmpty(n) \/ ConstructDegenerate(n, P) \/ ConstructCurves(n, P)
            OBVIOUS
        <3>1. CASE ConstructEmpty(n)
            BY <3>1 DEF ConstructEmpty, spline, RInv, TotalIsSum
        <3>2. CASE ConstructDegenerate(n, P)
            BY <3>2 DEF ConstructDegenerate, TotalIsSum
        <3>3. CASE ConstructCurves(n, P)
            <4>. PICK L \in LengthChoices(BuildCurves(P)), total \in 0 .. MaxTotal :
                    /\ total = Cum(L)[Len(L)]
                    /\ IF CheckConnection(P, BuildCurves(P))
                       THEN /\ alive' = TRUE
                            /\ control_points' = P
                            /\ curves' = BuildCurves(P)
                            /\ length_list' = L
                            /\ total_length' = total
                            /\ ret' = ConstructRet(n, "ok")
                       ELSE /\ ret' = ConstructRet(n, "ConnectivityError")
                            /\ UNCHANGED <<alive, spline>>
                BY <3>3 DEF ConstructCurves
            <4>1. CheckConnection(P, BuildCurves(P))
                BY <3>3, Connected DEF ConstructCurves
            <4>2. length_list' = L /\ total_length' = Cum(L)[Len(L)]
                BY <4>1
            <4>. QED  BY <4>2, Zenon DEF TotalIsSum
        <3>. QED  BY <3>1, <3>2, <3>3
    <2>2. CASE GetPoint
        BY <2>2 DEF GetPoint, spline, RInv, TotalIsSum
    <2>3. CASE Release
        BY <2>3 DEF Release, TotalIsSum
    <2>4. CASE UNCHANGED vars
        BY <2>4 DEF vars, RInv, TotalIsSum
    <2>. QED  BY <2>1, <2>2, <2>3, <2>4 DEF Next
<1>. QED  BY <1>1, <1>2 DEF RInv


\* Past the end, getCurveIndexAndS returns the last curve and the local s
\* measured from that curve's start.
LEMMA ResolvePastEnd ==
    ASSUME TypeOK, TotalIsSum, curves # <<>>,
           NEW s \in Int, s >= total_length
    PROVE  CurveIndexAndS(s) =
               [out |-> "ok", idx |-> Len(curves),
                s |-> s - (total_length - length_list[Len(curves)])]
<1>1. Len(curves) # 0 /\ total_length \in Nat
    BY SplineSums
<1>2. ~(s < 0)
    BY <1>1
<1>. QED  BY <1>1, <1>2, Zenon DEF CurveIndexAndS

\* Every s in [0, total_length_] resolves to an existing curve and a local
\* s within its length, strictly inside it when s < total_length_.
LEMMA InRange == TypeOK /\ TotalIsSum => ResolveInRange
<1>. SUFFICES ASSUME TypeOK, TotalIsSum, alive, curves # <<>>,
                     NEW s \in 0 .. total_length
              PROVE  /\ CurveIndexAndS(s).out = "ok"
                     /\ CurveIndexAndS(s).idx \in 1 .. Len(curves)
                     /\ 0 <= CurveIndexAndS(s).s
                     /\ CurveIndexAndS(s).s <= length_list[CurveIndexAndS(s).idx]
                     /\ s < total_length => CurveIndexAndS(s).s < length_list[CurveIndexAndS(s).idx]
    BY Zenon DEF ResolveInRange
<1>. DEFINE n == Len(curves)
            C == Cum(length_list)
            r == CurveIndexAndS(s)
<1>1. /\ n \in Nat \ {0}
      /\ length_list \in [1 .. n -> 0 .. MaxLen]
      /\ \A j \in 1 .. n : C[j] = C[j - 1] + length_list[j]
      /\ \A j \in 0 .. n : C[j] \in Nat
      /\ total_length = C[n]
    BY SplineSums
<1>2. CASE s < total_length
    <2>1. /\ r.out = "ok"
          /\ r.idx \in 1 .. n
          /\ C[r.idx - 1] <= s /\ s < C[r.idx]
          /\ r.s = s - C[r.idx - 1]
        BY <1>2, ResolveInside
    <2>. HIDE DEF C, r
    <2>2. r.idx - 1 \in 0 .. n
        BY <1>1, <2>1
    <2>3. C[r.idx] = C[r.idx - 1] + length_list[r.idx]
        BY <1>1, <2>1
    <2>4. C[r.idx - 1] \in Nat /\ C[r.idx] \in Nat /\ length_list[r.idx] \in Nat
        BY <1>1, <2>1, <2>2
    <2>5. 0 <= r.s /\ r.s <= length_list[r.idx] /\ r.s < length_list[r.idx]
        BY <2>1, <2>3, <2>4
    <2>. QED  BY <2>1, <2>5, Zenon DEF r
<1>3. CASE s = total_length
    <2>1. r = [out |-> "ok", idx |-> n, s |-> s - (total_length - length_list[n])]
        BY <1>3, ResolvePastEnd
    <2>. HIDE DEF C, r
    <2>2. length_list[n] \in 0 .. MaxLen /\ n \in 1 .. n
        BY <1>1
    <2>3. r.out = "ok" /\ r.idx = n /\ r.s = length_list[n]
        BY <1>1, <1>3, <2>1, <2>2
    <2>. QED  BY <1>3, <2>2, <2>3 DEF r
<1>. QED  BY <1>1, <1>2, <1>3

\* Every queried s resolves without an error, and getSInSplineCurve maps
\* the (curve, local s) pair back to s.
LEMMA RoundTrip == TypeOK /\ TotalIsSum => ResolveRoundTrip
<1>. SUFFICES ASSUME TypeOK, TotalIsSum, alive, curves # <<>>,
                     NEW s \in SRange
              PROVE  /\ CurveIndexAndS(s).out = "ok"
                     /\ SInSplineCurve(CurveIndexAndS(s).idx, CurveIndexAndS(s).s)
                            = [out |-> "ok", val |-> s]
    BY Zenon DEF ResolveRoundTrip
<1>. DEFINE n == Len(curves)
            C == Cum(length_list)
            r == CurveIndexAndS(s)
<1>0. s \in Int
    BY DEF SRange
<1>1. /\ n \in Nat \ {0}
      /\ length_list \in [1 .. n -> 0 .. MaxLen]
      /\ \A j \in 1 .. n : C[j] = C[j - 1] + length_list[j]
      /\ \A j \in 0 .. n : C[j] \in Nat
      /\ C[0] = 0
      /\ total_length = C[n]
    BY SplineSums
\* The pair r maps back to s when it names a curve and its local s is s
\* less that curve's starting sum.
<1>2. ASSUME NEW i \in 1 .. n, NEW x \in Int, C[i - 1] \in Int, x = s - C[i - 1]
      PROVE  SInSplineCurve(i, x) = [out |-> "ok", val |-> s]
    <2>1. SInSplineCurve(i, x) = [out |-> "ok", val |-> C[i - 1] + x]
        BY DEF SInSplineCurve
    <2>. HIDE DEF C
    <2>2. C[i - 1] + x = s
        BY <1>0, <1>2
    <2>. QED  BY <2>1, <2>2
<1>3. CASE s < 0
    <2>1. r = [out |-> "ok", idx |-> 1, s |-> s]
        BY <1>3 DEF CurveIndexAndS
    <2>. HIDE DEF C, r
    <2>2. 1 \in 1 .. n /\ C[1 - 1] = 0 /\ s = s - C[1 - 1]
        BY <1>0, <1>1
    <2>3. SInSplineCurve(r.idx, r.s) = [out |-> "ok", val |-> s]
        BY <1>0, <2>1, <2>2, <1>2
    <2>. QED  BY <2>1, <2>3 DEF r
<1>4. CASE ~(s < 0) /\ s < total_length
    <2>1. /\ r.out = "ok"
          /\ r.idx \in 1 .. n
          /\ r.s = s - C[r.idx - 1]
        BY <1>0, <1>4, ResolveInside
    <2>. HIDE DEF C, r
    <2>2. r.idx - 1 \in 0 .. n
        BY <1>1, <2>1
    <2>3. C[r.idx - 1] \in Int /\ r.s \in Int
        BY <1>0, <1>1, <2>1, <2>2
    <2>4. SInSplineCurve(r.idx, r.s) = [out |-> "ok", val |-> s]
        BY <2>1, <2>3, <1>2
    <2>. QED  BY <2>1, <2>4 DEF r
<1>5. CASE s >= total_length
    <2>1. r = [out |-> "ok", idx |-> n, s |-> s - (total_length - length_list[n])]
        BY <1>0, <1>5, ResolvePastEnd
    <2>. HIDE DEF C, r
    <2>2. /\ n \in 1 .. n
          /\ n - 1 \in 0 .. n
          /\ C[n - 1] \in Int
          /\ length_list[n] \in Int
          /\ C[n] = C[n - 1] + length_list[n]
        BY <1>1
    <2>3. r.out = "ok" /\ r.idx = n /\ r.s = s - C[n - 1] /\ r.s \in Int
        BY <1>0, <1>1, <2>1, <2>2
    <2>4. SInSplineCurve(r.idx, r.s) = [out |-> "ok", val |-> s]
        BY <2>2, <2>3, <1>2
    <2>. QED  BY <2>3, <2>4 DEF r
<1>6. total_length \in Int
    BY <1>1
<1>. QED  BY <1>0, <1>6, <1>3, <1>4, <1>5

-----------------------------------------------------------------------------
(* Theorems.                                                               *)

\* getCurveIndexAndS, on every spline the constructor builds and for every
\* s in [0, total_length_], selects a curve that exists and a local s
\* within its length (strictly inside a curve of positive length when
\* s < total_length_), whatever the control points and curve lengths.
THEOREM ResolveStaysInRange == Spec => []ResolveInRange
<1>1. RInv => ResolveInRange
    BY InRange DEF RInv, IInv
<1>. QED  BY <1>1, InitRInv, NextRInv, PTL DEF Spec

\* getCurveIndexAndS never throws on a built spline, and getSInSplineCurve
\* inverts it: every queried s, before the start, inside or past the end,
\* is mapped back to itself.
THEOREM ResolveInverts == Spec => []ResolveRoundTrip
<1>1. RInv => ResolveRoundTrip
    BY RoundTrip DEF RInv, IInv
<1>. QED  BY <1>1, InitRInv, NextRInv, PTL DEF Spec

=============================================================================
