------------------------ MODULE MC_CatmullRomSpline ------------------------
(* Model-checking instance of CatmullRomSpline: planar control points on  *)
(* the corners of the unit square, up to four of them (three curves, so   *)
(* first, interior and last coefficient formulas all occur), and segment  *)
(* lengths up to 2, so that zero-length and unequal curves occur.         *)
EXTENDS CatmullRomSpline

MCAxes == {"x", "y"}
MCCoord == {0, 1}
=============================================================================
