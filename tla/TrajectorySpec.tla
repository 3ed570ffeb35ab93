--------------------------- MODULE TrajectorySpec ---------------------------
(***************************************************************************)
(* What CatmullRomSpline::getTrajectory promises (spec 4.3): a call with   *)
(* start s, end s and a resolution eventually returns the arc lengths from *)
(* start toward end in steps of |resolution|, every one short of end, and  *)
(* then end itself.  One step answers the whole call.                      *)
(***************************************************************************)
EXTENDS Integers, Sequences

CONSTANTS
    Positions,    \* the arc lengths a caller passes as start or end
    Resolutions   \* the resolutions a caller passes

VARIABLES
    phase,        \* "idle", "busy" (a call is running) or "done"
    args,         \* the arguments of the current call
    out           \* the trajectory returned, once phase = "done"

vars == <<phase, args, out>>

Args == [start : Positions, end : Positions, res : Resolutions]

AbsVal(x) == IF x < 0 THEN -x ELSE x

\* The points getTrajectory should return, as arc lengths: start, then
\* every |res| toward end while short of it, then end.
Samples(a) ==
    LET r   == AbsVal(a.res)
        n   == (AbsVal(a.end - a.start) + r - 1) \div r
        dir == IF a.start > a.end THEN -1 ELSE 1
    IN  [i \in 1 .. n + 1 |-> IF i <= n THEN a.start + dir * (i - 1) * r ELSE a.end]

Init ==
    /\ phase = "idle"
    /\ args \in Args
    /\ out = <<>>

Request ==
    /\ phase = "idle"
    /\ phase' = "busy"
    /\ args' \in Args
    /\ out' = <<>>

Respond ==
    /\ phase = "busy"
    /\ phase' = "done"
    /\ out' = Samples(args)
    /\ UNCHANGED args

Return ==
    /\ phase = "done"
    /\ phase' = "idle"
    /\ out' = <<>>
    /\ UNCHANGED args

Next == Request \/ Respond \/ Return

\* A call that has started is answered: getTrajectory is a finite,
\* synchronous computation (spec 4.3 and 5).
Spec == Init /\ [][Next]_vars /\ WF_vars(Respond)

=============================================================================
