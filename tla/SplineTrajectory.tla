-------------------------- MODULE SplineTrajectory --------------------------
(***************************************************************************)
(* CatmullRomSpline::getTrajectory, catmull_rom_spline.cpp lines 97-119:   *)
(* the sampling loop, one iteration per step.  getPoint(s, offset) is      *)
(* abstracted to the arc length s it samples, so the trajectory is the     *)
(* sequence of sampled arc lengths.  Arc lengths and resolutions are       *)
(* integers: the loop's control does not depend on their fractions.        *)
(***************************************************************************)
EXTENDS Integers, Sequences

CONSTANTS
    Positions,    \* the arc lengths a caller passes as start_s or end_s
    Resolutions,  \* the resolutions a caller passes
    MaxSamples    \* the most points the returned vector can hold

ASSUME TrajectoryAssumption ==
    /\ Positions \subseteq Int /\ Positions # {}
    /\ Resolutions \subseteq Int /\ Resolutions # {}
    /\ MaxSamples \in Nat

VARIABLES
    pc,           \* "idle", "loop" (inside the while loop) or "done"
    args,         \* [start, end, res]: start_s, end_s, resolution
    s,            \* the loop variable s
    ret           \* the vector ret of sampled arc lengths

vars == <<pc, args, s, ret>>

Args == [start : Positions, end : Positions, res : Resolutions]

AbsVal(x) == IF x < 0 THEN -x ELSE x

\* The ends of the interval a call walks.
Lo(a) == IF a.start < a.end THEN a.start ELSE a.end
Hi(a) == IF a.start < a.end THEN a.end ELSE a.start

\* Line 100: the loop runs backward when start_s > end_s.
Backward(a) == a.start > a.end

\* Mutation: the loop tests stop one step late (<= instead of <).
ContinueInclusive == IF Backward(args) THEN s >= args.end ELSE s <= args.end

\* The loop conditions of lines 103 and 112.
Continue == IF Backward(args) THEN s > args.end ELSE s < args.end

Init ==
    /\ pc = "idle"
    /\ args \in Args
    /\ s = 0
    /\ ret = <<>>

\* A call: lines 101-102 (or 110-111) set up s and the empty vector.
Call ==
    /\ pc = "idle"
    /\ \E a \in Args :
        /\ args' = a
        /\ s' = a.start
    /\ ret' = <<>>
    /\ pc' = "loop"

\* Mutation: fabs dropped from the backward step.
StepBackwardSigned ==
    /\ pc = "loop"
    /\ Backward(args)
    /\ Continue
    /\ Len(ret) < MaxSamples
    /\ ret' = Append(ret, s)
    /\ s' = s - args.res
    /\ UNCHANGED <<pc, args>>

\* Lines 103-106: sample s and step back by |resolution|.
StepBackward ==
    /\ pc = "loop"
    /\ Backward(args)
    /\ Continue
    /\ Len(ret) < MaxSamples
    /\ ret' = Append(ret, s)
    /\ s' = s - AbsVal(args.res)
    /\ UNCHANGED <<pc, args>>

\* Lines 112-115: sample s and step forward by |resolution|.
StepForward ==
    /\ pc = "loop"
    /\ ~Backward(args)
    /\ Continue
    /\ Len(ret) < MaxSamples
    /\ ret' = Append(ret, s)
    /\ s' = s + AbsVal(args.res)
    /\ UNCHANGED <<pc, args>>

\* Lines 107-108 and 116-117: the loop has ended; end_s itself is sampled
\* and the vector returned.
Finish ==
    /\ pc = "loop"
    /\ ~Continue
    /\ ret' = Append(ret, args.end)
    /\ pc' = "done"
    /\ UNCHANGED <<args, s>>

\* The caller takes the result; the next call may follow.
Return ==
    /\ pc = "done"
    /\ pc' = "idle"
    /\ ret' = <<>>
    /\ UNCHANGED <<args, s>>

Next == Call \/ StepBackward \/ StepForward \/ Finish \/ Return

\* The loop runs on one thread without waiting, so each enabled step of
\* it is eventually taken.
Spec ==
    /\ Init /\ [][Next]_vars
    /\ WF_vars(StepBackward) /\ WF_vars(StepForward) /\ WF_vars(Finish)

-----------------------------------------------------------------------------
(* Properties.                                                             *)

\* Types, and the loop variable never strays more than one resolution past
\* the interval between start_s and end_s: a step in the wrong direction
\* (a lost fabs) walks s away from end_s.
TypeOK ==
    /\ pc \in {"idle", "loop", "done"}
    /\ args \in Args
    /\ ret \in Seq(Int)
    /\ pc = "loop" => s \in Lo(args) - AbsVal(args.res) .. Hi(args) + AbsVal(args.res)

\* getTrajectory implements its specification: the refinement mapping
\* hides the loop, showing a call as busy until the vector is returned.
Abstract == INSTANCE TrajectorySpec WITH
    phase <- IF pc = "loop" THEN "busy" ELSE pc,
    out <- IF pc = "done" THEN ret ELSE <<>>

\* Every call returns the points spec 4.3 describes (start, then every
\* |resolution| short of end_s, then end_s) and returns eventually.
ImplementsTrajectorySpec == Abstract!Spec

\* (spec 4.3) getTrajectory is finite: every call of the loop returns.
Termination == pc = "loop" ~> pc = "done"

=============================================================================
