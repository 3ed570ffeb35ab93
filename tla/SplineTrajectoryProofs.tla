----------------------- MODULE SplineTrajectoryProofs -----------------------
(***************************************************************************)
(* Proofs about the getTrajectory loop (SplineTrajectory): its type        *)
(* invariant, and that every step of it is a step of TrajectorySpec under  *)
(* the refinement mapping, so that every vector a call returns is the one  *)
(* the specification describes.                                            *)
(***************************************************************************)
EXTENDS SplineTrajectory, SequenceTheorems, TLAPS

\* The loop's direction and step, and its i-th sample.
Dir(a) == IF Backward(a) THEN -1 ELSE 1
Res(a) == AbsVal(a.res)
Sample(a, i) == a.start + Dir(a) * (i - 1) * Res(a)

\* The loop has sampled start, start + r, ... in order, s is the next
\* sample, and every sample it took still satisfied the loop test.
LoopInv ==
    pc = "loop" =>
        /\ \A i \in 1 .. Len(ret) : ret[i] = Sample(args, i)
        /\ s = Sample(args, Len(ret) + 1)
        /\ Len(ret) >= 1 =>
             IF Backward(args) THEN Sample(args, Len(ret)) > args.end
                               ELSE Sample(args, Len(ret)) < args.end

IInv ==
    /\ TypeOK
    /\ pc = "idle" => ret = <<>>
    /\ LoopInv
    /\ pc = "done" => ret = Abstract!Samples(args)

-----------------------------------------------------------------------------
(* Lemmas on integers.                                                     *)

\* The number of samples a loop of step r takes over a distance d is the
\* least k with k * r >= d, which is what the specification computes.
LEMMA SampleCount ==
    ASSUME NEW d \in Nat, NEW r \in Nat \ {0}, NEW k \in Nat,
           k * r >= d, k >= 1 => (k - 1) * r < d
    PROVE  (d + r - 1) \div r = k
<1>1. k * r <= d + r - 1
  BY SMT
<1>2. d + r - 1 < (k + 1) * r
  BY SMT
<1>. QED
  BY <1>1, <1>2, SMT

LEMMA AbsValInt ==
    ASSUME NEW x \in Int
    PROVE  /\ AbsVal(x) \in Nat
           /\ x # 0 => AbsVal(x) \in Nat \ {0}
BY DEF AbsVal

-----------------------------------------------------------------------------
(* The type invariant.                                                     *)

LEMMA ArgsFields ==
    ASSUME NEW a \in Args
    PROVE  a.start \in Int /\ a.end \in Int /\ a.res \in Int
BY TrajectoryAssumption DEF Args

LEMMA TypeInit == Init => TypeOK
BY TrajectoryAssumption DEF Init, TypeOK

LEMMA TypeStep == TypeOK /\ [Next]_vars => TypeOK'
  <2>. SUFFICES ASSUME TypeOK, [Next]_vars PROVE TypeOK'
    OBVIOUS
  <2>0. /\ args \in Args /\ ret \in Seq(Int)
        /\ args.start \in Int /\ args.end \in Int /\ args.res \in Int
    BY ArgsFields DEF TypeOK
  <2>1. CASE Call
    <3>1. PICK a \in Args : args' = a /\ s' = a.start
      BY <2>1 DEF Call
    <3>2. a.start \in Int /\ a.end \in Int /\ a.res \in Int
      BY ArgsFields
    <3>3. s' \in Lo(args') - AbsVal(args'.res) .. Hi(args') + AbsVal(args'.res)
      BY <3>1, <3>2 DEF Lo, Hi, AbsVal
    <3>. QED
      BY <2>1, <3>1, <3>3, EmptySeq DEF Call, TypeOK
  <2>2. CASE StepBackward
    <3>1. s \in Lo(args) - AbsVal(args.res) .. Hi(args) + AbsVal(args.res)
      BY <2>2 DEF TypeOK, StepBackward
    <3>2. s' \in Lo(args) - AbsVal(args.res) .. Hi(args) + AbsVal(args.res)
      BY <2>0, <2>2, <3>1 DEF StepBackward, Backward, Continue, Lo, Hi, AbsVal
    <3>3. Append(ret, s) \in Seq(Int)
      BY <2>0, <3>1, AppendProperties
    <3>. QED
      BY <2>0, <2>2, <3>2, <3>3 DEF StepBackward, TypeOK
  <2>3. CASE StepForward
    <3>1. s \in Lo(args) - AbsVal(args.res) .. Hi(args) + AbsVal(args.res)
      BY <2>3 DEF TypeOK, StepForward
    <3>2. args.start <= args.end /\ s < args.end /\ s' = s + AbsVal(args.res)
      BY <2>0, <2>3 DEF StepForward, Backward, Continue
    <3>3. s' \in Lo(args) - AbsVal(args.res) .. Hi(args) + AbsVal(args.res)
      <4>1. AbsVal(args.res) \in Nat
        BY <2>0, AbsValInt
      <4>2. Lo(args) = args.start /\ Hi(args) = args.end
        BY <2>0, <3>2 DEF Lo, Hi
      <4>3. s \in Int /\ s >= args.start - AbsVal(args.res)
        BY <2>0, <3>1, <4>1, <4>2
      <4>. QED
        BY <2>0, <3>2, <4>1, <4>2, <4>3
    <3>4. Append(ret, s) \in Seq(Int)
      BY <2>0, <3>1, AppendProperties
    <3>. QED
      BY <2>0, <2>3, <3>3, <3>4 DEF StepForward, TypeOK
  <2>4. CASE Finish
    <3>1. Append(ret, args.end) \in Seq(Int)
      BY <2>0, AppendProperties
    <3>. QED
      BY <2>0, <2>4, <3>1 DEF Finish, TypeOK
  <2>5. CASE Return
    BY <2>5, EmptySeq DEF Return, TypeOK
  <2>6. CASE UNCHANGED vars
    BY <2>6 DEF vars, TypeOK
  <2>. QED
    BY <2>1, <2>2, <2>3, <2>4, <2>5, <2>6 DEF Next

\* The loop variable of getTrajectory stays within one resolution of the
\* interval it walks (catmull_rom_spline.cpp lines 103-115).
THEOREM TypeCorrect == Spec => []TypeOK
BY TypeInit, TypeStep, PTL DEF Spec

-----------------------------------------------------------------------------
(* The vector a finished loop returns.                                     *)

LEMMA ResPositive ==
    ASSUME 0 \notin Resolutions, NEW a \in Args
    PROVE  Res(a) \in Nat \ {0}
BY ArgsFields, AbsValInt DEF Args, Res

\* When the loop test fails after k samples, k is the count the
\* specification gives for the interval and the resolution.
LEMMA FinishCount ==
    ASSUME 0 \notin Resolutions, NEW a \in Args, NEW k \in Nat,
           IF Backward(a) THEN Sample(a, k + 1) <= a.end ELSE Sample(a, k + 1) >= a.end,
           k >= 1 => IF Backward(a) THEN Sample(a, k) > a.end ELSE Sample(a, k) < a.end
    PROVE  (AbsVal(a.end - a.start) + Res(a) - 1) \div Res(a) = k
<1>. DEFINE r == Res(a)
<1>1. r \in Nat \ {0} /\ a.start \in Int /\ a.end \in Int
  BY ResPositive, ArgsFields
<1>2. CASE Backward(a)
  <2>1. a.start - k * r <= a.end
    BY <1>1, <1>2 DEF Sample, Dir
  <2>2. k >= 1 => a.start - (k - 1) * r > a.end
    BY <1>1, <1>2 DEF Sample, Dir
  <2>3. AbsVal(a.end - a.start) = a.start - a.end
    BY <1>1, <1>2 DEF AbsVal, Backward
  <2>4. /\ a.start - a.end \in Nat
        /\ k * r >= a.start - a.end
        /\ k >= 1 => (k - 1) * r < a.start - a.end
    BY <1>1, <1>2, <2>1, <2>2 DEF Backward
  <2>5. (a.start - a.end + r - 1) \div r = k
    BY <1>1, <2>4, SampleCount, Zenon
  <2>. QED
    BY <2>3, <2>5
<1>3. CASE ~Backward(a)
  <2>1. a.start + k * r >= a.end
    BY <1>1, <1>3 DEF Sample, Dir
  <2>2. k >= 1 => a.start + (k - 1) * r < a.end
    BY <1>1, <1>3 DEF Sample, Dir
  <2>3. AbsVal(a.end - a.start) = a.end - a.start
    BY <1>1, <1>3 DEF AbsVal, Backward
  <2>4. /\ a.end - a.start \in Nat
        /\ k * r >= a.end - a.start
        /\ k >= 1 => (k - 1) * r < a.end - a.start
    BY <1>1, <1>3, <2>1, <2>2 DEF Backward
  <2>5. (a.end - a.start + r - 1) \div r = k
    BY <1>1, <2>4, SampleCount, Zenon
  <2>. QED
    BY <2>3, <2>5
<1>. QED
  BY <1>2, <1>3

\* The vector returned at line 108 or 117 is the one TrajectorySpec gives.
LEMMA FinishSamples ==
    ASSUME 0 \notin Resolutions, NEW a \in Args, NEW r0 \in Seq(Int),
           \A i \in 1 .. Len(r0) : r0[i] = Sample(a, i),
           IF Backward(a) THEN Sample(a, Len(r0) + 1) <= a.end
                          ELSE Sample(a, Len(r0) + 1) >= a.end,
           Len(r0) >= 1 => IF Backward(a) THEN Sample(a, Len(r0)) > a.end
                                          ELSE Sample(a, Len(r0)) < a.end
    PROVE  Append(r0, a.end) = Abstract!Samples(a)
<1>. DEFINE k == Len(r0)
            f == [i \in 1 .. k + 1 |-> IF i <= k THEN Sample(a, i) ELSE a.end]
<1>1. k \in Nat /\ a.end \in Int
  BY LenProperties, ArgsFields
<1>2. (AbsVal(a.end - a.start) + Res(a) - 1) \div Res(a) = k
  BY <1>1, FinishCount
<1>3. Abstract!Samples(a) = f
  BY <1>2 DEF Abstract!Samples, Abstract!AbsVal, AbsVal, Res, Sample, Dir, Backward
<1>4. /\ Append(r0, a.end) \in Seq(Int)
      /\ Len(Append(r0, a.end)) = k + 1
      /\ \A i \in 1 .. k : Append(r0, a.end)[i] = r0[i]
      /\ Append(r0, a.end)[k + 1] = a.end
  BY <1>1, AppendProperties
<1>5. DOMAIN Append(r0, a.end) = 1 .. k + 1
  BY <1>4, LenProperties
<1>6. \A i \in 1 .. k + 1 : Append(r0, a.end)[i] = f[i]
  BY <1>1, <1>4
<1>7. Append(r0, a.end) = f
  BY <1>4, <1>5, <1>6, LenProperties
<1>. QED
  BY <1>3, <1>7

-----------------------------------------------------------------------------
(* The inductive invariant and the refinement.                             *)

LEMMA IInvInit == Init => IInv
BY TypeInit DEF Init, IInv, LoopInv

LEMMA IInvStep ==
    ASSUME 0 \notin Resolutions
    PROVE  IInv /\ [Next]_vars => IInv'
<1>. SUFFICES ASSUME IInv, [Next]_vars PROVE IInv'
  OBVIOUS
<1>0. /\ TypeOK' /\ args \in Args /\ ret \in Seq(Int)
      /\ args.start \in Int /\ args.end \in Int /\ Res(args) \in Nat \ {0}
  BY TypeStep, ArgsFields, ResPositive DEF IInv, TypeOK
<1>1. CASE Call
  <2>1. PICK a \in Args : args' = a /\ s' = a.start
    BY <1>1 DEF Call
  <2>2. a.start \in Int /\ Res(a) \in Nat
    BY ArgsFields, ResPositive
  <2>3. s' = Sample(args', Len(ret') + 1)
    <3>1. Len(ret') = 0
      BY <1>1, EmptySeq DEF Call
    <3>2. Dir(a) \in {-1, 1}
      BY DEF Dir
    <3>3. Sample(a, 1) = a.start
      BY <2>2, <3>2 DEF Sample
    <3>. QED
      BY <2>1, <3>1, <3>3
  <2>. QED
    BY <1>0, <1>1, <2>3, EmptySeq DEF Call, IInv, LoopInv
<1>2. CASE StepBackward \/ StepForward
  <2>. DEFINE k == Len(ret)
  <2>0. pc = "loop"
    BY <1>2 DEF StepBackward, StepForward
  <2>2. /\ \A i \in 1 .. k : ret[i] = Sample(args, i)
        /\ s = Sample(args, k + 1)
    BY <2>0 DEF IInv, LoopInv
  <2>3. k \in Nat /\ s \in Int
    BY <1>0, <2>2, LenProperties DEF Sample, Dir
  <2>1. /\ pc' = "loop" /\ args' = args
        /\ ret' = Append(ret, s) /\ Continue
        /\ s' = s + Dir(args) * Res(args)
    <3>1. args.res \in Int
      BY <1>0, ArgsFields
    <3>2. CASE StepBackward
      BY <2>3, <3>1, <3>2 DEF StepBackward, Dir, Res, AbsVal
    <3>3. CASE StepForward
      BY <2>3, <3>1, <3>3 DEF StepForward, Dir, Res, AbsVal
    <3>. QED
      BY <1>2, <3>2, <3>3
  <2>4. /\ Len(ret') = k + 1
        /\ \A i \in 1 .. k : ret'[i] = ret[i]
        /\ ret'[k + 1] = s
    BY <1>0, <2>1, <2>3, AppendProperties
  <2>5. \A i \in 1 .. Len(ret') : ret'[i] = Sample(args', i)
    BY <2>1, <2>2, <2>3, <2>4
  <2>6. s' = Sample(args', Len(ret') + 1)
    <3>1. Dir(args) \in {-1, 1}
      BY DEF Dir
    <3>2. (k + 1) * Res(args) = k * Res(args) + Res(args)
      BY <1>0, <2>3
    <3>3. Sample(args, k + 2) = Sample(args, k + 1) + Dir(args) * Res(args)
      <4>1. CASE Dir(args) = 1
        BY <1>0, <2>3, <3>2, <4>1 DEF Sample
      <4>2. CASE Dir(args) = -1
        BY <1>0, <2>3, <3>2, <4>2 DEF Sample
      <4>. QED
        BY <3>1, <4>1, <4>2
    <3>. QED
      BY <2>1, <2>2, <2>4, <3>3
  <2>7. IF Backward(args') THEN Sample(args', Len(ret')) > args'.end
                           ELSE Sample(args', Len(ret')) < args'.end
    BY <2>1, <2>2, <2>4 DEF Continue
  <2>. QED
    BY <1>0, <2>1, <2>5, <2>6, <2>7 DEF IInv, LoopInv
<1>3. CASE Finish
  <2>1. /\ pc = "loop" /\ pc' = "done" /\ args' = args
        /\ ret' = Append(ret, args.end) /\ ~Continue
    BY <1>3 DEF Finish
  <2>2. /\ \A i \in 1 .. Len(ret) : ret[i] = Sample(args, i)
        /\ s = Sample(args, Len(ret) + 1)
        /\ Len(ret) >= 1 => IF Backward(args) THEN Sample(args, Len(ret)) > args.end
                                               ELSE Sample(args, Len(ret)) < args.end
    BY <2>1 DEF IInv, LoopInv
  <2>3. IF Backward(args) THEN Sample(args, Len(ret) + 1) <= args.end
                          ELSE Sample(args, Len(ret) + 1) >= args.end
    BY <1>0, <2>1, <2>2, LenProperties DEF Continue, Sample, Dir
  <2>4. ret' = Abstract!Samples(args')
    BY <1>0, <2>1, <2>2, <2>3, FinishSamples
  <2>. QED
    BY <1>0, <2>1, <2>4 DEF IInv, LoopInv
<1>4. CASE Return
  BY <1>0, <1>4 DEF Return, IInv, LoopInv
<1>5. CASE UNCHANGED vars
  BY <1>0, <1>5 DEF vars, IInv, LoopInv
<1>. QED
  BY <1>1, <1>2, <1>3, <1>4, <1>5 DEF Next

\* Every step of the loop maps to a step of TrajectorySpec or a stutter.
LEMMA MapStep ==
    ASSUME 0 \notin Resolutions
    PROVE  IInv /\ IInv' /\ [Next]_vars => [Abstract!Next]_Abstract!vars
<1>. SUFFICES ASSUME IInv, IInv', [Next]_vars PROVE [Abstract!Next]_Abstract!vars
  OBVIOUS
<1>1. CASE Call
  <2>1. args' \in Args
    BY <1>1 DEF Call
  <2>. QED
    BY <1>1, <2>1 DEF Call, Abstract!Next, Abstract!Request, Abstract!Args, Args
<1>2. CASE StepBackward \/ StepForward
  BY <1>2 DEF StepBackward, StepForward, Abstract!vars
<1>3. CASE Finish
  <2>1. ret' = Abstract!Samples(args)
    BY <1>3 DEF Finish, IInv
  <2>. QED
    BY <1>3, <2>1 DEF Finish, Abstract!Next, Abstract!Respond
<1>4. CASE Return
  BY <1>4 DEF Return, Abstract!Next, Abstract!Return
<1>5. CASE UNCHANGED vars
  BY <1>5 DEF vars, Abstract!vars
<1>. QED
  BY <1>1, <1>2, <1>3, <1>4, <1>5 DEF Next

\* getTrajectory implements its specification (spec 4.3): every call
\* returns, as its vector of points, start_s followed by every |resolution|
\* short of end_s and end_s itself, for every non-zero resolution.  The
\* liveness half of ImplementsTrajectorySpec is left to TLC.
THEOREM TrajectoryRefinement ==
    ASSUME 0 \notin Resolutions
    PROVE  Spec => Abstract!Init /\ [][Abstract!Next]_Abstract!vars
<1>1. Init => Abstract!Init
  BY DEF Init, Abstract!Init, Abstract!Args, Args
<1>2. Spec => []IInv
  BY IInvInit, IInvStep, PTL DEF Spec
<1>. QED
  BY <1>1, <1>2, MapStep, PTL DEF Spec

=============================================================================
