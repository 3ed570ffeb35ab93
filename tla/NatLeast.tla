------------------------------ MODULE NatLeast ------------------------------
(***************************************************************************)
(* The least-number principle, for the arguments about std::min_element   *)
(* and the other searches for a least distance: a non-empty set of         *)
(* natural numbers has a least element.  The well-founded induction        *)
(* library is instantiated locally, so that a module extending this one    *)
(* sees only the lemmas.  The principle stands in for induction over data *)
(* (whose library rules take an operator parameter): the running sums of  *)
(* a sequence exist, by a least counterexample.                           *)
(***************************************************************************)
EXTENDS Integers, Sequences, TLAPS

LOCAL INSTANCE WellFoundedInduction

\* A non-empty set of natural numbers has a least element.
LEMMA NatHasLeast ==
    ASSUME NEW S \in SUBSET Nat, S # {}
    PROVE  \E m \in S : \A y \in S : m <= y
\* The less-than relation on Nat, written as a set of pairs: the library
\* states its well-foundedness as OpToRel(<, Nat), which is that set.
<1>. DEFINE R == {ss \in Nat \X Nat : ss[1] < ss[2]}
<1>1. IsWellFoundedOn(R, Nat)
    <2>1. \E Q : IsWellFoundedOn(Q, Nat) /\ Q = R
        BY NatLessThanWellFounded, Zenon DEF OpToRel
    <2>. QED  BY <2>1, Zenon
<1>2. PICK m \in S : \A y \in S : ~(<<y, m>> \in R)
    <2>. HIDE DEF R
    <2>. QED  BY <1>1, WFMin, Zenon
<1>3. \A y \in S : ~(y < m)
    BY <1>2
<1>. QED  BY <1>3

\* The running sums of a sequence of integers exist as a function on
\* 0 .. Len(L): the least k for which no function on 0 .. k obeys the
\* recurrence cannot be 0, and the function for k - 1 extends to k.
LEMMA SumsExist ==
    ASSUME NEW L \in Seq(Int)
    PROVE  \E g : g = [j \in 0 .. Len(L) |-> IF j = 0 THEN 0 ELSE g[j - 1] + L[j]]
<1>. DEFINE n == Len(L)
            Prefix(g, k) == /\ g \in [0 .. k -> Int]
                            /\ \A j \in 0 .. k : g[j] = IF j = 0 THEN 0 ELSE g[j - 1] + L[j]
            Bad == {k \in 0 .. n : ~\E g : Prefix(g, k)}
<1>0. n \in Nat
    OBVIOUS
<1>1. Bad = {}
    <2>. SUFFICES ASSUME Bad # {} PROVE FALSE
        OBVIOUS
    <2>1. PICK m \in Bad : \A y \in Bad : m <= y
        <3>1. Bad \in SUBSET Nat
            BY <1>0 DEF Bad
        <3>. QED  BY <3>1, NatHasLeast
    <2>2. CASE m = 0
        <3>1. Prefix([j \in 0 .. 0 |-> 0], 0)
            BY DEF Prefix
        <3>. QED  BY <2>1, <2>2, <3>1 DEF Bad
    <2>3. CASE m # 0
        <3>0. m \in 1 .. n
            BY <1>0, <2>1, <2>3 DEF Bad
        <3>1. m - 1 \in 0 .. n /\ m - 1 \notin Bad
            <4>1. m - 1 \in 0 .. n /\ ~(m <= m - 1)
                BY <3>0
            <4>. QED  BY <4>1, <2>1
        <3>2. PICK g : Prefix(g, m - 1)
            BY <3>1 DEF Bad
        <3>. DEFINE h == [j \in 0 .. m |-> IF j = m THEN g[m - 1] + L[m] ELSE g[j]]
        <3>3. m \in 1 .. n
            BY <1>0, <2>1, <2>3 DEF Bad
        <3>4. L[m] \in Int
            BY <3>3
        <3>5. Prefix(h, m)
            BY <3>2, <3>3, <3>4 DEF Prefix
        <3>. QED  BY <2>1, <3>3, <3>5 DEF Bad
    <2>. QED  BY <2>2, <2>3
<1>2. PICK g : Prefix(g, n)
    <2>1. n \in 0 .. n
        BY <1>0
    <2>2. n \notin Bad
        BY <1>1
    <2>. QED  BY <2>1, <2>2, Zenon DEF Bad
<1>3. g = [j \in 0 .. n |-> IF j = 0 THEN 0 ELSE g[j - 1] + L[j]]
    BY <1>2 DEF Prefix
<1>. QED  BY <1>3
=============================================================================
