--------------------------- MODULE QuotaMathProofs ---------------------------
(***************************************************************************)
(* What the operators of the quota compute, for every width of the         *)
(* integers.                                                               *)
(***************************************************************************)
EXTENDS QuotaMath, TLAPS

\* Quota.Add clamps the exact sum, for every usage that is not negative.
LEMMA AddClamps ==
    ASSUME NEW u \in 0 .. MaxInt, NEW i \in Int64
    PROVE  AddResult(u, i) = Clamp(u + i)
<1> USE MaxIntAssumption DEF MinInt, Int64
<1>1. CASE i > 0
    <2>1. Wrap(MaxInt - i) = MaxInt - i
        BY <1>1 DEF Wrap
    <2> QED BY <1>1, <2>1 DEF AddResult, Clamp, Wrap
<1>2. CASE i < 0 /\ i # MinInt
    <2>1. Wrap(-i) = -i /\ Wrap(u + i) = u + i
        BY <1>2 DEF Wrap
    <2> QED BY <1>2, <2>1 DEF AddResult, Clamp
<1>3. CASE i = MinInt
    BY <1>3 DEF AddResult, Clamp
<1>4. CASE i = 0
    BY <1>4 DEF AddResult, Clamp
<1> QED BY <1>1, <1>2, <1>3, <1>4

\* Under a positive limit Quota.CanFit is the exact comparison.
LEMMA CanFitExact ==
    ASSUME NEW lim \in 1 .. MaxInt, NEW u \in 0 .. MaxInt, NEW n \in 1 .. MaxInt
    PROVE  CanFit(lim, u, n) <=> u + n <= lim
<1> USE MaxIntAssumption DEF MinInt
<1>1. Wrap(lim - u) = lim - u
    BY DEF Wrap
<1> QED BY <1>1 DEF CanFit

\* Quota.Add is the clamped exact sum for every usage and every int64 amount: no
\* step of it overflows.
THEOREM AddIsExact == AddSaturates
BY AddClamps DEF AddSaturates

\* Under a positive limit Quota.CanFit admits exactly the growths that stay
\* within it, and Quota.Add then adds them exactly.
THEOREM CanFitIsExact == FitIsExact
<1> SUFFICES ASSUME NEW limit \in 1 .. MaxInt, NEW usage \in 0 .. MaxInt,
                    NEW n \in 1 .. MaxInt
             PROVE  /\ CanFit(limit, usage, n) <=> usage + n <= limit
                    /\ CanFit(limit, usage, n) => AddResult(usage, n) = usage + n
    BY DEF FitIsExact
<1> USE MaxIntAssumption DEF Int64, MinInt
<1>1. CanFit(limit, usage, n) <=> usage + n <= limit
    BY CanFitExact
<1>2. AddResult(usage, n) = Clamp(usage + n)
    BY AddClamps
<1> QED BY <1>1, <1>2 DEF Clamp

\* quotaWriteEnd accepts exactly the writes whose end is an int64, and never
\* returns an end that wrapped around.
THEOREM WriteEndIsExact == WriteEndExact
BY MaxIntAssumption DEF WriteEndExact, WriteEndFits, WriteEnd, Wrap, Int64, MinInt

=============================================================================
