------------------------------ MODULE QuotaMath ------------------------------
(***************************************************************************)
(* The arithmetic of the disk quota on int64 (internal/ufs/fs_quota.go,    *)
(* server/filesystem/quota_file.go, server/filesystem/disk_space.go).      *)
(* MaxInt stands for math.MaxInt64: what the operators compute is the same *)
(* for every width, and every + and - of the code wraps around.            *)
(***************************************************************************)
EXTENDS Integers

CONSTANT MaxInt

ASSUME MaxIntAssumption == MaxInt \in Nat /\ MaxInt > 0

MinInt == -MaxInt - 1
Int64 == MinInt .. MaxInt

\* The value an int64 holds after one addition, subtraction or negation.
Wrap(x) ==
    IF x > MaxInt THEN x - 2 * (MaxInt + 1)
    ELSE IF x < MinInt THEN x + 2 * (MaxInt + 1)
    ELSE x

\* Plausible mistakes: a subtraction that does not look at the usage, a sum
\* compared before it is known to fit, an end that is not checked.
AddUnclamped(usage, i) ==
    IF i > 0 /\ usage > Wrap(MaxInt - i) THEN MaxInt ELSE Wrap(usage + i)
CanFitRough(limit, usage, size) ==
    limit # -1 /\ (limit = 0 \/ usage = -1 \/ size <= 0 \/ Wrap(usage + size) <= limit)
WriteEndUnchecked(off, size) == size >= 0

AddResult(usage, i) ==
    IF i > 0 THEN IF usage > Wrap(MaxInt - i) THEN MaxInt ELSE Wrap(usage + i)
    ELSE IF i < 0 THEN IF i = MinInt \/ usage <= Wrap(-i) THEN 0 ELSE Wrap(usage + i)
    ELSE usage

\* A limit of -1 forbids writing, a limit of 0 is none, a usage of -1 is unknown.
CanFit(limit, usage, size) ==
    /\ limit # -1
    /\ \/ limit = 0
       \/ usage = -1
       \/ size <= 0
       \/ usage < limit /\ size <= Wrap(limit - usage)

\* HasSpaceAvailable on a volume that has headroom left.
HasSpace(limit, size) == limit = 0 \/ size <= limit

WriteEndFits(off, size) == ~ (size < 0 \/ off > Wrap(MaxInt - size))
WriteEnd(off, size) == Wrap(off + size)

\* Exact arithmetic, kept within what the counter can hold.
Clamp(x) == IF x < 0 THEN 0 ELSE IF x > MaxInt THEN MaxInt ELSE x

-----------------------------------------------------------------------------

\* Quota.Add computes the exact sum and clamps it to 0 .. MaxInt64: neither the
\* comparison, nor the negation of i, nor the sum itself overflows, for every
\* usage and every int64 amount, math.MinInt64 included.
AddSaturates ==
    \A usage \in 0 .. MaxInt, i \in Int64 : AddResult(usage, i) = Clamp(usage + i)

\* Under a positive limit Quota.CanFit admits a growth exactly when the sum
\* stays within the limit, and then Add after it does not saturate.
FitIsExact ==
    \A limit \in 1 .. MaxInt, usage \in 0 .. MaxInt, n \in 1 .. MaxInt :
        /\ CanFit(limit, usage, n) <=> usage + n <= limit
        /\ CanFit(limit, usage, n) => AddResult(usage, n) = usage + n

\* quotaWriteEnd accepts a write exactly when its end is an int64, and returns
\* that end without wrapping around.
WriteEndExact ==
    \A off \in 0 .. MaxInt, n \in Int64 :
        /\ WriteEndFits(off, n) <=> n >= 0 /\ off + n <= MaxInt
        /\ WriteEndFits(off, n) => WriteEnd(off, n) = off + n

=============================================================================
