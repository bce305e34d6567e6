----------------------------- MODULE MCDiskQuota -----------------------------
(* The goroutines of the instances, and the files they work on.             *)
EXTENDS DiskQuota

CONSTANTS s1, s2, u1, u2, c1, r1, d1, b1, f1, f2, f3, f4

\* The first goroutine of a kind has f1, the second f2, a deletion f3, a copy f4.
Apart == [a \in FileOps |-> CASE a = d1 -> f3 [] a = c1 -> f4 [] a \in {s2, u2} -> f2 [] OTHER -> f1]

\* Everyone has f1, but copies and archives are files of their own.
Together == [a \in FileOps |-> IF a \in {c1, r1} THEN f2 ELSE f1]

\* A copy reads f1.
CopyOfFirst == [a \in Copies |-> f1]

=============================================================================
