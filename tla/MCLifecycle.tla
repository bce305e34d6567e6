---------------------------- MODULE MCLifecycle ----------------------------
EXTENDS Lifecycle

CONSTANTS p1, i1, i2, r1, r2, d1, y1

=============================================================================
