---------------------------- MODULE MCSweepLoop ----------------------------
EXTENDS SweepLoop

Lifetimes == {-1, 0, 2}
=============================================================================
