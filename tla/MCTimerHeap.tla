----------------------------- MODULE MCTimerHeap -----------------------------
EXTENDS TimerHeap
MCDues == 0 .. 3
=============================================================================
