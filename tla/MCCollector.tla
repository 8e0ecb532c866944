----------------------------- MODULE MCCollector -----------------------------
EXTENDS Collector, TLC

CONSTANTS a, b, c

\* Objects other than the main thread may change places.
Symmetry == Permutations(Objects \ {main})
=============================================================================
