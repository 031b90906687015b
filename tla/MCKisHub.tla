------------------------------ MODULE MCKisHub ------------------------------
EXTENDS KisHub, TLC

\* Codes, callers and hub threads are interchangeable; used by the runs that
\* check no temporal property.
Symmetry == Permutations(Codes) \cup Permutations(Callers) \cup Permutations(Hubs)
=============================================================================
