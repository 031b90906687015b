----------------------------- MODULE MCAiTrader -----------------------------
EXTENDS AiTrader, TLC

Symmetry == Permutations(Procs) \cup Permutations(Codes)
=============================================================================
