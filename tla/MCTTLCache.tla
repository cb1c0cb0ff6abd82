----------------------------- MODULE MCTTLCache -----------------------------
EXTENDS TTLCache, TLC

Symmetry == Permutations(Threads) \cup Permutations(Keys)
=============================================================================
