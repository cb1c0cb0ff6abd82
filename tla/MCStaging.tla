----------------------------- MODULE MCStaging -----------------------------
EXTENDS Staging, TLC

Symmetry ==
    Permutations(Threads) \cup Permutations(Firmware)
      \cup Permutations(Targets) \cup Permutations(Temps)
=============================================================================
