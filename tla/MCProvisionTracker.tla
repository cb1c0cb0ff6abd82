------------------------- MODULE MCProvisionTracker -------------------------
(* ProvisionTracker on small sets, for TLC.                                *)
EXTENDS ProvisionTracker, TLC

Symmetry == Permutations(Macs) \cup Permutations(Threads) \cup Permutations(Objects)

=============================================================================
