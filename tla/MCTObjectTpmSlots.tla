------------------------- MODULE MCTObjectTpmSlots -------------------------
EXTENDS TObjectTpmSlots, TLC

MCSymmetry == Permutations(Sessions) \cup Permutations(Objects)

=============================================================================
