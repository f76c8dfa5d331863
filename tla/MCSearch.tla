------------------------------ MODULE MCSearch ------------------------------
EXTENDS Search, TLC

MCSymmetry == Permutations(Sessions) \cup Permutations(Labels)

=============================================================================
