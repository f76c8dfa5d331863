------------------------- MODULE MCTObjectAuthScope -------------------------
(* Two sessions of one token and a single object with a wrapped auth are *)
(* enough for one session to borrow the other's context login.           *)
EXTENDS TObjectAuthScope, TLC

MCSymmetry == Permutations(Sessions)

=============================================================================
