----------------------------- MODULE MCTObject -----------------------------
(* Model-checking instance of TObject: two sessions and two tobject slots *)
(* are enough for two users of one object racing a third call (destroy, *)
(* logout) and for a second object to be created and loaded meanwhile.   *)
EXTENDS TObject, TLC

MCSymmetry == Permutations(Sessions) \cup Permutations(Objects)

=============================================================================
