----------------------------- MODULE MCLoading ------------------------------
(* Values for the constants of Loading: the file of every path in p has    *)
(* its number of chunks.                                                   *)
EXTENDS Loading

CONSTANTS p1, p2

Sizes(a, b) == [p \in Paths |-> IF p = p1 THEN a ELSE b]
NoneOne == Sizes(0, 1)
NoneTwo == Sizes(0, 2)
ThreeThree == Sizes(3, 3)

MCSymmetry == Permutations(Tracks) \union Permutations(Decks)
=============================================================================
