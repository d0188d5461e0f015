-------------------------------- MODULE MCWorld --------------------------------
(* An instance of World for TLC.                                                *)
EXTENDS World, TLC

CONSTANTS b1, b2, depot, w1, w2, g1, g2, s3, s4, d1

\* Creatures: no monster and no spot is special.
Symmetry ==
  Permutations(Monsters) \union Permutations(Spots)

\* Cylinders: a bag of two places, a bag and a depot of one.
MCRoom == b1 :> 2 @@ b2 :> 1 @@ depot :> 1

\* ClientView: two tiles with ground, on the second of which w1 stands; there splashes are made
\* that replace each other, and something is put down that blocks the path as one of them does.
MCKind == g1 :> "ground" @@ g2 :> "ground" @@ s3 :> "splash" @@ s4 :> "splash" @@ d1 :> "down"
MCOrder == [i \in Items |-> 1]
MCProps == [i \in Items |-> IF i = s3 THEN {"splash", "path"} ELSE IF i = d1 THEN {"path"} ELSE {}]
MCLay == <<{}, {s3, s4, d1}>>
MCFloor == <<g1, g2>>
MCThere == <<<<>>, <<w1>>>>
================================================================================
