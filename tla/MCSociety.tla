------------------------------- MODULE MCSociety -------------------------------
(* An instance of Society for TLC: one house, three players who trade two containers *)
(* and form parties, three clients of one character.                                *)
EXTENDS Society, TLC

CONSTANTS c1, c2, h1

MCHouseMap == <<h1>>

\* Players are interchangeable, and so are clients: two of them, since comparing states up
\* to all permutations of three costs more than it saves.
Symmetry == Permutations(Players) \union Permutations({c1, c2})
================================================================================
