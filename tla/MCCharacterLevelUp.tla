-------------------------- MODULE MCCharacterLevelUp --------------------------
(* Two tabs of one owner and two requests under way.                       *)
EXTENDS CharacterLevelUp, TLC

Symmetry == Permutations(Tab) \cup Permutations(Call)
=============================================================================
