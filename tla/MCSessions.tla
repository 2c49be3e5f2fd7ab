------------------------------ MODULE MCSessions ------------------------------
(* Instances of Sessions. Tabs, users and tokens are interchangeable in the *)
(* runs that check safety.                                                  *)
EXTENDS Sessions, TLC

Symmetry == Permutations(Tab) \cup Permutations(User) \cup Permutations(Token)
=============================================================================
