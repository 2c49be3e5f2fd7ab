----------------------------- MODULE MCInviteFlow -----------------------------
(* Two links, a code, and two requests under way.                        *)
EXTENDS InviteFlow, TLC

Symmetry == Permutations(Call) \cup Permutations(Token)
=============================================================================
