----------------------------- MODULE MCPartyPages -----------------------------
(* Two users, each with a character, and one tab, which either of them     *)
(* signs in to.                                                            *)
EXTENDS PartyPages, TLC

CONSTANTS gm, player, c1, c2

MCUser == {gm, player}
MCCharacter == {c1, c2}
MCOwner == [c \in MCCharacter |-> IF c = c2 THEN gm ELSE player]
MCTimes == {0}

(* No constant tells the Parties, the credentials or the slots apart.      *)
Symmetry ==
  Permutations(Party) \cup Permutations(Code) \cup Permutations(Slot) \cup Permutations(Write)
=============================================================================
