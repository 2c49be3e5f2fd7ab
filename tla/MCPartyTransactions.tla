------------------------ MODULE MCPartyTransactions ------------------------
(* The player owns both characters; the GM owns none, so a GM who tries to *)
(* join is refused. Two open transactions meet in every order.             *)
EXTENDS PartyTransactions, TLC

CONSTANTS gm, player, c1, c2

MCUser == {gm, player}
MCCharacter == {c1, c2}
MCOwner == [c \in MCCharacter |-> player]
MCTimes == 0 .. MaxTime

(* Parties, credentials, transactions and the player's two characters are  *)
(* interchangeable.                                                        *)
Symmetry == Permutations(Party) \cup Permutations(Code) \cup Permutations(Txn)
            \cup Permutations(MCCharacter)
=============================================================================
