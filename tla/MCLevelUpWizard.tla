--------------------------- MODULE MCLevelUpWizard ---------------------------
(* The wizard on every sheet of every class.                               *)
EXTENDS LevelUpWizard

MCSubjects == UNION { Sheets(c) : c \in DOMAIN Classes }
=============================================================================
