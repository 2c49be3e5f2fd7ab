------------------------- MODULE MCCharacterCreation -------------------------
(* Small scopes that together reach every action: see the README.          *)
EXTENDS CharacterCreation, SpellLists

Scope(source, races, classes, levels) ==
  [asks |-> FALSE, source |-> source, build |-> Strength, races |-> races, classes |-> classes, levels |-> levels,
   scores |-> [a \in {} |-> {}], raised |-> {}, rolls |-> {}, modes |-> {}, items |-> {},
   overrides |-> {}, spells |-> "untouched", imports |-> FALSE, attacks |-> FALSE]

Unarmored ==
  [Scope("guided", {"dwarf", "hill_dwarf"}, {"barbarian", "monk"}, {1, 5}) EXCEPT
     !.modes = {"armor", "unarmored", "manual"}, !.items = {"leather_armor", Shield}]
HalfElfRogue ==
  [Scope("guided", {"half_elf"}, {"rogue"}, {4}) EXCEPT !.raised = {"strength", "dexterity"}]
Bookish ==
  [Scope("guided", {"high_elf"}, {"wizard"}, {1, 2}) EXCEPT
     !.scores = [intelligence |-> {31}], !.spells = "varied"]
Improved ==
  [Scope("guided", {"tiefling"}, {"cleric"}, {4}) EXCEPT
     !.raised = {"wisdom", "strength"}, !.spells = "plain", !.imports = TRUE]
Preparing ==
  [Scope("guided", {"rock_gnome"}, {"cleric", "paladin"}, {1, 2, 3}) EXCEPT
     !.scores = [strength |-> {0, 30}], !.spells = "varied"]
Forest ==
  [Scope("guided", {"high_elf"}, {"druid"}, {3}) EXCEPT !.spells = "varied"]
Draconic ==
  [Scope("guided", {"lightfoot_halfling"}, {"sorcerer", "fighter"}, {1}) EXCEPT
     !.modes = {"unarmored"}, !.items = {"chain_mail"}, !.spells = "varied"]
Traded ==
  [Scope("guided", {}, {"sorcerer", "warlock"}, {1, 2}) EXCEPT !.spells = "varied"]
Pact ==
  [Scope("guided", {"dragonborn"}, {"warlock"}, {3, 5}) EXCEPT !.raised = {"charisma"}]
Tome ==
  [Scope("guided", {}, {"warlock"}, {3}) EXCEPT !.spells = "plain"]
Known ==
  [Scope("guided", {"gnome", "elf"}, {"bard", "ranger"}, {1, 2}) EXCEPT
     !.spells = "varied", !.attacks = TRUE]
Transferred ==
  [Scope("manual-transfer", {"manual", "half_orc"}, {"manual", "fighter"}, {1, 2}) EXCEPT
     !.scores = [wisdom |-> {30}], !.overrides = {"maximum", "speed"}, !.imports = TRUE,
     !.rolls = {21}]
Foreign ==
  [Scope("manual-transfer", {"half_orc", "high_elf", "human"}, {"manual"}, {2}) EXCEPT
     !.scores = [strength |-> {30}], !.overrides = {"maximum"}, !.imports = TRUE,
     !.modes = {"armor", "unarmored"}, !.items = {"leather_armor"}]
Burdened ==
  [Scope("guided", {"hill_dwarf"}, {"sorcerer"}, {2}) EXCEPT
     !.scores = [strength |-> {8}, constitution |-> {1}], !.rolls = {1, 9},
     !.spells = "plain"]
Archer ==
  [Scope("guided", {"half_orc"}, {}, {2}) EXCEPT !.build = Dexterity, !.items = {"leather_armor"}]
Asking == [Scope("guided", {}, {}, {}) EXCEPT !.asks = TRUE]
MCScopes ==
  {Asking, Archer, Unarmored, HalfElfRogue, Bookish, Improved, Preparing, Forest, Draconic, Traded, Pact, Tome, Known, Transferred, Foreign, Burdened}
=============================================================================
