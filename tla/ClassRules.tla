------------------------------ MODULE ClassRules ------------------------------
(***************************************************************************)
(* The level-up rules of the twelve SRD classes, as the generated tables   *)
(* frontend/src/rules/generated/levelUpRules.ts (levels, spellcasting,     *)
(* class choices) and characterCreationRules.ts (the class choices only    *)
(* character creation knew) hold them for levels 1 to 5. The client merges *)
(* the two lists of choices (level-up/stateMachine.ts, canonicalClasses).  *)
(* Names, summaries, spell lists, slots and the options of a choice are    *)
(* abstracted: a choice has options, has none (a written note is the only  *)
(* answer) or takes them from the proficient skills on the sheet.          *)
(***************************************************************************)
EXTENDS Integers, Sequences

Level == 1 .. 5
Null  == -1   \* a count the table leaves null
Whole == 9    \* a choice recorded as a whole: by a note, or by the feature of the same name

(* n selections at every level since "from".                               *)
Since(from, n) == [l \in Level |-> IF l < from THEN 0 ELSE n]

ClassChoice(id, from, counts, options, manual) ==
  [id |-> id, from |-> from, counts |-> counts, options |-> options, manual |-> manual,
   subclass |-> FALSE,    \* it belongs to the SRD subclass
   creation |-> FALSE,    \* only the table of character creation has it
   featured |-> FALSE]    \* a class feature has the id of the choice

SubclassChoice(id, from, n) ==
  [ClassChoice(id, from, Since(from, n), "some", FALSE) EXCEPT !.subclass = TRUE, !.creation = TRUE]

FeatureChoice(id, from) ==
  [ClassChoice(id, from, Since(from, 1), "some", TRUE) EXCEPT !.featured = TRUE]

(* The progression of a spellcaster, whose first level with spells is      *)
(* "since"; "halved" is the Paladin's formula for prepared spells.         *)
Casting(mode, since, cantripsKnown, spellsKnown) ==
  [mode |-> mode, since |-> since, cantripsKnown |-> cantripsKnown, spellsKnown |-> spellsKnown,
   halved |-> FALSE]
NoCasting == Casting("none", 6, Since(1, Null), Since(1, Null))
PreparedCasting(cantripsKnown) == Casting("prepared", 1, cantripsKnown, Since(1, Null))

(* A class: the subclass's spells that are always prepared and the ones it *)
(* adds to the class list start at alwaysFrom and expandedFrom.            *)
Class(hitDie, average, decides, casting, choices) ==
  [hitDie |-> hitDie, fixedAverageHp |-> average, subclassDecisionLevel |-> decides,
   spellcasting |-> casting, choices |-> choices, alwaysFrom |-> 6, expandedFrom |-> 6]

Barbarian == Class(12, 7, 3, NoCasting, <<>>)

BardChoices == << ClassChoice("bard-expertise", 3, Since(3, 2), "skills", TRUE) >>
LoreChoice  == SubclassChoice("college-of-lore-bonus-proficiencies", 3, 3)
BardCasting == Casting("known", 1, <<2, 2, 2, 3, 3>>, <<4, 5, 6, 7, 8>>)
Bard == Class(8, 5, 3, BardCasting, BardChoices \o << LoreChoice >>)

ClericCasting == PreparedCasting(<<3, 3, 3, 4, 4>>)
Cleric == [Class(8, 5, 1, ClericCasting, <<>>) EXCEPT !.alwaysFrom = 1]

(* The Circle's spells also need the terrain: see AlwaysPrepares.          *)
DruidChoices == << ClassChoice("druid-land-circle", 3, Since(3, 1), "some", TRUE) >>
LandChoice   == SubclassChoice("circle-of-the-land-bonus-cantrip", 2, 1)
DruidCasting == PreparedCasting(<<2, 2, 2, 3, 3>>)
Druid == [Class(8, 5, 2, DruidCasting, DruidChoices \o << LandChoice >>) EXCEPT !.alwaysFrom = 3]

FighterChoices == << FeatureChoice("fighter-fighting-style", 1) >>
Fighter == Class(10, 6, 3, NoCasting, FighterChoices)

Monk == Class(8, 5, 3, NoCasting, <<>>)

PaladinChoices == << FeatureChoice("paladin-fighting-style", 2) >>
PaladinCasting == [Casting("prepared", 2, Since(1, Null), Since(1, Null)) EXCEPT !.halved = TRUE]
Paladin == [Class(10, 6, 3, PaladinCasting, PaladinChoices) EXCEPT !.alwaysFrom = 3]

RangerChoices ==
  << ClassChoice("ranger-favored-enemy", 1, Since(1, 1), "none", TRUE),
     ClassChoice("ranger-natural-explorer", 1, Since(1, 1), "none", TRUE),
     FeatureChoice("ranger-fighting-style", 2) >>
HunterChoice == SubclassChoice("hunter-hunters-prey", 3, 1)
RangerCasting == Casting("known", 2, Since(1, Null), <<Null, 2, 3, 3, 4>>)
Ranger == Class(10, 6, 3, RangerCasting, RangerChoices \o << HunterChoice >>)

RogueChoices == << ClassChoice("rogue-expertise", 1, Since(1, 2), "skills", FALSE) >>
Rogue == Class(8, 5, 3, NoCasting, RogueChoices)

SorcererChoices == << ClassChoice("sorcerer-metamagic", 3, Since(3, 2), "some", TRUE) >>
DraconicChoice  == SubclassChoice("draconic-ancestor", 1, 1)
SorcererCasting == Casting("known", 1, <<4, 4, 4, 5, 5>>, <<2, 3, 4, 5, 6>>)
Sorcerer == Class(6, 4, 1, SorcererCasting, SorcererChoices \o << DraconicChoice >>)

Invocations == "warlock-eldritch-invocations"
PactBoon    == "warlock-pact-boon"
WarlockChoices ==
  << ClassChoice(Invocations, 2, <<0, 2, 2, 2, 3>>, "some", TRUE),
     ClassChoice(PactBoon, 3, Since(3, 1), "some", TRUE) >>
WarlockCasting == Casting("pact-known", 1, <<2, 2, 2, 3, 3>>, <<2, 3, 4, 5, 6>>)
Warlock == [Class(8, 5, 1, WarlockCasting, WarlockChoices) EXCEPT !.expandedFrom = 1]

WizardCasting == Casting("spellbook-prepared", 1, <<3, 3, 3, 4, 4>>, Since(1, Null))
Wizard == Class(6, 4, 2, WizardCasting, <<>>)

(* The canonical classes by their index.                                   *)
Classes ==
  [barbarian |-> Barbarian, bard |-> Bard, cleric |-> Cleric, druid |-> Druid, fighter |-> Fighter,
   monk |-> Monk, paladin |-> Paladin, ranger |-> Ranger, rogue |-> Rogue, sorcerer |-> Sorcerer,
   warlock |-> Warlock, wizard |-> Wizard]

ChoicesOf(c) == { Classes[c].choices[i] : i \in DOMAIN Classes[c].choices }
Casts(c, l) == l >= Classes[c].spellcasting.since
KnowsSpells(c) == Classes[c].spellcasting.mode \in {"known", "pact-known"}
PreparesSpells(c) == Classes[c].spellcasting.mode \in {"prepared", "spellbook-prepared"}

(* One spell may be replaced at a level-up, from the second level with     *)
(* known spells on.                                                        *)
ReplacementLimit(c, l) == IF KnowsSpells(c) /\ l > Classes[c].spellcasting.since THEN 1 ELSE 0

SpellbookSize(l) == 6 + 2 * (l - 1)
SpellbookAdditions == 2
ImprovementLevel == 4   \* the only target level with an Ability Score Improvement

AtLeast(bound, n) == IF n < bound THEN bound ELSE n
AtMost(bound, n)  == IF n > bound THEN bound ELSE n

AbilityModifier(score) == (score - 10) \div 2

PreparedSpellCount(c, score, l) ==
  AtLeast(1, AbilityModifier(score) + (IF Classes[c].spellcasting.halved THEN l \div 2 ELSE l))

-----------------------------------------------------------------------------
(* What the tables have in common, computed from them: a class's choices   *)
(* have ids of their own, ask for something from their first level on and  *)
(* never for less later; a choice of the subclass is character creation's; *)
(* what has no options can be written. Only the Wizard has a spellbook.    *)
Spellcasting ==
  [mode : {"none", "known", "pact-known", "prepared", "spellbook-prepared"}, since : 1 .. 6,
   cantripsKnown : [Level -> Nat \cup {Null}], spellsKnown : [Level -> Nat \cup {Null}], halved : BOOLEAN]
Choice ==
  [id : STRING, from : Level, counts : [Level -> 0 .. 5], options : {"some", "none", "skills"},
   manual : BOOLEAN, subclass : BOOLEAN, creation : BOOLEAN, featured : BOOLEAN]

ASSUME ClassAssumption ==
  \A c \in DOMAIN Classes :
    /\ Classes[c].hitDie \in 6 .. 12 /\ Classes[c].fixedAverageHp \in 1 .. Classes[c].hitDie
    /\ Classes[c].subclassDecisionLevel \in 1 .. 3
    /\ Classes[c].alwaysFrom \in 1 .. 6 /\ Classes[c].expandedFrom \in 1 .. 6
    /\ Classes[c].spellcasting \in Spellcasting
    /\ ~PreparesSpells(c) => Classes[c].alwaysFrom = 6
    /\ Classes[c].spellcasting.mode = "none" => Classes[c].spellcasting.since = 6
    /\ Classes[c].spellcasting.mode = "spellbook-prepared" <=> c = "wizard"
    /\ c = "wizard" => Casts(c, 1)
    /\ c = "sorcerer" => Classes[c].subclassDecisionLevel = 1
    /\ c = "druid" => LandChoice \in ChoicesOf(c)
ASSUME ChoicesAssumption ==
  \A c \in DOMAIN Classes : \A x \in ChoicesOf(c) :
    /\ x \in Choice
    /\ \A y \in ChoicesOf(c) : x.id = y.id => x = y
    /\ \A l, m \in Level : l <= m => x.counts[l] <= x.counts[m]
    /\ \A l \in Level : x.from <= l => x.counts[l] > 0
    /\ x.subclass => x.creation
    /\ x.options = "none" => x.manual
=============================================================================
