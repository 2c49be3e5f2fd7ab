---------------------------- MODULE CreationRules ----------------------------
(***************************************************************************)
(* What character creation takes from the generated tables beside the      *)
(* class progressions of ClassRules (characterCreationRules.ts,            *)
(* levelUpRules.ts): the races with their ability bonuses and choices, the *)
(* options of every choice, the Ability Score Improvement, the abilities   *)
(* spells are cast with and the spells that a choice or a subclass grants. *)
(*                                                                         *)
(* An option is the tuple of what it means to the checks: the abilities it *)
(* raises, a language, a cantrip, a terrain, a boon. The options of a      *)
(* choice that nothing else refers to are interchangeable: only as many    *)
(* are kept as can be selected.                                            *)
(***************************************************************************)
EXTENDS ClassRules, ArrayFilter, FiniteSets, SequencesExt

AbilityOrder ==
  << "strength", "dexterity", "constitution", "intelligence", "wisdom", "charisma" >>
Abilities == ToSet(AbilityOrder)

Scores(str, dex, con, int, wis, cha) ==
  [strength |-> str, dexterity |-> dex, constitution |-> con,
   intelligence |-> int, wisdom |-> wis, charisma |-> cha]

SumOverLevels(f) == f[1] + f[2] + f[3] + f[4] + f[5]

Plain(n) == SubSeq(<< <<"first">>, <<"second">>, <<"third">> >>, 1, n)

------------------------------------------------------------------------------
(* Races. A subrace is a race of its own with the bonuses and choices of   *)
(* both. "languages" are the race's, which an extra language may not       *)
(* repeat; they are kept only where the table bounds a choice by them.     *)
RaceChoice(id, count, options) == [id |-> id, count |-> count, options |-> options]

Race(bonuses, choices) ==
  [bonuses |-> bonuses, choices |-> choices, subraces |-> FALSE, languages |-> {}]

NeedsSubrace(race) == [race EXCEPT !.subraces = TRUE]

Dragonborn == Race(Scores(2, 0, 0, 0, 0, 1), {RaceChoice("dragonborn-draconic-ancestry", 1, Plain(1))})
Dwarf      == NeedsSubrace(Race(Scores(0, 0, 2, 0, 0, 0), {RaceChoice("dwarf-tool-proficiency", 1, Plain(1))}))
HillDwarf  == Race(Scores(0, 0, 2, 0, 1, 0), Dwarf.choices)
Elf        == NeedsSubrace(Race(Scores(0, 2, 0, 0, 0, 0), {}))
HighElfCantrip  == "high-elf-cantrip"
HighElfLanguage == "high-elf-extra-language"
HighElf ==
  [Race(Scores(0, 2, 0, 1, 0, 0),
        {RaceChoice(HighElfCantrip, 1, << <<"mending">>, <<"first">> >>),
         RaceChoice(HighElfLanguage, 1, << <<"elvish">>, <<"first">> >>)})
     EXCEPT !.languages = {<<"common">>, <<"elvish">>}]
Gnome     == NeedsSubrace(Race(Scores(0, 0, 0, 2, 0, 0), {}))
RockGnome == Race(Scores(0, 0, 1, 2, 0, 0), {})
HalfElfAbilities == "half-elf-ability-bonuses"
HalfElf ==
  Race(Scores(0, 0, 0, 0, 0, 2),
       {RaceChoice(HalfElfAbilities, 2,
          << <<"constitution">>, <<"dexterity">>, <<"intelligence">>, <<"strength">>, <<"wisdom">> >>),
        RaceChoice("half-elf-language", 1, Plain(1)),
        RaceChoice("half-elf-skill-versatility", 2, Plain(2))})
HalfOrc  == Race(Scores(2, 0, 1, 0, 0, 0), {})
Halfling == NeedsSubrace(Race(Scores(0, 2, 0, 0, 0, 0), {}))
Lightfoot == Race(Scores(0, 2, 0, 0, 0, 1), {})
Human    == Race(Scores(1, 1, 1, 1, 1, 1), {RaceChoice("human-extra-language", 1, Plain(1))})
Tiefling == Race(Scores(0, 0, 0, 1, 0, 2), {})

(* The races by the value of their option in the form.                     *)
Races ==
  [dragonborn |-> Dragonborn, dwarf |-> Dwarf, hill_dwarf |-> HillDwarf, elf |-> Elf,
   high_elf |-> HighElf, gnome |-> Gnome, rock_gnome |-> RockGnome, half_elf |-> HalfElf,
   half_orc |-> HalfOrc, halfling |-> Halfling, lightfoot_halfling |-> Lightfoot,
   human |-> Human, tiefling |-> Tiefling]

------------------------------------------------------------------------------
(* The choices of a class with their options. minimumLevel and             *)
(* requiredFeatureIndexes of the two options the model tells apart are     *)
(* Prerequisite below.                                                     *)
LandCircle  == "druid-land-circle"
LandCantrip == "circle-of-the-land-bonus-cantrip"
Styles      == {"fighter-fighting-style", "paladin-fighting-style", "ranger-fighting-style"}

OptionsOf(choice) ==
  CASE choice.options = "none"   -> <<>>
    [] choice.id = LandCircle    -> << <<"forest">>, <<"first">> >>
    [] choice.id = LandCantrip   -> << <<"mending">>, <<"first">> >>
    [] choice.id = PactBoon      -> << <<"tome">>, <<"first">> >>
    [] choice.id = Invocations   -> << <<"first">>, <<"second">>, <<"book">>, <<"mire">> >>
    [] choice.id \in Styles      -> << <<"defense">>, <<"first">> >>
    [] OTHER                     -> Plain(choice.counts[5])

(* The levels and the selected options an option requires.                 *)
Prerequisite(choice, option) ==
  CASE choice.id = Invocations /\ option = <<"mire">> -> [level |-> 5, options |-> {}]
    [] choice.id = Invocations /\ option = <<"book">> -> [level |-> 1, options |-> {<<"tome">>}]
    [] OTHER                                          -> [level |-> 1, options |-> {}]

ImprovementId ==
  [barbarian |-> "barbarian-ability-score-improvement-1", bard |-> "bard-ability-score-improvement-1",
   cleric    |-> "cleric-ability-score-improvement-1",    druid |-> "druid-ability-score-improvement-1",
   fighter   |-> "fighter-ability-score-improvement-1",   monk |-> "monk-ability-score-improvement-1",
   paladin   |-> "paladin-ability-score-improvement-1",   ranger |-> "ranger-ability-score-improvement-1",
   rogue     |-> "rogue-ability-score-improvement-1",     sorcerer |-> "sorcerer-ability-score-improvement-1",
   warlock   |-> "warlock-ability-score-improvement-1",   wizard |-> "wizard-ability-score-improvement-1"]

(* "+2", the fifteen pairs of "+1" and the one feat.                       *)
ImprovementOptions ==
  [i \in 1 .. 6 |-> << AbilityOrder[i], AbilityOrder[i] >>]
    \o FlattenSeq([i \in 1 .. 5 |-> [k \in 1 .. 6 - i |-> << AbilityOrder[i], AbilityOrder[i + k] >>]])
    \o << <<"grappler">> >>

RaisedBy(option, ability) == Cardinality({ i \in DOMAIN option : option[i] = ability })

ChoiceWithOptions(choice) ==
  [id |-> choice.id, from |-> choice.from, counts |-> choice.counts, options |-> OptionsOf(choice),
   manual |-> choice.manual, subclass |-> choice.subclass]

ImprovementChoice(c) ==
  [id |-> ImprovementId[c], from |-> ImprovementLevel, counts |-> Since(ImprovementLevel, 1),
   options |-> ImprovementOptions, manual |-> FALSE, subclass |-> FALSE]

CreationChoices ==
  [c \in DOMAIN Classes |-> { ChoiceWithOptions(choice) : choice \in ChoicesOf(c) } \cup {ImprovementChoice(c)}]

------------------------------------------------------------------------------
(* Spells. A class casts with one ability; "mending" is the cantrip that   *)
(* both the High Elf and the Circle of the Land can grant; one spell of a  *)
(* class's list becomes always prepared with its subclass.                 *)
CastingAbility ==
  [bard |-> "charisma", cleric |-> "wisdom", druid |-> "wisdom", paladin |-> "charisma",
   ranger |-> "wisdom", sorcerer |-> "charisma", warlock |-> "charisma", wizard |-> "intelligence"]

MendingClasses == {"bard", "cleric", "druid", "sorcerer", "wizard"}

(* The level from which bless, barkskin and protection from evil and good  *)
(* are on the list of what the class can prepare.                          *)
ListedFrom == [cleric |-> 1, druid |-> 3, paladin |-> 2]

CountAt(counts, l) == IF counts[l] = Null THEN 0 ELSE counts[l]
CantripsKnown(c, l) == CountAt(Classes[c].spellcasting.cantripsKnown, l)
SpellsKnown(c, l)   == CountAt(Classes[c].spellcasting.spellsKnown, l)

------------------------------------------------------------------------------
(* Equipment: two armors and the one shield of the table.                  *)
Armors == {"chain_mail", "leather_armor"}
Shield == "shield"
Items  == Armors \cup {Shield}

------------------------------------------------------------------------------
(* What the tables have in common, computed from them. No two choices that *)
(* a character can meet have the same id, what a choice offers is offered  *)
(* once, and the only option that another one requires is alone in its     *)
(* choice; without its prerequisites an option list is never empty. A      *)
(* choice that has no options in one class is a note in every class.       *)
Option        == Seq(STRING)
PactOfTheTome == <<"tome">>
ForestLand    == <<"forest">>

ASSUME RaceAssumption ==
  /\ {"none", "manual"} \cap DOMAIN Races = {}
  /\ \A race \in DOMAIN Races :
       /\ \A a \in Abilities : Races[race].bonuses[a] \in 0 .. 2
       /\ \A x \in Races[race].choices :
            /\ x.id \in STRING /\ x.count \in 1 .. 2
            /\ x.options \in Seq(Option) /\ IsInjective(x.options)
            /\ {PactOfTheTome, ForestLand} \cap ToSet(x.options) = {}
            /\ x.id = HighElfCantrip => x.count = 1
            /\ x.id # LandCantrip
            /\ \A y \in Races[race].choices : x.id = y.id => x = y
            /\ \A c \in DOMAIN Classes : \A y \in CreationChoices[c] : x.id # y.id
ASSUME CreationAssumption ==
  /\ {"none", "manual"} \cap DOMAIN Classes = {}
  /\ \A c \in DOMAIN Classes : \A x \in CreationChoices[c] :
       /\ x.id \in STRING /\ x.from \in Level /\ x.counts \in [Level -> 0 .. 5]
       /\ \A l \in Level : x.from <= l => x.counts[l] > 0
       /\ x.options \in Seq(Option) /\ IsInjective(x.options)
       /\ x.manual \in BOOLEAN /\ x.subclass \in BOOLEAN
       /\ PactOfTheTome \in ToSet(x.options) => x.id = PactBoon
       /\ ForestLand \in ToSet(x.options) => x.id = LandCircle
       /\ x.id \in {PactBoon, LandCantrip} => \A l \in Level : x.counts[l] <= 1
       /\ x.id # HighElfCantrip
       /\ \A y \in CreationChoices[c] : x.id = y.id => x = y
ASSUME PrerequisiteAssumption ==
  \A c \in DOMAIN Classes : \A x \in CreationChoices[c] :
    /\ \A option \in ToSet(x.options) :
         Prerequisite(x, option).level \in Level /\ Prerequisite(x, option).options \subseteq {PactOfTheTome}
    /\ x.id = PactBoon => /\ PactOfTheTome \in ToSet(x.options)
                          /\ Prerequisite(x, PactOfTheTome).level = 1
                          /\ Prerequisite(x, PactOfTheTome).options = {}
    /\ x.options # <<>> => \E option \in ToSet(x.options) : /\ Prerequisite(x, option).level = 1
                                                          /\ Prerequisite(x, option).options = {}
    /\ x.options = <<>> => \A e \in DOMAIN Classes : \A y \in CreationChoices[e] :
                             x.id = y.id => y.manual
ASSUME CastingAssumption ==
  \A c \in DOMAIN Classes :
    /\ ImprovementId[c] \notin { x.id : x \in ChoicesOf(c) }
    /\ Classes[c].spellcasting.mode # "none" => CastingAbility[c] \in Abilities
    /\ \A l \in Level : ~Casts(c, l) => SpellsKnown(c, l) = 0
=============================================================================
