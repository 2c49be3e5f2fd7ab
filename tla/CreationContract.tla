-------------------------- MODULE CreationContract ---------------------------
(***************************************************************************)
(* The client's own contract of a request to create a character            *)
(* (characters/characterSheetV2Validation.ts) and the sheet it builds of   *)
(* it (characterSheetV2Calculations.ts, characterSheetV2SpellProgression   *)
(* .ts). A request is the draft it was made of; a failure of either is all *)
(* the form tells the user when its own field checks find nothing.         *)
(***************************************************************************)
EXTENDS CreationDraft

TypedScores(r) == IF r.mode = "calculated" THEN r.base ELSE r.imported
ScoresInBounds(scores) == \A a \in Abilities : scores[a] \in 1 .. 30

(* Rule choices. The build repeats the check without requireComplete and,  *)
(* for a manual race, with the human's table.                              *)
RaceChoicesOf(race) == IF race \in DOMAIN Races THEN Races[race].choices ELSE {}
ClassChoicesOf(c)   == IF c \in DOMAIN Classes THEN CreationChoices[c] ELSE {}

Requires(r, choice) ==
  /\ r.level >= choice.from /\ choice.counts[r.level] > 0
  /\ choice.subclass => r.subclass = "srd"

RuleChoicesComplete(r) ==
  /\ \A choice \in RaceChoicesOf(r.race) : choice.id \in DOMAIN r.choices
  /\ \A choice \in ClassChoicesOf(r.class) : Requires(r, choice) => choice.id \in DOMAIN r.choices

SelectionValid(r, id, count, options, manual) ==
  IF options = <<>> /\ manual
  THEN r.choices[id] = <<>> /\ id \in r.notes
  ELSE /\ Len(r.choices[id]) = count
       /\ ToSet(r.choices[id]) \subseteq ToSet(options)
       /\ id \in r.notes => manual

(* Mutant: the client does not compare with the languages of the race.     *)
AddsAnyLanguage(r, id) == TRUE

AddsLanguage(r, id) ==
  id = HighElfLanguage => ToSet(r.choices[id]) \cap Races[r.race].languages = {}

RaceSelectionsValid(r) ==
  \A choice \in RaceChoicesOf(r.race) :
    choice.id \in DOMAIN r.choices =>
      SelectionValid(r, choice.id, choice.count, choice.options, FALSE) /\ AddsLanguage(r, choice.id)

PrerequisitesMet(r, choice) ==
  \A option \in ToSet(r.choices[choice.id]) :
    /\ r.level >= Prerequisite(choice, option).level
    /\ Prerequisite(choice, option).options \subseteq SelectedIn(r, DOMAIN r.choices)

ClassSelectionsValid(r) ==
  \A choice \in ClassChoicesOf(r.class) :
    choice.id \in DOMAIN r.choices =>
      /\ r.level >= choice.from /\ (choice.subclass => r.subclass = "srd")
      /\ SelectionValid(r, choice.id, choice.counts[r.level], choice.options, choice.manual)
      /\ PrerequisitesMet(r, choice)

RuleChoicesValid(r) ==
  /\ DOMAIN r.choices \subseteq { choice.id : choice \in RaceChoicesOf(r.race) }
                                \cup { choice.id : choice \in ClassChoicesOf(r.class) }
  /\ RaceSelectionsValid(r) /\ ClassSelectionsValid(r)

(* Identity, hit points, attacks and defense.                              *)
SelectionsResolve(r) ==
  /\ r.race = "manual" \/ (IsSrdRace(r) /\ ~Races[r.race].subraces)
  /\ r.class = "manual" \/ IsSrdClass(r)
  /\ IsSrdClass(r) => (DecidesSubclass(r) <=> r.subclass # "none")
  /\ r.subclass = "srd" => IsSrdClass(r)

ManualPartsFit(r) ==
  /\ r.race = "manual" => r.mode = "imported" /\ "speed" \in r.overrides
  /\ r.class = "manual" => /\ "maximum" \in r.overrides
                           /\ r.gains = <<>> /\ r.spells.mode = "none" /\ ~r.spellAttack

GainsFit(r) ==
  /\ IsSrdClass(r) => DOMAIN r.gains = 2 .. r.level
  /\ \A l \in DOMAIN r.gains :
       r.gains[l] # 0 => r.gains[l] \in 1 .. (IF IsSrdClass(r) THEN Classes[r.class].hitDie ELSE 20)

SpellAttackFits(r) == r.spellAttack => IsSrdClass(r) /\ Casts(r.class, r.level)

DefenseFits(r) ==
  /\ r.defense.shield # "none" => Worn(r, r.defense.shield)
  /\ r.defense.mode = "armor" => r.defense.armor \in Armors /\ Worn(r, r.defense.armor)
  /\ r.defense.mode = "unarmored" =>
       /\ \A armor \in Armors : ~Worn(r, armor)
       /\ r.defense.formula = "monk-unarmored-defense" => r.class = "monk" /\ r.defense.shield = "none"
       /\ r.defense.formula = "barbarian-unarmored-defense" => r.class = "barbarian"
       /\ r.defense.formula = "draconic-resilience" => r.class = "sorcerer" /\ r.subclass = "srd"

(* Ability scores. The contract adds the race's bonuses only, the build    *)
(* also the improvements, which do not raise a score above 20.             *)
Selections(r, id) == IF id \in DOMAIN r.choices THEN r.choices[id] ELSE <<>>

BonusTo(r, a) ==
  IF ~IsSrdRace(r) THEN 0
  ELSE Races[r.race].bonuses[a]
         + Cardinality({ i \in DOMAIN Selections(r, HalfElfAbilities) : Selections(r, HalfElfAbilities)[i] = <<a>> })

ScoresOfRace(r) ==
  IF r.mode = "imported" THEN r.imported ELSE [a \in Abilities |-> r.base[a] + BonusTo(r, a)]

ImprovementsOf(r) == IF IsSrdClass(r) THEN Selections(r, ImprovementId[r.class]) ELSE <<>>
Improvement(r, a) ==
  IF ImprovementsOf(r) = <<>> THEN 0 ELSE RaisedBy(ImprovementsOf(r)[1], a)

FinalScores(r) ==
  IF r.mode = "imported" THEN r.imported
  ELSE [a \in Abilities |-> IF Improvement(r, a) = 0 THEN ScoresOfRace(r)[a]
                            ELSE AtMost(20, ScoresOfRace(r)[a] + Improvement(r, a))]

(* Spells, as reconstructSpellcastingV2 resolves them with given scores.   *)
GrantedIds(r) == { id \in {HighElfCantrip, LandCantrip} : Selections(r, id) # <<>> }

CantripsDistinct(r) ==
  LET mending == { id \in GrantedIds(r) : Selections(r, id) = << <<"mending">> >> }
  IN Cardinality(mending) + (IF r.spells.mending THEN 1 ELSE 0) <= 1

PreparesExactly(r, scores) ==
  PreparesSpells(r.class) =>
    r.spells.prepared = PreparedSpellCount(r.class, scores[CastingAbility[r.class]], r.level)

SpellsResolve(r, scores) ==
  /\ r.spells.mode = SpellMode(r)
  /\ r.spells.mode # "none" =>
       /\ r.spells.cantrips = CantripsKnown(r.class, r.level)
       /\ \A l \in LearningLevels(r) : r.spells.learned[l] = WantedLearned(r, l)
       /\ r.spells.mode = "spellbook-prepared" => r.spells.prepared <= Learned(r.spells)
       /\ PreparesExactly(r, scores)
       /\ r.spells.expanded => OffersExpanded(r)
       /\ ~r.spells.repeated /\ CantripsDistinct(r)
       /\ ~(r.spells.listed /\ AlwaysPrepares(r))

RequestValid(r) ==
  /\ SelectionsResolve(r)
  /\ ScoresInBounds(TypedScores(r))
  /\ RuleChoicesComplete(r) /\ RuleChoicesValid(r)
  /\ ManualPartsFit(r) /\ GainsFit(r) /\ SpellAttackFits(r) /\ DefenseFits(r)
  /\ IF IsSrdClass(r) THEN SpellsResolve(r, ScoresOfRace(r)) ELSE r.spells.mode = "none"

(* The sheet of a manual class is calculated without a bound on the scores *)
(* and its spells are resolved as a fighter's, which has none.             *)
SheetBuilds(r) ==
  IsSrdClass(r) => ScoresInBounds(FinalScores(r)) /\ SpellsResolve(r, FinalScores(r))

ContractAccepts(r) == RequestValid(r) /\ SheetBuilds(r)
=============================================================================
