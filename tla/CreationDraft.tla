---------------------------- MODULE CreationDraft ----------------------------
(***************************************************************************)
(* The draft of character creation (character-creation/                    *)
(* characterSheetV2Draft.ts): what it offers, how it is reconciled after   *)
(* an edit and which fields the form checks before a review.               *)
(*                                                                         *)
(* A draft is the record                                                   *)
(*   race, class    a key of Races or Classes, "none" or "manual"          *)
(*   level, subclass  "none", "srd" (the one subclass of the class) or     *)
(*                  "manual"                                               *)
(*   mode           "calculated" or "imported" ability scores              *)
(*   base, retained, imported    the scores typed in                       *)
(*   gains          level -> 0 (fixed average) or the roll                 *)
(*   choices        choice id -> the options selected, in their order      *)
(*   notes          the choices answered by a note                         *)
(*   spells         see Unlearned                                          *)
(*   overrides      the enabled ones of "maximum" and "speed"              *)
(*   defense        mode, armor, shield ("none" or an item) and formula    *)
(*   equipment      item -> "absent", "carried" or "worn"                  *)
(*   spellAttack    an attack is calculated with the spellcasting ability  *)
(* Texts, the optional overrides, features and notes are left out: the     *)
(* form is filled in correctly there.                                      *)
(***************************************************************************)
EXTENDS CreationRules

IsSrdRace(d)  == d.race \in DOMAIN Races
IsSrdClass(d) == d.class \in DOMAIN Classes
DecidesSubclass(d) == IsSrdClass(d) /\ d.level >= Classes[d.class].subclassDecisionLevel

(* What an SRD subclass changes, "from" being alwaysFrom or expandedFrom.  *)
HasSubclassFrom(d, from) == IsSrdClass(d) /\ d.subclass = "srd" /\ d.level >= from

AvailableSubclasses(d) ==
  {"none"} \cup (IF d.class = "manual" THEN {"manual"}
                 ELSE IF DecidesSubclass(d) THEN {"srd", "manual"} ELSE {})

------------------------------------------------------------------------------
(* Choices *)
ClassChoicesFor(d) ==
  IF ~IsSrdClass(d) THEN {}
  ELSE { choice \in CreationChoices[d.class] :
           /\ d.level >= choice.from
           /\ choice.counts[d.level] > 0
           /\ choice.subclass => d.subclass = "srd" }

SelectedIn(d, ids) == UNION { ToSet(d.choices[id]) : id \in ids \cap DOMAIN d.choices }

(* The options of a class choice whose prerequisites the level and the     *)
(* selections for the active class choices meet.                           *)
ClassOptions(d, choice) ==
  LET active == SelectedIn(d, { other.id : other \in ClassChoicesFor(d) })
      Met(option) == /\ d.level >= Prerequisite(choice, option).level
                     /\ Prerequisite(choice, option).options \subseteq active
  IN Filter(choice.options, { option \in ToSet(choice.options) : Met(option) })

AvailableChoices(d) ==
  { [id |-> choice.id, count |-> choice.count, options |-> choice.options, manual |-> FALSE] :
      choice \in IF IsSrdRace(d) THEN Races[d.race].choices ELSE {} }
  \cup
  { [id |-> choice.id, count |-> choice.counts[d.level], options |-> ClassOptions(d, choice),
     manual |-> choice.manual] : choice \in ClassChoicesFor(d) }

ByNoteOnly(choice) == choice.manual /\ choice.options = <<>>
SelectedFor(d, id) == IF id \in DOMAIN d.choices THEN d.choices[id] ELSE <<>>

------------------------------------------------------------------------------
(* Spells: how many cantrips, how many spells were learned at each level   *)
(* (the first entry of a spellbook is its initial spells), how many are    *)
(* prepared, and what the checks tell apart: "mending" is one of the       *)
(* cantrips, "listed" the class's spell of ListedFrom one of the prepared  *)
(* ones, "expanded" a spell the Fiend adds one of the first learned ones,  *)
(* "repeated" one spell learned at two levels.                             *)
Unlearned(mode) ==
  [mode |-> mode, cantrips |-> 0, mending |-> FALSE, learned |-> [l \in Level |-> 0],
   repeated |-> FALSE, expanded |-> FALSE, prepared |-> 0, listed |-> FALSE]

SpellMode(d) ==
  IF IsSrdClass(d) /\ Casts(d.class, d.level) THEN Classes[d.class].spellcasting.mode ELSE "none"

WantedCantrips(d) == CantripsKnown(d.class, d.level)

WantedLearned(d, l) ==
  IF d.spells.mode = "spellbook-prepared"
  THEN IF l = 1 THEN SpellbookSize(1) ELSE SpellbookAdditions
  ELSE AtLeast(0, SpellsKnown(d.class, l) - IF l = 1 THEN 0 ELSE SpellsKnown(d.class, l - 1))

LearningLevels(d) ==
  IF d.spells.mode \in {"none", "prepared"} THEN {}
  ELSE { l \in Level : l <= d.level /\ Casts(d.class, l) }

Learned(spells) == SumOverLevels(spells.learned)
LearnedAt(spells) == { l \in Level : spells.learned[l] > 0 }

GrantedCantrips(d) == SelectedIn(d, {HighElfCantrip, LandCantrip})
OffersMending(d) == d.class \in MendingClasses /\ <<"mending">> \notin GrantedCantrips(d)

AlwaysPrepares(d) ==
  /\ IsSrdClass(d) /\ HasSubclassFrom(d, Classes[d.class].alwaysFrom)
  /\ d.class = "druid" => <<"forest">> \in ToSet(SelectedFor(d, LandCircle))
OffersListed(d) ==
  /\ d.class \in DOMAIN ListedFrom /\ d.level >= ListedFrom[d.class]
  /\ ~AlwaysPrepares(d)
OffersExpanded(d) == IsSrdClass(d) /\ HasSubclassFrom(d, Classes[d.class].expandedFrom)

(* Spells up to this level are offered; Paladin and Ranger start later.     *)
HighestSpellLevel(c, l) == IF Classes[c].spellcasting.since = 2 THEN (l + 3) \div 4 ELSE (l + 1) \div 2

------------------------------------------------------------------------------
(* Reconciliation of the draft d after an edit of the draft o. A draft     *)
(* does not hold which ordinary spells were selected, so that the spells   *)
(* that survive are a choice: selections that the new class or level may   *)
(* or may not offer are kept as a whole or dropped as a whole.             *)
(* Mutant: the gains of levels above a lowered one are kept.               *)
KeepGainsOfHigherLevels(d) ==
  [d EXCEPT !.gains = [l \in IF IsSrdClass(d) THEN (2 .. d.level) \cup DOMAIN d.gains ELSE {} |->
                         IF l \in DOMAIN d.gains THEN d.gains[l] ELSE 0]]

KeepGains(d) ==
  [d EXCEPT !.gains = [l \in IF IsSrdClass(d) THEN 2 .. d.level ELSE {} |->
                         IF l \in DOMAIN d.gains THEN d.gains[l] ELSE 0]]

KeepSubclass(o, d) ==
  [d EXCEPT !.subclass =
     IF @ \in AvailableSubclasses(d) /\ (@ = "srd" => d.class = o.class) THEN @ ELSE "none"]

(* Mutant: a selection is kept although its options changed.               *)
KeptSelectionUnfiltered(d, choice) == SelectedFor(d, choice.id)

KeptSelection(d, choice) ==
  LET kept == Filter(SelectedFor(d, choice.id), ToSet(choice.options))
  IN SubSeq(kept, 1, AtMost(choice.count, Len(kept)))

KeepAvailable(d, available) ==
  LET ids == { choice.id : choice \in available }
  IN [d EXCEPT !.choices = [id \in ids |-> KeptSelection(d, CHOOSE choice \in available : choice.id = id)],
               !.notes = @ \cap ids]

KeepChoices(d) == KeepAvailable(d, AvailableChoices(d))

(* A spell learned twice may lose one of its places.                       *)
RepeatedWith(spells, learned) ==
  IF learned = spells.learned THEN {spells.repeated}
  ELSE { again \in BOOLEAN :
           again => spells.repeated /\ Cardinality({ l \in Level : learned[l] > 0 }) > 1 }

(* What is left of the spells learned and prepared.                        *)
LearnedWith(d, expanded) ==
  [l \in Level |-> IF l \notin LearningLevels(d) THEN 0
                   ELSE d.spells.learned[l] - IF l = 1 /\ d.spells.expanded /\ ~expanded THEN 1 ELSE 0]

MayLosePrepared(o, d) ==
  d.class # o.class \/ HighestSpellLevel(d.class, d.level) < HighestSpellLevel(d.class, o.level)

PreparedWith(o, d, learned, listed) ==
  LET rest == d.spells.prepared - IF d.spells.listed /\ ~listed THEN 1 ELSE 0
      book == Learned([learned |-> learned])
      lost == Learned(d.spells) - book
  IN CASE d.spells.mode = "spellbook-prepared" -> AtLeast(0, rest - lost) .. AtMost(book, rest)
       [] d.spells.mode = "prepared" /\ MayLosePrepared(o, d) -> {0, rest}
       [] OTHER -> {rest}

(* The cantrips of another class, with those it shares with the new one.   *)
CantripsWith(o, d) ==
  LET mending == d.spells.mending /\ OffersMending(d)
      rest == d.spells.cantrips - IF d.spells.mending /\ ~mending THEN 1 ELSE 0
  IN IF d.class = o.class THEN {<<rest, mending>>}
     ELSE {<<0, FALSE>>} \cup (IF WantedCantrips(d) > 0 THEN {<<rest, mending>>} ELSE {})

KeepSpells(o, d) ==
  IF SpellMode(d) = "none" \/ d.spells.mode # SpellMode(d) THEN {Unlearned(SpellMode(d))}
  ELSE LET expanded == d.spells.expanded /\ OffersExpanded(d)
           listed   == d.spells.listed /\ OffersListed(d) /\ d.class = o.class
           shared   == LearnedWith(d, expanded)
           none     == [l \in Level |-> 0]
       IN UNION { UNION { { [mode |-> d.spells.mode, cantrips |-> cantrips[1], mending |-> cantrips[2],
                             learned |-> learned, repeated |-> repeated,
                             expanded |-> expanded /\ learned[1] > 0,
                             prepared |-> prepared, listed |-> listed /\ prepared > 0] :
                            repeated \in RepeatedWith(d.spells, learned),
                            prepared \in PreparedWith(o, d, learned, listed) } :
                          learned \in IF d.class = o.class THEN {shared} ELSE {shared, none} } :
                  cantrips \in CantripsWith(o, d) }

(* Only worn items defend. Canonical armor that is not the selected one is *)
(* taken off the sheet; a manual Armor Class leaves none.                  *)
FormulaOf == [barbarian |-> "barbarian-unarmored-defense", monk |-> "monk-unarmored-defense",
              sorcerer |-> "draconic-resilience"]
AllowsFormula(d, formula) ==
  \/ formula = "standard-unarmored"
  \/ /\ d.class \in DOMAIN FormulaOf /\ formula = FormulaOf[d.class]
     /\ d.class = "sorcerer" => d.subclass = "srd"

Worn(d, item) == item \in Items /\ d.equipment[item] = "worn"

KeepDefense(d) ==
  LET mode    == d.defense.mode
      armor   == IF mode = "armor" /\ Worn(d, d.defense.armor) THEN d.defense.armor ELSE "none"
      formula == IF mode = "unarmored" /\ AllowsFormula(d, d.defense.formula)
                 THEN d.defense.formula ELSE "standard-unarmored"
      bare    == \/ mode = "manual"
                 \/ mode = "unarmored" /\ ~AllowsFormula(d, d.defense.formula)
                 \/ mode = "unarmored" /\ formula = "monk-unarmored-defense"
      shield  == IF Worn(d, d.defense.shield) /\ ~bare THEN d.defense.shield ELSE "none"
  IN [d EXCEPT !.defense = [mode |-> mode, armor |-> armor, shield |-> shield, formula |-> formula],
               !.equipment = [item \in Items |-> IF item \in {armor, shield} THEN d.equipment[item] ELSE "absent"]]

(* Gains, subclass, choices, spells and defense, in this order: what is    *)
(* offered next depends on what was just kept.                             *)
KeepSpellsAndDefense(o, d) ==
  { KeepDefense([d EXCEPT !.spells = spells]) : spells \in KeepSpells(o, d) }

Reconciled(o, d) == KeepSpellsAndDefense(o, KeepChoices(KeepSubclass(o, KeepGains(d))))

------------------------------------------------------------------------------
(* The fields the form checks itself. The number of prepared spells is not *)
(* among them.                                                             *)
ChoiceComplete(d, choice) ==
  IF ByNoteOnly(choice) THEN choice.id \in d.notes
                        ELSE Len(SelectedFor(d, choice.id)) = choice.count

SpellFieldsComplete(d) ==
  d.spells.mode # "none" => /\ d.spells.cantrips = WantedCantrips(d)
                            /\ \A l \in LearningLevels(d) : d.spells.learned[l] = WantedLearned(d, l)

FieldsComplete(d) ==
  /\ d.race # "none" /\ (IsSrdRace(d) => ~Races[d.race].subraces)
  /\ d.class # "none"
  /\ d.class = "manual" => "maximum" \in d.overrides
  /\ d.race = "manual" => "speed" \in d.overrides /\ d.mode = "imported"
  /\ DecidesSubclass(d) => d.subclass # "none"
  /\ \A choice \in AvailableChoices(d) : ChoiceComplete(d, choice)
  /\ SpellFieldsComplete(d)
  /\ d.defense.mode = "armor" => d.defense.armor # "none"
=============================================================================
