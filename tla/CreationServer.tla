--------------------------- MODULE CreationServer ----------------------------
(***************************************************************************)
(* POST /characters/v2: what the server accepts of a request to create a   *)
(* character (characters/character_sheet_v2_validation.go, _calculations   *)
(* .go, _spell_progression.go). The rules are the server's own copy of the *)
(* generated tables; a request is the record CreationDraft describes. The  *)
(* character is built from the request and the sheet validated again       *)
(* before it is inserted: any error is a 400.                              *)
(***************************************************************************)
EXTENDS CreationRules

FromSrd(selection) == selection \notin {"none", "manual"}
SubclassIndex(r) == IF r.subclass = "srd" THEN r.class ELSE ""

Options(r, id) == IF id \in DOMAIN r.choices THEN r.choices[id] ELSE <<>>
AllOptions(r)  == UNION { ToSet(r.choices[id]) : id \in DOMAIN r.choices }

(* ValidateRuleChoices, for a race and a class that may be empty.          *)
RaceRules(r)  == IF FromSrd(r.race) THEN Races[r.race].choices ELSE {}
ClassRulesFor(r) == IF FromSrd(r.class) THEN CreationChoices[r.class] ELSE {}

Available(r, choice) ==
  /\ r.level >= choice.from /\ choice.counts[r.level] > 0
  /\ choice.subclass => SubclassIndex(r) = r.class

NothingMissing(r) ==
  /\ \A choice \in RaceRules(r) : Options(r, choice.id) # <<>>
  /\ \A choice \in ClassRulesFor(r) : Available(r, choice) => choice.id \in DOMAIN r.choices

AnswersChoice(r, id, count, allowed, allowManual) ==
  LET options == Options(r, id) IN
  IF allowed = <<>> /\ allowManual
  THEN options = <<>> /\ id \in r.notes
  ELSE /\ Len(options) = count
       /\ \A i \in DOMAIN options : Contains(allowed, options[i])
       /\ id \notin r.notes \/ allowManual

RaceAnswers(r) ==
  \A choice \in RaceRules(r) :
    /\ AnswersChoice(r, choice.id, choice.count, choice.options, FALSE)
    /\ choice.id = HighElfLanguage =>
         \A i \in DOMAIN Options(r, choice.id) : Options(r, choice.id)[i] \notin Races[r.race].languages

ClassAnswers(r) ==
  \A choice \in { choice \in ClassRulesFor(r) : choice.id \in DOMAIN r.choices } :
    /\ Available(r, choice)
    /\ AnswersChoice(r, choice.id, choice.counts[r.level], choice.options, choice.manual)
    /\ \A option \in ToSet(Options(r, choice.id)) :
         /\ Prerequisite(choice, option).level <= r.level
         /\ Prerequisite(choice, option).options \subseteq AllOptions(r)

NothingForeign(r) ==
  DOMAIN r.choices \subseteq { choice.id : choice \in RaceRules(r) \cup ClassRulesFor(r) }

ValidRuleChoices(r) == NothingMissing(r) /\ RaceAnswers(r) /\ ClassAnswers(r) /\ NothingForeign(r)

ValidIdentity(r) ==
  /\ r.race # "none" /\ r.class # "none"
  /\ FromSrd(r.race) => ~Races[r.race].subraces
  /\ FromSrd(r.class) => (r.level >= Classes[r.class].subclassDecisionLevel <=> r.subclass # "none")
  /\ r.subclass = "srd" => FromSrd(r.class)

(* validateHPProgression and validateCreateV2Semantics.                    *)
ValidHitPoints(r) ==
  /\ \A l \in DOMAIN r.gains : r.gains[l] \in 0 .. 20
  /\ FromSrd(r.class) => /\ DOMAIN r.gains = 2 .. r.level
                         /\ \A l \in DOMAIN r.gains : r.gains[l] <= Classes[r.class].hitDie

ValidManualParts(r) ==
  /\ r.race = "manual" => r.mode = "imported" /\ "speed" \in r.overrides
  /\ r.class = "manual" =>
       /\ "maximum" \in r.overrides /\ DOMAIN r.gains = {} /\ r.spells.mode = "none"
       /\ ~r.spellAttack
       /\ r.defense.mode = "unarmored" => r.defense.formula = "standard-unarmored"

ValidAttacks(r) == r.spellAttack => FromSrd(r.class) /\ Casts(r.class, r.level)

IsWorn(r, item) == item \in Items /\ r.equipment[item] = "worn"
ValidDefense(r) ==
  LET formula == r.defense.formula IN
  CASE r.defense.mode = "manual" -> r.defense.armor = "none" /\ r.defense.shield = "none"
    [] r.defense.mode = "armor" ->
         /\ r.defense.armor \in Armors /\ IsWorn(r, r.defense.armor)
         /\ r.defense.shield \in {"none", Shield} /\ (r.defense.shield = Shield => IsWorn(r, Shield))
    [] r.defense.mode = "unarmored" ->
         /\ \A armor \in Armors : ~IsWorn(r, armor)
         /\ r.defense.shield \in {"none", Shield} /\ (r.defense.shield = Shield => IsWorn(r, Shield))
         /\ formula = "monk-unarmored-defense" => r.class = "monk" /\ r.defense.shield = "none"
         /\ formula = "barbarian-unarmored-defense" => r.class = "barbarian"
         /\ formula = "draconic-resilience" => SubclassIndex(r) = "sorcerer"

------------------------------------------------------------------------------
(* Scores: what CalculateCharacterV2 makes of the input, improvements      *)
(* included, and what validResolvedAbilityConsistency expects of a saved   *)
(* sheet, which knows the race's bonuses only.                             *)
ValidAbilityScores(scores) == \A a \in Abilities : 1 <= scores[a] /\ scores[a] <= 30

RaceScores(r) ==
  IF ~FromSrd(r.race) THEN r.base
  ELSE [a \in Abilities |-> r.base[a] + Races[r.race].bonuses[a]
                              + (IF <<a>> \in ToSet(Options(r, HalfElfAbilities)) THEN 1 ELSE 0)]

Capped(score, bonus) == IF score + bonus > 20 /\ bonus > 0 THEN 20 ELSE score + bonus

ResolvedScores(r) ==
  LET options == IF FromSrd(r.class) THEN Options(r, ImprovementId[r.class]) ELSE <<>>
      Bonus(a) == IF options = <<>> THEN 0 ELSE RaisedBy(options[1], a)
  IN IF r.mode = "imported" THEN r.imported
     ELSE [a \in Abilities |-> Capped(RaceScores(r)[a], Bonus(a))]

ExpectedScores(r) == IF r.mode = "imported" THEN r.imported ELSE RaceScores(r)

ValidScoreInput(r) ==
  /\ ValidAbilityScores(IF r.mode = "imported" THEN r.imported ELSE r.base)
  /\ r.race = "manual" => r.mode = "imported"

ConsistentScores(r) == ValidAbilityScores(ResolvedScores(r)) /\ ResolvedScores(r) = ExpectedScores(r)

------------------------------------------------------------------------------
(* Spells: reconstructV2Spellcasting. A class that has no spellcasting at  *)
(* this level, and a manual one, is granted cantrips all the same; the     *)
(* saved sheet may then hold no spell at all (validateResolvedSpellcasting)*)
CastingOf(r) == Classes[r.class].spellcasting
IsCaster(r) == FromSrd(r.class) /\ r.level >= CastingOf(r).since

Granted(r) == Options(r, HighElfCantrip) \o Options(r, LandCantrip)
Automatic(r) ==
  /\ SubclassIndex(r) = r.class /\ r.level >= Classes[r.class].alwaysFrom
  /\ r.class = "druid" => <<"forest">> \in AllOptions(r)

KnownCounts(r) ==
  \A l \in 1 .. r.level :
    LET before == IF l = 1 THEN 0 ELSE CountAt(CastingOf(r).spellsKnown, l - 1)
    IN r.spells.learned[l] = AtLeast(0, CountAt(CastingOf(r).spellsKnown, l) - before)

BookCounts(r) ==
  /\ r.spells.learned[1] = 6
  /\ \A l \in 2 .. r.level : r.spells.learned[l] = 2
  /\ r.spells.prepared <= SpellbookSize(r.level)

PreparedLimit(r) ==
  LET modifier == AbilityModifier(ResolvedScores(r)[CastingAbility[r.class]])
  IN AtLeast(1, modifier + (IF CastingOf(r).halved THEN r.level \div 2 ELSE r.level))

NoDuplicates(r) ==
  /\ ~r.spells.repeated
  /\ Cardinality({ i \in DOMAIN Granted(r) : Granted(r)[i] = <<"mending">> })
       + (IF r.spells.mending THEN 1 ELSE 0) < 2
  /\ ~(r.spells.listed /\ Automatic(r))

ValidSpells(r) ==
  IF ~IsCaster(r) THEN r.spells.mode = "none"
  ELSE /\ r.spells.mode = CastingOf(r).mode
       /\ r.spells.cantrips = CountAt(CastingOf(r).cantripsKnown, r.level)
       /\ CASE r.spells.mode \in {"known", "pact-known"} -> KnownCounts(r)
            [] r.spells.mode = "spellbook-prepared" -> BookCounts(r) /\ r.spells.prepared = PreparedLimit(r)
            [] r.spells.mode = "prepared" -> r.spells.prepared = PreparedLimit(r)
       /\ r.spells.expanded => SubclassIndex(r) = r.class /\ r.level >= Classes[r.class].expandedFrom
       /\ NoDuplicates(r)

ValidResolvedSpells(r) == r.spells.mode = "none" => Granted(r) = <<>>

------------------------------------------------------------------------------
ValidRequest(r) ==
  /\ ValidIdentity(r) /\ ValidScoreInput(r) /\ ValidRuleChoices(r)
  /\ ValidHitPoints(r) /\ ValidManualParts(r) /\ ValidAttacks(r) /\ ValidDefense(r)
  /\ ValidSpells(r)

BuildsSheet(r) == ValidAbilityScores(ResolvedScores(r))

ServerAccepts(r) == ValidRequest(r) /\ BuildsSheet(r) /\ ConsistentScores(r) /\ ValidResolvedSpells(r)
=============================================================================
