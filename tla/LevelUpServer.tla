---------------------------- MODULE LevelUpServer ----------------------------
(***************************************************************************)
(* What the server does with a level-up request: backend/internal/         *)
(* characters/level_up.go (buildLeveledCharacter) for a CharacterSheetV1,  *)
(* level_up_v2.go (buildLeveledCharacterV2) for a CharacterSheetV2, which  *)
(* it rebuilds from its decisions. A request is refused (422) or it gives  *)
(* the sheet of the next level.                                            *)
(*                                                                         *)
(* A sheet records                                                         *)
(*   schema, class, level, subclass  (none, the SRD one or a manual one),  *)
(*   recorded   how many selections of each class choice it represents,    *)
(*   boon       its Pact Boon is the one the marked invocation needs,      *)
(*   skilled    it has enough proficient skills for Expertise,             *)
(*   cantrips, leveled  the spells it lists (leveled: learned ones, or the *)
(*              spellbook's),                                              *)
(*   con, cast  Constitution and the casting ability's score, and how a V2 *)
(*              sheet holds scores: imported, or calculated from others,   *)
(*   gains      the die results of the levels after the first,             *)
(*   max, current  hit points.                                             *)
(*                                                                         *)
(* A request holds die, current, subclass, improvement, choices (a         *)
(* selection per rule id, the others NotSent), casting (whether it has     *)
(* spell changes at all) and spells.                                       *)
(***************************************************************************)
EXTENDS ClassRules

NotSent    == [n |-> 0, note |-> FALSE, mark |-> FALSE]
WrittenNote == [n |-> 0, note |-> TRUE, mark |-> FALSE]
NoImprovement == [kind |-> "none", con |-> 0, cast |-> 0]
FeatNote   == [kind |-> "feat", con |-> 0, cast |-> 0]
NoSpells   ==
  [cantrips |-> 0, learned |-> 0, replaced |-> FALSE, spellbook |-> 0, prepared |-> 0,
   listed |-> FALSE,     \* a prepared spell is on the subclass's list
   expanded |-> FALSE]   \* a learned one is only on the subclass's list

Applies(choice, subclass) == choice.subclass => subclass = "srd"
Present(sheet, choice, l) == sheet.recorded[choice.id] >= choice.counts[l]

(* The spells of the subclass that are prepared at any time: a Circle's    *)
(* need the terrain among the features, which a note does not give.        *)
AlwaysPrepares(c, subclass, recorded, l) ==
  /\ subclass = "srd"
  /\ l >= Classes[c].alwaysFrom
  /\ c = "druid" => recorded["druid-land-circle"] = 1

SubclassAfter(sheet, request) == IF sheet.subclass = "none" THEN request.subclass ELSE sheet.subclass

(* A subclass is sent exactly when the level asks for one the sheet lacks. *)
SubclassFits(sheet, request) ==
  request.subclass # "none" <=>
    sheet.level + 1 >= Classes[sheet.class].subclassDecisionLevel /\ sheet.subclass = "none"

(* A selection answers a choice: with a note, where one may be written, or *)
(* with as many options as the level takes.                                *)
Answers(selection, choice, l) ==
  IF selection.note THEN choice.manual /\ selection.n = 0
                    ELSE choice.options # "none" /\ selection.n = choice.counts[l]

(* The Ability Score Improvement: two points, none of them past 20, or (V1 *)
(* only) a feat's note.                                                    *)
WithinTwenty(sheet, improvement) ==
  /\ improvement.con > 0 => sheet.con + improvement.con <= 20
  /\ improvement.cast > 0 => sheet.cast + improvement.cast <= 20

ImprovementFits(sheet, request) ==
  /\ request.improvement.kind # "none" <=> sheet.level + 1 = ImprovementLevel
  /\ request.improvement.kind = "feat" => sheet.schema = "V1"
  /\ WithinTwenty(sheet, request.improvement)

(* Current hit points: raised with the maximum, kept or entered.           *)
CurrentFits(request, max) == request.current.mode = "manual" => request.current.value <= max
CurrentAfter(sheet, request, max) ==
  CASE request.current.mode = "manual" -> request.current.value
    [] request.current.mode = "retain" -> AtMost(max, sheet.current)
    [] OTHER -> AtMost(max, sheet.current + (max - sheet.max))

SpellcastingSent(sheet, request) == request.casting <=> Casts(sheet.class, sheet.level + 1)

-----------------------------------------------------------------------------
(* CharacterSheetV1: the choices of the level table only, with the counts  *)
(* of the target level; the ones the sheet already represents are ignored. *)
TableChoices(c, l) == { choice \in ChoicesOf(c) : ~choice.creation /\ choice.from <= l }

(* An invocation's boon must be among the features, and the choices are    *)
(* processed in the table's order, where invocations come before the boon. *)
PrerequisiteHeldV1(sheet, selection, choice) ==
  choice.id = Invocations /\ selection.mark => sheet.boon

ChoicesFitV1(sheet, request) ==
  LET to == sheet.level + 1 IN
  /\ \A choice \in ChoicesOf(sheet.class) :
       request.choices[choice.id] # NotSent => choice \in TableChoices(sheet.class, to)
  /\ \A choice \in TableChoices(sheet.class, to) :
       \/ Present(sheet, choice, to)
       \/ /\ Answers(request.choices[choice.id], choice, to)
          /\ PrerequisiteHeldV1(sheet, request.choices[choice.id], choice)

(* The selected options become features next to the ones the sheet has     *)
(* (new ones: the user has no reason to select what the sheet already      *)
(* has); a class feature of the same name stands for the whole choice.     *)
RecordedV1(sheet, request) ==
  LET to == sheet.level + 1
      After(choice) ==
        LET before == sheet.recorded[choice.id]
            selection == request.choices[choice.id]
        IN  IF choice.featured /\ choice.from = to THEN Whole
            ELSE IF Present(sheet, choice, to) THEN before
            ELSE IF selection.note THEN Whole
            ELSE before + selection.n
  IN  [id \in DOMAIN sheet.recorded |->
         After(CHOOSE choice \in ChoicesOf(sheet.class) : choice.id = id)]

(* Mutant: a better Constitution counts for the new level only.            *)
IncreaseOfTheLevel(sheet, request) ==
  AtLeast(1, request.die + AbilityModifier(sheet.con + request.improvement.con))

IncreaseV1(sheet, request) ==
  LET prior     == AbilityModifier(sheet.con)
      resulting == AbilityModifier(sheet.con + request.improvement.con)
  IN  AtLeast(1, request.die + resulting) + (resulting - prior) * sheet.level

(* Mutant: the spells the subclass prepares count among the prepared ones. *)
SpellsFitWithListed(sheet, request) ==
  LET to == sheet.level + 1
      rule == Classes[sheet.class].spellcasting
      spells == request.spells
      cantrips == sheet.cantrips + spells.cantrips
  IN  /\ KnowsSpells(sheet.class) =>
           cantrips = AtLeast(0, rule.cantripsKnown[to]) /\ sheet.leveled + spells.learned = rule.spellsKnown[to]
      /\ PreparesSpells(sheet.class) =>
           spells.prepared = PreparedSpellCount(sheet.class, sheet.cast + request.improvement.cast, to)

(* Additions and replacements are eligible spells the sheet does not list; *)
(* the totals are the table's, where a null count of cantrips is zero for  *)
(* a class that knows its spells and unchecked for one that prepares them. *)
SpellsFitV1(sheet, request) ==
  LET to == sheet.level + 1
      rule == Classes[sheet.class].spellcasting
      spells == request.spells
      subclass == SubclassAfter(sheet, request)
      cantrips == sheet.cantrips + spells.cantrips
  IN  /\ spells.replaced => ReplacementLimit(sheet.class, to) > 0
      /\ spells.expanded => subclass = "srd"
      /\ spells.spellbook = IF rule.mode = "spellbook-prepared" THEN SpellbookAdditions ELSE 0
      /\ KnowsSpells(sheet.class) =>
           /\ cantrips = AtLeast(0, rule.cantripsKnown[to])
           /\ sheet.leveled + spells.learned = rule.spellsKnown[to]
           /\ spells.prepared = 0
      /\ PreparesSpells(sheet.class) =>
           /\ rule.cantripsKnown[to] # Null => cantrips = rule.cantripsKnown[to]
           /\ spells.prepared =
                PreparedSpellCount(sheet.class, sheet.cast + request.improvement.cast, to)
           /\ spells.listed =>
                ~AlwaysPrepares(sheet.class, subclass, RecordedV1(sheet, request), to)

AcceptsV1(sheet, request) ==
  /\ SubclassFits(sheet, request)
  /\ ChoicesFitV1(sheet, request)
  /\ ImprovementFits(sheet, request)
  /\ IncreaseV1(sheet, request) >= 1
  /\ CurrentFits(request, sheet.max + IncreaseV1(sheet, request))
  /\ SpellcastingSent(sheet, request)
  /\ Casts(sheet.class, sheet.level + 1) => SpellsFitV1(sheet, request)

(* The boon a sheet has, or the one the request selects.                   *)
BoonAfter(sheet, request) ==
  sheet.boon \/ (PactBoon \in DOMAIN request.choices /\ request.choices[PactBoon].mark)

(* Mutant: the die of the new level is not recorded.                       *)
LeveledForgettingTheDie(sheet, request) ==
  [sheet EXCEPT !.level = @ + 1, !.subclass = SubclassAfter(sheet, request),
                !.recorded = RecordedV1(sheet, request), !.max = @ + IncreaseV1(sheet, request)]

LeveledV1(sheet, request) ==
  LET max == sheet.max + IncreaseV1(sheet, request) IN
  [sheet EXCEPT
     !.level    = @ + 1,
     !.subclass = SubclassAfter(sheet, request),
     !.recorded = RecordedV1(sheet, request),
     !.boon     = BoonAfter(sheet, request),
     !.cantrips = @ + request.spells.cantrips,
     !.leveled  = @ + request.spells.learned + request.spells.spellbook,
     !.con      = @ + request.improvement.con,
     !.cast     = @ + request.improvement.cast,
     !.gains    = Append(@, request.die),
     !.max      = max,
     !.current  = CurrentAfter(sheet, request, max)]

-----------------------------------------------------------------------------
(* CharacterSheetV2: the decisions are extended and the sheet is rebuilt.  *)

(* A choice of either table may be sent. An option of a choice never is a  *)
(* feature of the request, so an invocation that needs a boon is refused.  *)
ChoiceSentFitsV2(request, choice, l) ==
  /\ choice.from <= l
  /\ Answers(request.choices[choice.id], choice, l)
  /\ choice.id = Invocations => ~request.choices[choice.id].mark

RecordedV2(sheet, request) ==
  [id \in DOMAIN sheet.recorded |->
     IF request.choices[id] = NotSent THEN sheet.recorded[id]
     ELSE IF request.choices[id].note THEN Whole
     ELSE request.choices[id].n]

(* The rebuilt sheet answers every choice its subclass has at its level,   *)
(* and no other one: a choice without options with a note, the others with *)
(* the level's number of options.                                          *)
ChoicesCompleteV2(class, subclass, recorded, l) ==
  \A choice \in ChoicesOf(class) :
    recorded[choice.id] =
      IF choice.from > l \/ ~Applies(choice, subclass) THEN 0
      ELSE IF choice.options = "none" THEN Whole
      ELSE choice.counts[l]

ChoicesFitV2(sheet, request) ==
  LET to == sheet.level + 1 IN
  /\ \A choice \in ChoicesOf(sheet.class) :
       request.choices[choice.id] # NotSent => ChoiceSentFitsV2(request, choice, to)
  /\ ChoicesCompleteV2(sheet.class, SubclassAfter(sheet, request), RecordedV2(sheet, request), to)

(* The increase is added to the scores the sheet starts from, and recorded *)
(* as a rule choice; calculated scores then add the rule choices to what   *)
(* they start from, up to 20 (calculateAbilityScores), imported ones are   *)
(* taken as they are.                                                      *)
ScoreV2(sheet, score, increase) ==
  IF sheet.scores = "calculated" THEN AtMost(20, score + increase + increase) ELSE score + increase

(* The rebuilt sheet is validated, and validation knows no rule choice that *)
(* raises a score: the calculated ones must be what they start from. Only  *)
(* an increase that 20 cuts off leaves them so (the scores that are not    *)
(* modelled are well below it).                                            *)
ScoresConsistentV2(sheet, request) ==
  LET improvement == request.improvement IN
  sheet.scores = "calculated" /\ improvement.kind = "scores" =>
    /\ improvement.con + improvement.cast = 2
    /\ ScoreV2(sheet, sheet.con, improvement.con) = sheet.con + improvement.con
    /\ ScoreV2(sheet, sheet.cast, improvement.cast) = sheet.cast + improvement.cast

(* Draconic Resilience: one more hit point for each level.                 *)
Resilience(class, subclass) == IF class = "sorcerer" /\ subclass = "srd" THEN 1 ELSE 0

(* The maximum is summed over the levels again, each at least one; the     *)
(* wizard's sheets have up to five.                                        *)
HitPointsAt(l, gains, modifier) ==
  IF l <= Len(gains) + 1 THEN AtLeast(1, gains[l - 1] + modifier) ELSE 0

MaximumHitPoints(class, subclass, con, gains) ==
  LET modifier == AbilityModifier(con)
  IN  AtLeast(1, Classes[class].hitDie + modifier)
      + HitPointsAt(2, gains, modifier) + HitPointsAt(3, gains, modifier)
      + HitPointsAt(4, gains, modifier) + HitPointsAt(5, gains, modifier)
      + Resilience(class, subclass) * (Len(gains) + 1)

MaximumV2(sheet, request) ==
  MaximumHitPoints(sheet.class, SubclassAfter(sheet, request),
                   ScoreV2(sheet, sheet.con, request.improvement.con), Append(sheet.gains, request.die))

(* The spells are reconstructed from the decisions of every level. A       *)
(* granted cantrip is beside the table's count (a null count is zero), and *)
(* a prepared spell may not be one the subclass prepares anyway.           *)
SpellsFitV2(sheet, request) ==
  LET to == sheet.level + 1
      rule == Classes[sheet.class].spellcasting
      spells == request.spells
      subclass == SubclassAfter(sheet, request)
  IN  /\ spells.replaced => ReplacementLimit(sheet.class, to) > 0
      /\ spells.expanded => subclass = "srd"
      /\ sheet.cantrips + spells.cantrips = AtLeast(0, rule.cantripsKnown[to])
      /\ KnowsSpells(sheet.class) =>
           sheet.leveled + spells.learned = rule.spellsKnown[to] /\ spells.prepared = 0
      /\ rule.mode = "spellbook-prepared" =>
           sheet.leveled + spells.spellbook = SpellbookSize(to)
      /\ PreparesSpells(sheet.class) =>
           /\ spells.prepared =
                PreparedSpellCount(sheet.class, ScoreV2(sheet, sheet.cast, request.improvement.cast), to)
           /\ spells.listed =>
                ~AlwaysPrepares(sheet.class, subclass, RecordedV2(sheet, request), to)

AcceptsV2(sheet, request) ==
  /\ SubclassFits(sheet, request)
  /\ ChoicesFitV2(sheet, request)
  /\ ImprovementFits(sheet, request)
  /\ ScoresConsistentV2(sheet, request)
  /\ MaximumV2(sheet, request) > sheet.max
  /\ CurrentFits(request, MaximumV2(sheet, request))
  /\ SpellcastingSent(sheet, request)
  /\ Casts(sheet.class, sheet.level + 1) => SpellsFitV2(sheet, request)

LeveledV2(sheet, request) ==
  LET max == MaximumV2(sheet, request) IN
  [LeveledV1(sheet, request) EXCEPT
     !.recorded = RecordedV2(sheet, request),
     !.con      = ScoreV2(sheet, sheet.con, request.improvement.con),
     !.cast     = ScoreV2(sheet, sheet.cast, request.improvement.cast),
     !.max      = max,
     !.current  = CurrentAfter(sheet, request, max)]

-----------------------------------------------------------------------------
Accepts(sheet, request) == IF sheet.schema = "V1" THEN AcceptsV1(sheet, request) ELSE AcceptsV2(sheet, request)
Leveled(sheet, request) == IF sheet.schema = "V1" THEN LeveledV1(sheet, request) ELSE LeveledV2(sheet, request)
=============================================================================
