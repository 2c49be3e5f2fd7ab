---------------------------- MODULE LevelUpWizard ----------------------------
(***************************************************************************)
(* The level-up wizard, from the plan it makes of a sheet to the level the *)
(* server saves: frontend/src/level-up/stateMachine.ts (the plan, the      *)
(* audit of earlier choices, the options of a choice) and LevelUpFlow.tsx  *)
(* (the steps, their validation and the request). The user goes through    *)
(* the steps, back and forth, and edits at a step the part of the draft    *)
(* that the step shows; the request is composed of what the draft holds    *)
(* when the review is submitted and is answered by LevelUpServer.          *)
(*                                                                         *)
(* A spell selection is either empty or has the numbers its step asks for; *)
(* what is left out is named in the README. Concurrent submissions are     *)
(* CharacterLevelUp's.                                                     *)
(***************************************************************************)
EXTENDS LevelUpServer

CONSTANTS
  Subjects   \* the sheets the wizard is opened on: a subset of Sheets

VARIABLES
  sheet,    \* the sheet the wizard was opened on
  plan,     \* its plan, made once: the missing choices, the steps, whether it is blocked
  step,     \* the step shown
  draft,    \* what the user entered
  outcome,  \* editing, saved or refused
  result    \* the saved sheet, or the one the wizard was opened on

vars == <<sheet, plan, step, draft, outcome, result>>

-----------------------------------------------------------------------------
(* The sheets: one that represents every choice of its level, and a V1     *)
(* sheet that represents none.                                             *)
TableSize(counts, l) == AtLeast(0, counts[l])

LeveledSpells(c, l) ==
  IF Classes[c].spellcasting.mode = "spellbook-prepared" THEN SpellbookSize(l)
  ELSE TableSize(Classes[c].spellcasting.spellsKnown, l)

RecordedAt(schema, c, l, subclass) ==
  LET At(choice) == IF choice.from > l \/ ~Applies(choice, subclass) THEN 0
                    ELSE IF schema = "V1" /\ choice.creation THEN 0
                    ELSE IF choice.options = "none" THEN Whole
                    ELSE choice.counts[l]
  IN  [id \in { choice.id : choice \in ChoicesOf(c) } |->
         At(CHOOSE choice \in ChoicesOf(c) : choice.id = id)]

(* A frail character has Constitution 8 and rolled ones, and the casting   *)
(* ability at 18, two points below the most an improvement gives.          *)
SheetAt(schema, c, l, subclass, scores, boon, frail) ==
  LET con   == IF frail THEN 8 ELSE 13
      gains == [i \in 1 .. l - 1 |-> IF frail THEN 1 ELSE Classes[c].fixedAverageHp]
      max   == MaximumHitPoints(c, subclass, con, gains)
  IN  [schema |-> schema, class |-> c, level |-> l, subclass |-> subclass,
       recorded |-> RecordedAt(schema, c, l, subclass), boon |-> boon, skilled |-> TRUE,
       cantrips |-> TableSize(Classes[c].spellcasting.cantripsKnown, l), leveled |-> LeveledSpells(c, l),
       con |-> con, cast |-> IF frail THEN 18 ELSE 15, scores |-> scores, gains |-> gains, max |-> max, current |-> max]

SubclassesAt(c, l) == IF l >= Classes[c].subclassDecisionLevel THEN {"srd", "manual"} ELSE {"none"}
BoonsAt(c, l) == IF c = "warlock" /\ l >= 3 THEN BOOLEAN ELSE {FALSE}
ScoresOf(schema) == IF schema = "V1" THEN {"stored"} ELSE {"imported", "calculated"}

FullSheets(c) ==
  UNION { { SheetAt(schema, c, l, subclass, scores, boon, frail) :
              subclass \in SubclassesAt(c, l), scores \in ScoresOf(schema),
              boon \in BoonsAt(c, l), frail \in BOOLEAN } :
          schema \in {"V1", "V2"}, l \in 1 .. 4 }

BareSheets(c) ==
  { [SheetAt("V1", c, l, "none", "stored", FALSE, FALSE) EXCEPT
       !.recorded = [id \in DOMAIN @ |-> 0], !.skilled = FALSE, !.cantrips = 0, !.leveled = 0] :
    l \in 1 .. 4 }

Sheets(c) == FullSheets(c) \cup BareSheets(c)

(* What a sheet may be for the wizard: its fields have their kinds, and one *)
(* of schema V2 is what the server rebuilt when it was saved: its choices  *)
(* are those of its level and subclass, its maximum is the sum of its      *)
(* levels, its spellbook has its size, calculated scores end at 20.        *)
RebuiltV2(s) ==
  /\ s.subclass = "none" => s.level < Classes[s.class].subclassDecisionLevel
  /\ ChoicesCompleteV2(s.class, s.subclass, s.recorded, s.level)
  /\ s.max = MaximumHitPoints(s.class, s.subclass, s.con, s.gains)
  /\ s.class = "wizard" => s.leveled = SpellbookSize(s.level)
  /\ s.scores = "calculated" => s.con <= 20 /\ s.cast <= 20

IsSheet(s) ==
  /\ s.class \in DOMAIN Classes
  /\ s \in [schema : {"V1", "V2"}, class : {s.class}, level : 1 .. 4, subclass : {"none", "srd", "manual"},
            recorded : [{ choice.id : choice \in ChoicesOf(s.class) } -> 0 .. Whole], boon : BOOLEAN,
            skilled : BOOLEAN, cantrips : Nat, leveled : Nat, con : 1 .. 30, cast : 1 .. 30,
            scores : {"stored", "imported", "calculated"}, gains : [1 .. s.level - 1 -> 1 .. Classes[s.class].hitDie],
            max : Nat, current : Nat]
  /\ s.schema = "V1" <=> s.scores = "stored"
  /\ s.schema = "V2" => RebuiltV2(s)

ASSUME SubjectsAssumption == \A s \in Subjects : IsSheet(s)

-----------------------------------------------------------------------------
(* The plan. A sheet without a subclass is audited as if it had the SRD    *)
(* one, from the level that decides it on.                                 *)
AssumedSubclass(s, l) ==
  IF s.subclass = "none" /\ l >= Classes[s.class].subclassDecisionLevel THEN "srd" ELSE s.subclass

MissingChoices(s) ==
  { choice \in ChoicesOf(s.class) :
      choice.from <= s.level /\ Applies(choice, AssumedSubclass(s, s.level)) /\ ~Present(s, choice, s.level) }

MissingSubclass(s) == s.level >= Classes[s.class].subclassDecisionLevel /\ s.subclass = "none"

HasOptions(s, choice) == choice.options = "some" \/ (choice.options = "skills" /\ s.skilled)
Representable(s, choice) == HasOptions(s, choice) \/ choice.manual
SpellbookShort(s) == s.class = "wizard" /\ s.leveled < SpellbookSize(s.level)

Blocked(s) == SpellbookShort(s) \/ \E choice \in MissingChoices(s) : ~Representable(s, choice)

AsksForChoices(s) ==
  \E choice \in ChoicesOf(s.class) \ MissingChoices(s) :
    /\ choice.from <= s.level + 1
    /\ Applies(choice, AssumedSubclass(s, s.level + 1))
    /\ ~Present(s, choice, s.level + 1)

StepsOf(s) ==
  LET to == s.level + 1
      If(condition, name) == IF condition THEN << name >> ELSE << >>
  IN  << "prerequisites", "hp" >>
      \o If(/\ to >= Classes[s.class].subclassDecisionLevel
            /\ s.subclass = "none" /\ ~MissingSubclass(s), "subclass")
      \o If(to = ImprovementLevel, "asi")
      \o If(Casts(s.class, to), "spells")
      \o If(AsksForChoices(s), "class-specific")
      \o << "confirm-retained", "review" >>

PlanOf(s) == [missing |-> MissingChoices(s), steps |-> StepsOf(s), blocked |-> Blocked(s)]

Steps == plan.steps
Target == sheet.level + 1
Rule == Classes[sheet.class]

-----------------------------------------------------------------------------
(* The draft and what the steps make of it.                                *)
EmptyDraft(s) ==
  [die |-> Classes[s.class].fixedAverageHp, current |-> [mode |-> "increase-by-gain", value |-> 0],
   subclass |-> "none", improvement |-> NoImprovement,
   choices |-> [id \in DOMAIN s.recorded |-> NotSent], spells |-> NoSpells, retained |-> FALSE]

SelectedSubclass == IF sheet.subclass # "none" THEN sheet.subclass ELSE draft.subclass

(* Mutant: the count of the sheet's own level decides what is still open.  *)
TargetChoicesOfTheSheet ==
  { choice \in ChoicesOf(sheet.class) \ plan.missing :
      choice.from <= Target /\ Applies(choice, SelectedSubclass) /\ ~Present(sheet, choice, sheet.level) }

TargetChoices ==
  { choice \in ChoicesOf(sheet.class) \ plan.missing :
      choice.from <= Target /\ Applies(choice, SelectedSubclass) /\ ~Present(sheet, choice, Target) }

(* The marked invocation is offered while its boon is among the features:  *)
(* the sheet's own, unless the draft selects one in its place.             *)
BoonActive(choices) ==
  PactBoon \in DOMAIN choices /\ (choices[PactBoon].mark \/ (sheet.boon /\ choices[PactBoon] = NotSent))

Reconciled(choices) ==
  IF Invocations \in DOMAIN choices /\ choices[Invocations].mark /\ ~BoonActive(choices)
  THEN [choices EXCEPT ![Invocations] = [n |-> @.n - 1, note |-> FALSE, mark |-> FALSE]]
  ELSE choices

Marks(choice) ==
  IF choice.id = PactBoon \/ (choice.id = Invocations /\ BoonActive(draft.choices)) THEN BOOLEAN ELSE {FALSE}

Selections(choice, l) ==
  (IF choice.manual THEN {WrittenNote} ELSE {})
  \cup (IF HasOptions(sheet, choice)
        THEN { [n |-> choice.counts[l], note |-> FALSE, mark |-> mark] : mark \in Marks(choice) } ELSE {})

(* The Circle's bonus cantrip is on a V2 sheet with the ones the user      *)
(* chose, and the wizard counts them together.                             *)
Granted ==
  IF sheet.schema = "V2" /\ sheet.class = "druid" THEN sheet.recorded[LandChoice.id] ELSE 0
CantripsListed == sheet.cantrips + Granted

HidesAlwaysPrepared == AlwaysPrepares(sheet.class, SelectedSubclass, sheet.recorded, Target)

PreparedCount ==
  IF PreparesSpells(sheet.class)
  THEN PreparedSpellCount(sheet.class, sheet.cast + draft.improvement.cast, Target) ELSE 0

SpellSelections ==
  LET casting == Rule.spellcasting IN
  { [cantrips  |-> AtLeast(0, casting.cantripsKnown[Target] - CantripsListed),
     learned   |-> IF KnowsSpells(sheet.class) THEN AtLeast(0, casting.spellsKnown[Target] - sheet.leveled) ELSE 0,
     replaced  |-> replaced,
     spellbook |-> IF casting.mode = "spellbook-prepared" THEN SpellbookAdditions ELSE 0,
     prepared  |-> PreparedCount, listed |-> listed, expanded |-> expanded] :
    replaced \in { r \in BOOLEAN : r => ReplacementLimit(sheet.class, Target) > 0 /\ sheet.leveled > 0 },
    listed   \in { b \in BOOLEAN : b => Target >= Rule.alwaysFrom /\ ~HidesAlwaysPrepared },
    expanded \in { b \in BOOLEAN : b => Target >= Rule.expandedFrom /\ SelectedSubclass = "srd" } }

(* The maximum the review shows (proposedMaxHp).                           *)
ProposedMax ==
  LET prior     == AbilityModifier(sheet.con)
      resulting == AbilityModifier(sheet.con + draft.improvement.con)
  IN  sheet.max + AtLeast(1, draft.die + resulting) + (resulting - prior) * sheet.level
      + (IF sheet.schema = "V2" THEN Resilience(sheet.class, SelectedSubclass) ELSE 0)

ChoiceValid(choice, l) ==
  LET selection == draft.choices[choice.id] IN
  IF selection.note THEN choice.manual ELSE selection.n = choice.counts[l]

SpellsValid ==
  LET casting == Rule.spellcasting IN
  /\ casting.cantripsKnown[Target] # Null =>
       CantripsListed + draft.spells.cantrips = casting.cantripsKnown[Target]
  /\ KnowsSpells(sheet.class) => sheet.leveled + draft.spells.learned = casting.spellsKnown[Target]
  /\ casting.mode = "spellbook-prepared" => draft.spells.spellbook = SpellbookAdditions
  /\ PreparesSpells(sheet.class) => draft.spells.prepared = PreparedCount

StepValid(name) ==
  CASE name = "prerequisites" ->
         /\ MissingSubclass(sheet) => draft.subclass # "none"
         /\ \A choice \in plan.missing : ChoiceValid(choice, sheet.level)
    [] name = "subclass" -> draft.subclass # "none"
    [] name = "asi" -> /\ draft.improvement.kind # "none"
                       /\ sheet.schema = "V2" => draft.improvement.kind # "feat"
                       /\ WithinTwenty(sheet, draft.improvement)
    [] name = "spells" -> SpellsValid
    [] name = "class-specific" -> \A choice \in TargetChoices : ChoiceValid(choice, Target)
    [] name = "confirm-retained" -> draft.retained
    [] OTHER -> TRUE

CurrentValid == draft.current.mode = "manual" => draft.current.value <= ProposedMax
AllValid == CurrentValid /\ \A i \in DOMAIN Steps : StepValid(Steps[i])

Request ==
  LET sent == plan.missing \cup TargetChoices IN
  [die |-> draft.die, current |-> draft.current,
   subclass |-> IF sheet.subclass = "none" /\ Target >= Rule.subclassDecisionLevel
                THEN draft.subclass ELSE "none",
   improvement |-> draft.improvement,
   choices |-> [id \in DOMAIN draft.choices |->
                  IF \E choice \in sent : choice.id = id THEN draft.choices[id] ELSE NotSent],
   casting |-> Casts(sheet.class, Target), spells |-> draft.spells]

-----------------------------------------------------------------------------
Init ==
  /\ sheet \in Subjects
  /\ plan = PlanOf(sheet)
  /\ step = 1
  /\ draft = EmptyDraft(sheet)
  /\ outcome = "editing"
  /\ result = sheet

At(name) == outcome = "editing" /\ ~plan.blocked /\ Steps[step] = name
Edit(next) == draft' = next /\ UNCHANGED <<sheet, plan, step, outcome, result>>

(* The hit points: the average or a rolled one; entered current hit points *)
(* are the maximum as it is proposed now.                                  *)
EditHitPoints ==
  /\ At("hp")
  /\ \E die \in {Rule.fixedAverageHp, 1}, mode \in {"increase-by-gain", "retain", "manual"} :
       Edit([draft EXCEPT !.die = die,
                          !.current = [mode |-> mode, value |-> IF mode = "manual" THEN ProposedMax ELSE 0]])

EditSubclass ==
  /\ At("subclass") \/ (At("prerequisites") /\ MissingSubclass(sheet))
  /\ \E subclass \in {"srd", "manual"} : Edit([draft EXCEPT !.subclass = subclass])

(* Two points in Constitution, in the casting ability, in both or in       *)
(* others; a feat's note for a V1 sheet.                                   *)
EditImprovement ==
  /\ At("asi")
  /\ \E improvement \in [kind : {"scores"}, con : {0, 1, 2}, cast : {0, 1, 2}] \cup {FeatNote} :
       /\ improvement.con + improvement.cast \in {0, 2}
       /\ Casts(sheet.class, Target) \/ improvement.cast = 0
       /\ improvement.kind = "feat" => sheet.schema = "V1"
       /\ Edit([draft EXCEPT !.improvement = improvement])

(* The choices shown: the missing ones with the count of the sheet's level *)
(* (the first step), the others with the count of the next level.          *)
Select(choice, l) ==
  \E selection \in Selections(choice, l) :
    Edit([draft EXCEPT !.choices = Reconciled([@ EXCEPT ![choice.id] = selection])])

EditMissingChoice ==
  At("prerequisites") /\ \E choice \in plan.missing : Select(choice, sheet.level)

EditChoice == At("class-specific") /\ \E choice \in TargetChoices : Select(choice, Target)

EditSpells == At("spells") /\ \E spells \in SpellSelections : Edit([draft EXCEPT !.spells = spells])

ConfirmRetained == At("confirm-retained") /\ Edit([draft EXCEPT !.retained = TRUE])

(* Mutant: each step is checked when it is left and never again.           *)
ContinueWithoutReview ==
  /\ outcome = "editing" /\ ~plan.blocked /\ step < Len(Steps)
  /\ StepValid(Steps[step])
  /\ step' = step + 1
  /\ UNCHANGED <<sheet, plan, draft, outcome, result>>

(* Continue checks the step, and the whole draft before the review; hit    *)
(* points that no longer fit the maximum lead back to their step.          *)
Continue ==
  /\ outcome = "editing" /\ ~plan.blocked /\ step < Len(Steps)
  /\ StepValid(Steps[step])
  /\ step' = IF Steps[step + 1] # "review" \/ AllValid THEN step + 1
             ELSE IF \A i \in DOMAIN Steps : StepValid(Steps[i]) THEN 2
             ELSE step
  /\ UNCHANGED <<sheet, plan, draft, outcome, result>>

Back ==
  /\ outcome = "editing" /\ ~plan.blocked /\ step > 1
  /\ step' = step - 1
  /\ UNCHANGED <<sheet, plan, draft, outcome, result>>

(* The review is submitted and the server answers.                         *)
Submit ==
  /\ At("review") /\ AllValid
  /\ outcome' = IF Accepts(sheet, Request) THEN "saved" ELSE "refused"
  /\ result'  = IF Accepts(sheet, Request) THEN Leveled(sheet, Request) ELSE sheet
  /\ UNCHANGED <<sheet, plan, step, draft>>

(* A refused request leaves the user at the review, with what was entered. *)
Resume ==
  /\ outcome = "refused"
  /\ outcome' = "editing"
  /\ UNCHANGED <<sheet, plan, step, draft, result>>

Next ==
  \/ EditHitPoints \/ EditSubclass \/ EditImprovement \/ EditMissingChoice \/ EditChoice
  \/ EditSpells \/ ConfirmRetained \/ Continue \/ Back \/ Submit \/ Resume

Spec == Init /\ [][Next]_vars

-----------------------------------------------------------------------------
(* Every variable keeps its kind, and a saved sheet keeps the shape of the *)
(* sheet it was made of.                                                   *)
TypeOK ==
  /\ step \in DOMAIN Steps
  /\ DOMAIN draft = DOMAIN EmptyDraft(sheet)
  /\ draft.die \in 1 .. Rule.hitDie
  /\ \A id \in DOMAIN draft.choices : draft.choices[id].n \in 0 .. 5
  /\ outcome \in {"editing", "saved", "refused"}
  /\ DOMAIN result = DOMAIN sheet /\ DOMAIN result.recorded = DOMAIN sheet.recorded
  /\ result.level \in {sheet.level, sheet.level + 1} /\ Len(result.gains) = result.level - 1

(* The server computes the maximum again; it is the one the user reviewed, *)
(* and the current hit points are the ones the review announced; so are    *)
(* the scores. A V2 sheet is summed up again: that differs when an earlier *)
(* level gave the minimum of one and Constitution is better now.           *)
MinimumRevised ==
  /\ sheet.schema = "V2" /\ draft.improvement.con > 0
  /\ \E i \in DOMAIN sheet.gains : sheet.gains[i] + AbilityModifier(sheet.con) < 1

SavedAsReviewed ==
  outcome = "saved" =>
    /\ result.con = sheet.con + draft.improvement.con
    /\ result.cast = sheet.cast + draft.improvement.cast
    /\ ~MinimumRevised =>
         /\ result.max = ProposedMax
         /\ result.current = CurrentAfter(sheet, Request, ProposedMax)

(* A saved sheet is one that its level asks for: the subclass is decided,  *)
(* each choice that applies is answered, the spells have the table's       *)
(* numbers and none that the subclass gives is among the prepared ones, so *)
(* that the wizard finds nothing missing when it is opened again.          *)
LeveledSheetIsSound ==
  outcome = "saved" =>
    LET casting == Rule.spellcasting IN
    /\ result.level = Target
    /\ MissingChoices(result) = {} /\ ~MissingSubclass(result) /\ ~Blocked(result)
    /\ Casts(sheet.class, Target) =>
         /\ \/ PreparesSpells(sheet.class) /\ casting.cantripsKnown[Target] = Null
            \/ result.cantrips = AtLeast(0, casting.cantripsKnown[Target])
         /\ KnowsSpells(sheet.class) => result.leveled = casting.spellsKnown[Target]
         /\ draft.spells.listed => ~AlwaysPrepares(sheet.class, result.subclass, result.recorded, Target)
         /\ draft.spells.expanded => result.subclass = "srd"
         /\ PreparesSpells(sheet.class) =>
              draft.spells.prepared = PreparedSpellCount(sheet.class, result.cast, Target)

(* Where the two sides disagree, so that a reviewed request is refused:    *)
(* a choice only character creation has, collected for a V1 sheet; the     *)
(* invocation that needs a boon (a V2 sheet never has it among the         *)
(* features, a V1 sheet not before the choices are answered); a V2 note    *)
(* for a choice with options; the Circle's cantrip, which the wizard       *)
(* counts and the server does not; a cantrip listed by a caster that       *)
(* learns none; choices missing of another count than the next level's; a  *)
(* prepared or learned spell that a subclass or terrain selected after it  *)
(* gives or takes away; a maximum summed up again; and an improvement of   *)
(* calculated V2 scores.                                                   *)
Asked == plan.missing \cup TargetChoices
Disagreement ==
  \/ sheet.schema = "V1" /\ \E choice \in Asked : choice.creation
  \/ \E choice \in Asked : draft.choices[choice.id].mark /\ choice.id = Invocations
  \/ sheet.schema = "V2" /\ \E choice \in Asked : draft.choices[choice.id].note /\ choice.options # "none"
  \/ Granted > 0
  \/ Casts(sheet.class, Target) /\ sheet.cantrips > 0 /\ Rule.spellcasting.cantripsKnown[Target] = Null
  \/ /\ sheet.schema = "V1"
     /\ \E choice \in plan.missing :
          ~draft.choices[choice.id].note /\ choice.counts[sheet.level] # choice.counts[Target]
  \/ draft.spells.listed /\ AlwaysPrepares(sheet.class, SelectedSubclass, Leveled(sheet, Request).recorded, Target)
  \/ draft.spells.expanded /\ SelectedSubclass # "srd"
  \/ MinimumRevised /\ draft.current.mode = "manual"
  \/ sheet.scores = "calculated" /\ draft.improvement.kind # "none"

(* What the review shows is valid as a whole, whatever the user changed in *)
(* earlier steps after passing later ones (goNext, validateAllSteps), and  *)
(* the server, which checks it again in other words, accepts it except in  *)
(* the named cases: no other user meets a character that cannot be leveled *)
(* up (buildLeveledCharacter).                                             *)
ReviewedIsAccepted ==
  /\ Steps[step] = "review" => AllValid
  /\ outcome = "refused" => Disagreement

(* "If an earlier decision is missing and CharacterSheetV1 can represent   *)
(* it safely, the flow must collect it" (T-026 REQUIREMENTS.md:199): what  *)
(* is collected in the first step does not make the request refused.       *)
CollectedIsAccepted ==
  outcome = "refused" => \A choice \in plan.missing : draft.choices[choice.id] = NotSent
=============================================================================
