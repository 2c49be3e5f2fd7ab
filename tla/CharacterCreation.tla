-------------------------- MODULE CharacterCreation --------------------------
(***************************************************************************)
(* The creation of a character, from "Choose a mode" over the optional     *)
(* questionnaire and the structured form (character-creation/Structured    *)
(* CharacterCreation.tsx) to the server's answer. The user edits the draft *)
(* field by field in any order; most edits reconcile it at once. A review is reached through the form's own checks *)
(* and the client's contract; a save sends the reviewed draft.             *)
(*                                                                         *)
(* A scope bounds what the user of one behaviour touches:                  *)
(*   asks        TRUE: the page from its first screen on, with the form    *)
(*               opened but not edited; FALSE: the form, just opened       *)
(*   source      "guided" or "manual-transfer"                             *)
(*   build       the Fighter a guided form starts with                     *)
(*   races, classes, levels    the values selected, beside the first ones  *)
(*   scores      ability -> the values typed in                            *)
(*   raised      the abilities improved or given a Half-Elf's bonus        *)
(*   rolls       the hit point rolls typed in                              *)
(*   modes       the defense modes selected; items, the equipment handled  *)
(*   overrides   the overrides ticked                                      *)
(*   spells      "untouched", "plain", or "varied": with the spells that   *)
(*               are granted, listed, expanded or learned twice            *)
(*   imports     whether the source of the ability scores is switched      *)
(*   attacks     whether an attack is calculated with spellcasting         *)
(***************************************************************************)
EXTENDS CreationSheet, CreationQuestionnaire

CONSTANT Scopes
ASSUME ScopesAssumption ==
  \A s \in Scopes :
    /\ s.asks \in BOOLEAN /\ s.source \in {"guided", "manual-transfer"} /\ s.build \in Builds
    /\ s.races \subseteq DOMAIN Races \cup {"none", "manual"}
    /\ s.classes \subseteq DOMAIN Classes \cup {"none", "manual"}
    /\ s.levels \subseteq Level
    /\ DOMAIN s.scores \subseteq Abilities /\ \A a \in DOMAIN s.scores : s.scores[a] \subseteq Int
    /\ s.rolls \subseteq Nat /\ s.modes \subseteq {"armor", "unarmored", "manual"}
    /\ s.items \subseteq Items /\ s.overrides \subseteq {"maximum", "speed"}

VARIABLES scope,    \* the scope of this behaviour
          draft,    \* the draft, see CreationDraft
          view,     \* "page" before the form, "form", "review" or, after
                    \* a save, "opened"
          outcome   \* what the form says: "none", "flagged" (fields are
                    \* marked), "puzzled" (a message that names no field)
                    \* or "refused" (the server's error)
vars == << scope, quiz, draft, view, outcome >>

------------------------------------------------------------------------------
FirstDraft(source, build) ==
  LET guided == source = "guided"
      base   == IF build = Strength THEN Scores(15, 10, 14, 8, 12, 13) ELSE Scores(10, 15, 14, 8, 13, 12)
      armor  == IF build = Strength THEN "chain_mail" ELSE "leather_armor"
      shield == IF build = Strength THEN Shield ELSE "none"
  IN
  [race |-> IF guided THEN "human" ELSE "none", class |-> IF guided THEN "fighter" ELSE "none",
   level |-> 1, subclass |-> "none", mode |-> IF guided THEN "calculated" ELSE "imported",
   base |-> base, retained |-> base,
   imported |-> Scores(15, 14, 13, 12, 10, 8),
   gains |-> <<>>, choices |-> <<>>, notes |-> {}, spells |-> Unlearned("none"), overrides |-> {},
   defense |-> [mode |-> IF guided THEN "armor" ELSE "unarmored",
                armor |-> IF guided THEN armor ELSE "none",
                shield |-> IF guided THEN shield ELSE "none", formula |-> "standard-unarmored"],
   equipment |-> [item \in Items |-> IF guided /\ item \in {armor, shield} THEN "worn" ELSE "absent"],
   spellAttack |-> FALSE]

FirstDrafts(source, build) == Reconciled(FirstDraft(source, build), FirstDraft(source, build))

Init ==
  /\ scope \in Scopes
  /\ quiz = IF scope.asks THEN FirstQuiz
            ELSE IF scope.source = "guided" THEN QuizLeadingTo(scope.build)
            ELSE [FirstQuiz EXCEPT !.mode = "manual"]
  /\ draft \in FirstDrafts(scope.source, scope.build)
  /\ view = (IF scope.asks THEN "page" ELSE "form")
  /\ outcome = "none"

------------------------------------------------------------------------------
(* Before the form. Opening it makes its draft the page's continuation at  *)
(* once, and from then on nothing but the form is rendered: its Back       *)
(* changes the questionnaire behind it. Leaving the page forgets it all.   *)
OpenForm(source, build) ==
  /\ view' = "form"
  /\ draft' \in FirstDrafts(source, build)

PickMode ==
  /\ view = "page" /\ outcome' = outcome /\ scope' = scope
  /\ \E mode \in {"manual", "guided"} :
       /\ ChooseMode(mode)
       /\ IF mode = "manual" THEN OpenForm("manual-transfer", Strength) ELSE UNCHANGED << draft, view >>

Answer == view = "page" /\ AnswerQuestion /\ UNCHANGED << scope, draft, view, outcome >>
Advance == view = "page" /\ GoNext /\ UNCHANGED << scope, draft, view, outcome >>

StepBack ==
  /\ \/ view = "page" /\ Screen \in {"quiz", "recommendation"}
     \/ scope.asks /\ view = "form" /\ quiz.mode = "guided"
  /\ GoBack
  /\ UNCHANGED << scope, draft, view, outcome >>

PickBuild ==
  /\ view = "page" /\ outcome' = outcome /\ scope' = scope
  /\ \E build \in Builds : ChooseBuild(build) /\ OpenForm("guided", build)

Leave ==
  /\ scope.asks /\ view \in {"page", "form", "review"}
  /\ quiz' = FirstQuiz /\ view' = "page" /\ outcome' = "none"
  /\ draft' \in FirstDrafts(scope.source, scope.build)
  /\ scope' = scope

------------------------------------------------------------------------------
(* update: an edit clears what the form says; most are reconciled.         *)
Edit(edited) ==
  /\ view = "form" /\ ~scope.asks
  /\ draft' = edited /\ outcome' = "none"
  /\ UNCHANGED << scope, quiz, view >>

EditReconciled(edited) == \E reconciled \in Reconciled(draft, edited) : Edit(reconciled)

------------------------------------------------------------------------------
(* Identity. The scores of a manual race are not calculated.               *)
SetRace ==
  \E race \in scope.races :
    EditReconciled([draft EXCEPT !.race = race, !.mode = IF race = "manual" THEN "imported" ELSE @])
SetClass == \E class \in scope.classes : EditReconciled([draft EXCEPT !.class = class])
SetLevel == \E level \in scope.levels : EditReconciled([draft EXCEPT !.level = level])
SetSubclass ==
  \E subclass \in AvailableSubclasses(draft) : EditReconciled([draft EXCEPT !.subclass = subclass])

(* Ability scores. What is typed as a base score is also retained.         *)
SetMode ==
  /\ scope.imports
  /\ \E mode \in {"calculated", "imported"} :
       (mode = "calculated" => draft.race # "manual") /\ Edit([draft EXCEPT !.mode = mode])

SetScore ==
  \E ability \in DOMAIN scope.scores :
    \E score \in scope.scores[ability] :
      Edit(IF draft.mode = "calculated"
           THEN [draft EXCEPT !.base[ability] = score, !.retained[ability] = score]
           ELSE [draft EXCEPT !.imported[ability] = score])

RaceChoicesAnswered(d) ==
  \A choice \in RaceChoicesOf(d.race) :
    choice.id \in DOMAIN d.choices
      /\ SelectionValid(d, choice.id, choice.count, choice.options, FALSE) /\ AddsLanguage(d, choice.id)

(* The button restores the scores without clearing what the form says.     *)
ResetToCalculated ==
  /\ view = "form" /\ ~scope.asks /\ scope.imports /\ draft.mode = "imported" /\ draft.race # "manual"
  /\ \E reset \in Reconciled(draft, draft) :
       /\ RaceChoicesAnswered(reset)
       /\ draft' = [reset EXCEPT !.mode = "calculated", !.base = reset.retained]
  /\ UNCHANGED << scope, quiz, view, outcome >>

(* Rule choices: nothing or as many options as the choice asks for, in the *)
(* order of the list. slice(0, count) keeps the first ones.                *)
Selectable(choice) ==
  { option \in ToSet(choice.options) :
      choice.id \in {HalfElfAbilities} \cup Range(ImprovementId) => ToSet(option) \subseteq scope.raised }

Choose ==
  \E choice \in AvailableChoices(draft) :
    /\ ~ByNoteOnly(choice)
    /\ \E chosen \in kSubset(choice.count, Selectable(choice)) \cup {{}} :
         EditReconciled([draft EXCEPT !.choices[choice.id] = Filter(choice.options, chosen)])

WriteNote ==
  \E choice \in AvailableChoices(draft) :
    ByNoteOnly(choice) /\ Edit([draft EXCEPT !.notes = SymDiff(@, {choice.id})])

------------------------------------------------------------------------------
(* Hit points, defense, attacks and equipment. Selecting an armor or the   *)
(* shield puts it on.                                                      *)
SetGain ==
  \E level \in DOMAIN draft.gains :
    \E gain \in scope.rolls \cup {0} : Edit([draft EXCEPT !.gains[level] = gain])

ToggleOverride ==
  \E override \in scope.overrides : Edit([draft EXCEPT !.overrides = SymDiff(@, {override})])

ToggleSpellAttack == scope.attacks /\ Edit([draft EXCEPT !.spellAttack = ~@])

PutOn(d, item) == [d EXCEPT !.equipment = [i \in Items |-> IF i = item THEN "worn" ELSE @[i]]]

SetDefenseMode == \E mode \in scope.modes : EditReconciled([draft EXCEPT !.defense.mode = mode])
SetArmor ==
  /\ draft.defense.mode = "armor"
  /\ \E armor \in (Armors \cap scope.items) \cup {"none"} :
       EditReconciled(PutOn([draft EXCEPT !.defense.armor = armor], armor))
SetShield ==
  /\ \/ draft.defense.mode = "armor"
     \/ draft.defense.mode = "unarmored" /\ draft.defense.formula # "monk-unarmored-defense"
  /\ \E shield \in ({Shield} \cap scope.items) \cup {"none"} :
       EditReconciled(PutOn([draft EXCEPT !.defense.shield = shield], shield))
SetFormula ==
  /\ draft.defense.mode = "unarmored"
  /\ \E formula \in Range(FormulaOf) \cup {"standard-unarmored"} :
       AllowsFormula(draft, formula) /\ EditReconciled([draft EXCEPT !.defense.formula = formula])

AddEquipment ==
  \E item \in scope.items :
    Edit([draft EXCEPT !.equipment[item] = IF @ = "absent" THEN "carried" ELSE @])
ToggleEquipped ==
  \E item \in scope.items :
    /\ draft.equipment[item] # "absent"
    /\ EditReconciled([draft EXCEPT !.equipment[item] = IF @ = "worn" THEN "carried" ELSE "worn"])
RemoveEquipment ==
  \E item \in scope.items :
    /\ draft.equipment[item] # "absent"
    /\ EditReconciled([draft EXCEPT !.equipment[item] = "absent"])

------------------------------------------------------------------------------
(* Spells: a list is filled or emptied. The lists are not reconciled with  *)
(* each other, but a spell that leaves the spellbook is not prepared.      *)
EditsSpells == scope.spells # "untouched" /\ draft.spells.mode # "none"
Varied == scope.spells = "varied"

EditCantrips ==
  /\ EditsSpells /\ WantedCantrips(draft) > 0
  /\ \E known \in {0, WantedCantrips(draft)} :
       \E mending \in {FALSE} \cup (IF Varied /\ known > 0 /\ OffersMending(draft) THEN {TRUE} ELSE {}) :
         Edit([draft EXCEPT !.spells.cantrips = known, !.spells.mending = mending])

(* What may remain prepared with the spells learned.                       *)
StillPrepared(spells, learned) ==
  IF spells.mode # "spellbook-prepared" THEN {spells.prepared}
  ELSE LET book == Learned([learned |-> learned])
           lost == AtLeast(0, Learned(spells) - book)
       IN AtLeast(0, spells.prepared - lost) .. AtMost(book, spells.prepared)

(* One of the spells just learned is among the others, or two others are   *)
(* still the same.                                                         *)
MayRepeat(spells, count, others) ==
  \/ Varied /\ count > 0 /\ others # {}
  \/ spells.repeated /\ Cardinality(others) > 1

EditLearned ==
  /\ EditsSpells
  /\ \E l \in LearningLevels(draft) :
       \E count \in {0, WantedLearned(draft, l)} :
         LET learned == [draft.spells.learned EXCEPT ![l] = count]
             others  == { level \in Level : learned[level] > 0 } \ {l}
         IN \E expanded \in IF l # 1 THEN {draft.spells.expanded}
                            ELSE {FALSE} \cup (IF Varied /\ count > 0 /\ OffersExpanded(draft) THEN {TRUE} ELSE {}),
               repeated \in {FALSE} \cup (IF MayRepeat(draft.spells, count, others) THEN {TRUE} ELSE {}),
               prepared \in StillPrepared(draft.spells, learned) :
              Edit([draft EXCEPT !.spells.learned = learned, !.spells.expanded = expanded,
                                 !.spells.repeated = repeated, !.spells.prepared = prepared])

(* As many as the scores with or without the improvement allow, or none.   *)
PreparedLimits(d) ==
  { PreparedSpellCount(d.class, scores[CastingAbility[d.class]], d.level) :
      scores \in {ScoresOfRace(d), FinalScores(d)} }

EditPrepared ==
  /\ EditsSpells /\ draft.spells.mode \in {"prepared", "spellbook-prepared"}
  /\ \E count \in PreparedLimits(draft) \cup {0} :
       /\ draft.spells.mode = "spellbook-prepared" => count <= Learned(draft.spells)
       /\ \E listed \in {FALSE} \cup (IF Varied /\ count > 0 /\ OffersListed(draft) THEN {TRUE} ELSE {}) :
            Edit([draft EXCEPT !.spells.prepared = count, !.spells.listed = listed])

------------------------------------------------------------------------------
(* Review and save. An answer other than the created character leaves the  *)
(* review open with the server's message.                                  *)
Review ==
  /\ view = "form"
  /\ \/ ~FieldsComplete(draft) /\ outcome' = "flagged" /\ view' = view
     \/ /\ FieldsComplete(draft)
        /\ IF ContractAccepts(draft) THEN outcome' = "none" /\ view' = "review"
                                     ELSE outcome' = "puzzled" /\ view' = view
  /\ UNCHANGED << scope, quiz, draft >>

BackToEdit ==
  /\ view = "review"
  /\ view' = "form" /\ outcome' = "none"
  /\ UNCHANGED << scope, quiz, draft >>

Save ==
  /\ view = "review"
  /\ IF ServerAccepts(draft) THEN view' = "opened" /\ outcome' = "none"
                             ELSE view' = view /\ outcome' = "refused"
  /\ UNCHANGED << scope, quiz, draft >>

Next ==
  \/ PickMode \/ Answer \/ Advance \/ StepBack \/ PickBuild \/ Leave
  \/ SetRace \/ SetClass \/ SetLevel \/ SetSubclass
  \/ SetMode \/ SetScore \/ ResetToCalculated \/ Choose \/ WriteNote
  \/ SetGain \/ ToggleOverride \/ ToggleSpellAttack
  \/ SetDefenseMode \/ SetArmor \/ SetShield \/ SetFormula
  \/ AddEquipment \/ ToggleEquipped \/ RemoveEquipment
  \/ EditCantrips \/ EditLearned \/ EditPrepared
  \/ Review \/ BackToEdit \/ Save

Spec == Init /\ [][Next]_vars

------------------------------------------------------------------------------
(* The recommendation on the screen is the one for the answers as they are *)
(* now, whichever the user went back to and changed: the build that at     *)
(* least three of the five answers fall back on, with a note on at most    *)
(* two future paths, each as strong as any other bucket, and none left out *)
(* while there is room; a build marked as overridden is not the            *)
(* recommended one (T-012 REQUIREMENTS.md: "A user changes an earlier      *)
(* answer: recompute bucket scores, future-path signals, and               *)
(* recommendation").                                                       *)
Favours(build, q) == Selected(quiz.answers, q).build = build
Strongest(bucket) ==
  \A other \in Buckets : BucketScore(quiz.answers, other) <= BucketScore(quiz.answers, bucket)

RecommendationFitsTheAnswers ==
  /\ view = "page" /\ Screen = "recommendation" =>
       /\ Cardinality({ q \in Question : Favours(quiz.recommended, q) }) >= 3
       /\ ToSet(quiz.unsupported) \subseteq { bucket \in ToSet(FutureBuckets) : Strongest(bucket) }
       /\ Len(quiz.unsupported) <= 2
       /\ Len(quiz.unsupported) < 2 =>
            { bucket \in ToSet(FutureBuckets) : Strongest(bucket) } \subseteq ToSet(quiz.unsupported)
  /\ quiz.overridden <=> "none" \notin {quiz.selected, quiz.recommended} /\ quiz.selected # quiz.recommended

(* Whatever was edited before, in whatever order, the draft holds only     *)
(* what the form offers for its race, class, level and subclass: answers   *)
(* to the offered choices, a roll for each level gained, spells the class  *)
(* learns there and no granted or always prepared one again, and a defense *)
(* made of what is worn. Violated by an edit that is reconciled in the     *)
(* wrong order, or only in part (characterSheetV2Draft.ts:234).            *)
DraftHoldsOnlyWhatIsOffered ==
  LET available == AvailableChoices(draft) IN
  /\ view \in {"page", "form", "review", "opened"} /\ outcome \in {"none", "flagged", "puzzled", "refused"}
  /\ draft.subclass \in AvailableSubclasses(draft)
  /\ DOMAIN draft.gains = IF IsSrdClass(draft) THEN 2 .. draft.level ELSE {}
  /\ DOMAIN draft.choices = { choice.id : choice \in available }
  /\ \A choice \in available :
       /\ ToSet(draft.choices[choice.id]) \subseteq ToSet(choice.options)
       /\ Len(draft.choices[choice.id]) <= choice.count
  /\ draft.spells.mode = SpellMode(draft)
  /\ LearnedAt(draft.spells) \subseteq LearningLevels(draft)
  /\ draft.spells.mending => OffersMending(draft) /\ draft.spells.cantrips > 0
  /\ draft.spells.listed => OffersListed(draft) /\ draft.spells.prepared > 0
  /\ draft.spells.expanded => OffersExpanded(draft) /\ draft.spells.learned[1] > 0
  /\ draft.spells.mode = "spellbook-prepared" => draft.spells.prepared <= Learned(draft.spells)
  /\ AllowsFormula(draft, draft.defense.formula)
  /\ \A item \in {draft.defense.armor, draft.defense.shield} \ {"none"} : Worn(draft, item)
  /\ \A item \in Items : Worn(draft, item) => item \in {draft.defense.armor, draft.defense.shield}

(* A review whose fields are all filled in is refused only for a reason    *)
(* the user can find: a number of prepared spells that the scores do not   *)
(* allow with and without the improvement, a spell held twice, a language  *)
(* already known, a roll above the die, a score out of bounds, an attack   *)
(* cast by a class that does not cast. No sequence of edits leaves the     *)
(* draft with anything else the contract refuses, which the form could not *)
(* explain (StructuredCharacterCreation.tsx:154 sets no other error).      *)
WrongPreparedCount(d) ==
  /\ IsSrdClass(d) /\ PreparesSpells(d.class)
  /\ \E scores \in {ScoresOfRace(d), FinalScores(d)} : ~PreparesExactly(d, scores)
SpellTwice(d) == d.spells.mode # "none" /\ (d.spells.repeated \/ ~CantripsDistinct(d))
LanguageKnown(d) == HighElfLanguage \in DOMAIN d.choices /\ ~AddsLanguage(d, HighElfLanguage)
RollAboveDie(d) == IsSrdClass(d) /\ \E l \in DOMAIN d.gains : d.gains[l] > Classes[d.class].hitDie
ScoreOutOfBounds(d) == ~ScoresInBounds(TypedScores(d)) \/ ~ScoresInBounds(FinalScores(d))
CastsWithout(d) == d.spellAttack /\ d.spells.mode = "none"

RefusalsAreExplained ==
  [][outcome' = "puzzled" /\ draft' = draft =>
       \/ WrongPreparedCount(draft) \/ SpellTwice(draft) \/ LanguageKnown(draft)
       \/ RollAboveDie(draft) \/ ScoreOutOfBounds(draft) \/ CastsWithout(draft)]_vars

(* A save gives the character the numbers that were reviewed, or is        *)
(* refused in one of three cases in which client and server disagree:      *)
(* calculated scores that an Ability Score Improvement changes (the server *)
(* compares the saved sheet with the scores of the race alone), a High     *)
(* Elf's cantrip on a character without spellcasting, and the score of a   *)
(* manual class above 30 with the race's bonus, which only the client lets *)
(* pass.                                                                   *)
SavesWhatWasReviewed ==
  /\ view = "opened" => SavedSheet(draft) = ShownSheet(draft)
  /\ outcome = "refused" =>
       \/ draft.mode = "calculated" /\ FinalScores(draft) # ScoresOfRace(draft)
       \/ draft.spells.mode = "none" /\ GrantedIds(draft) # {}
       \/ draft.class = "manual" /\ ~ScoresInBounds(FinalScores(draft))
=============================================================================
