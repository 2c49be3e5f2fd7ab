---------------------------- MODULE CreationSheet -----------------------------
(***************************************************************************)
(* The numbers of a created character, calculated twice: by the client for *)
(* the review (characters/characterSheetV2Calculations.ts) and by the      *)
(* server for the row it inserts (characters/character_sheet_v2            *)
(* _calculations.go). Overridden and manual values are typed, so that any  *)
(* number will do. Slots, passive Perception, damage and the lists of      *)
(* features and spells are left out.                                       *)
(***************************************************************************)
EXTENDS CreationContract, CreationServer

(* From the tables both sides share.                                       *)
SpeedFt(race) == IF race \in {"dwarf", "hill_dwarf", "gnome", "rock_gnome", "halfling", "lightfoot_halfling"}
                 THEN 25 ELSE 30
IgnoresHeavyArmor(race) == race \in {"dwarf", "hill_dwarf"}

ArmorRule ==
  [chain_mail    |-> [category |-> "Heavy", base |-> 16, dexterity |-> FALSE, strengthMinimum |-> 13],
   leather_armor |-> [category |-> "Light", base |-> 11, dexterity |-> TRUE, strengthMinimum |-> 0]]

(* What a feature adds; hit points are per level, armor class is in armor. *)
FeatureModifier ==
  [fastMovement |-> 10, unarmoredMovement |-> 10, dwarvenToughness |-> 1, draconicResilience |-> 1,
   defenseStyle |-> 1]

StyledClasses == {"fighter", "paladin", "ranger"}

Typed == [maximum |-> 10, speed |-> 30, armorClass |-> 10]

------------------------------------------------------------------------------
(* The client. A manual race is calculated as a human one, a manual class  *)
(* without any feature.                                                    *)
ShownModifier(r, a) == AbilityModifier(FinalScores(r)[a])
ShownProficiency(r) == IF r.level = 5 THEN 3 ELSE 2
CastsSpells(r) == IsSrdClass(r) /\ Casts(r.class, r.level)

ArmorOn(r)  == IF r.defense.mode = "armor" /\ Worn(r, r.defense.armor) THEN r.defense.armor ELSE "none"
ShieldOn(r) == r.defense.mode # "manual" /\ Worn(r, r.defense.shield)
WearsHeavy(r) == ArmorOn(r) # "none" /\ ArmorRule[ArmorOn(r)].category = "Heavy"

ShownInitiative(r) ==
  ShownModifier(r, "dexterity") + IF r.class = "bard" /\ r.level >= 2 THEN ShownProficiency(r) \div 2 ELSE 0

ShownSpeed(r) ==
  IF "speed" \in r.overrides THEN Typed.speed
  ELSE SpeedFt(r.race)
         - (IF /\ WearsHeavy(r) /\ FinalScores(r)["strength"] < ArmorRule[ArmorOn(r)].strengthMinimum
               /\ ~IgnoresHeavyArmor(r.race)
            THEN 10 ELSE 0)
         + (IF r.class = "barbarian" /\ r.level >= 5 /\ ~WearsHeavy(r) THEN FeatureModifier.fastMovement ELSE 0)
         + (IF r.class = "monk" /\ r.level >= 2 /\ ArmorOn(r) = "none" /\ ~ShieldOn(r)
            THEN FeatureModifier.unarmoredMovement ELSE 0)

GainAt(r, l) ==
  AtLeast(1, ShownModifier(r, "constitution") + IF l = 1 THEN Classes[r.class].hitDie
                                                ELSE IF r.gains[l] = 0 THEN Classes[r.class].fixedAverageHp
                                                ELSE r.gains[l])

ShownMaximum(r) ==
  IF "maximum" \in r.overrides THEN Typed.maximum
  ELSE SumOverLevels([l \in Level |-> IF l <= r.level THEN GainAt(r, l) ELSE 0])
         + (IF r.race = "hill_dwarf" THEN r.level * FeatureModifier.dwarvenToughness ELSE 0)
         + (IF r.class = "sorcerer" /\ r.subclass = "srd" THEN r.level * FeatureModifier.draconicResilience ELSE 0)

DefendsInStyle(r) ==
  r.class \in StyledClasses /\ \E id \in DOMAIN r.choices : <<"defense">> \in ToSet(r.choices[id])

FormulaBonus(r) ==
  CASE r.defense.formula = "barbarian-unarmored-defense" -> ShownModifier(r, "constitution")
    [] r.defense.formula = "monk-unarmored-defense"      -> ShownModifier(r, "wisdom")
    [] r.defense.formula = "draconic-resilience"         -> 3
    [] OTHER                                             -> 0

ShownArmorClass(r) ==
  CASE r.defense.mode = "manual" -> Typed.armorClass
    [] r.defense.mode = "armor" ->
         ArmorRule[ArmorOn(r)].base
           + (IF ArmorRule[ArmorOn(r)].dexterity THEN ShownModifier(r, "dexterity") ELSE 0)
           + (IF ShieldOn(r) THEN 2 ELSE 0) + (IF DefendsInStyle(r) THEN FeatureModifier.defenseStyle ELSE 0)
    [] OTHER -> 10 + ShownModifier(r, "dexterity") + FormulaBonus(r) + (IF ShieldOn(r) THEN 2 ELSE 0)

AttackAbility(r) == IF r.spellAttack THEN CastingAbility[r.class] ELSE "strength"

ShownSheet(r) ==
  [scores |-> FinalScores(r), proficiency |-> ShownProficiency(r), initiative |-> ShownInitiative(r),
   speed |-> ShownSpeed(r), maximum |-> ShownMaximum(r), armorClass |-> ShownArmorClass(r),
   saveDC |-> IF CastsSpells(r) THEN 8 + ShownProficiency(r) + ShownModifier(r, CastingAbility[r.class]) ELSE Null,
   attack |-> ShownModifier(r, AttackAbility(r)) + ShownProficiency(r)]

------------------------------------------------------------------------------
(* The server. Its armor is what is worn of what the defense names, in     *)
(* whatever mode.                                                          *)
CalculationRace(r)  == IF FromSrd(r.race) THEN r.race ELSE "human"
CalculationClass(r) == IF FromSrd(r.class) THEN r.class ELSE ""

Modifiers(r) == [a \in Abilities |-> AbilityModifier(ResolvedScores(r)[a])]
ClassProficiency(r) == 2 + r.level \div 5

ArmorState(r) ==
  LET armor == r.defense.armor \in Armors /\ IsWorn(r, r.defense.armor) IN
  [armor |-> IF armor THEN <<ArmorRule[r.defense.armor]>> ELSE <<>>,
   heavy |-> armor /\ ArmorRule[r.defense.armor].category = "Heavy",
   shield |-> r.defense.shield = Shield /\ IsWorn(r, Shield)]

(* Mutant: the weight of heavy armor is forgotten.                         *)
SavedSpeedUnburdened(r, state) == SpeedFt(CalculationRace(r))

SavedSpeed(r, state) ==
  LET burdened == /\ state.heavy /\ ResolvedScores(r)["strength"] < state.armor[1].strengthMinimum
                  /\ ~IgnoresHeavyArmor(CalculationRace(r))
      fast == CalculationClass(r) = "barbarian" /\ r.level >= 5 /\ ~state.heavy
      light == CalculationClass(r) = "monk" /\ r.level >= 2 /\ state.armor = <<>> /\ ~state.shield
  IN SpeedFt(CalculationRace(r)) + (IF burdened THEN -10 ELSE 0)
       + (IF fast THEN FeatureModifier.fastMovement ELSE 0)
       + (IF light THEN FeatureModifier.unarmoredMovement ELSE 0)

SavedMaximum(r) ==
  LET class == Classes[r.class]
      constitution == Modifiers(r)["constitution"]
      Rolled(l) == IF r.gains[l] > 0 THEN r.gains[l] ELSE class.fixedAverageHp
      tough == (IF r.race = "hill_dwarf" THEN FeatureModifier.dwarvenToughness ELSE 0)
                 + (IF SubclassIndex(r) = "sorcerer" THEN FeatureModifier.draconicResilience ELSE 0)
  IN AtLeast(1, class.hitDie + constitution)
       + SumOverLevels([l \in Level |-> IF l \in 2 .. r.level THEN AtLeast(1, Rolled(l) + constitution) ELSE 0])
       + tough * r.level

SavedArmorClass(r, state) ==
  LET modifiers == Modifiers(r)
      shieldBonus == IF state.shield THEN 2 ELSE 0
      style == /\ CalculationClass(r) \in StyledClasses
               /\ <<"defense">> \in AllOptions(r)
      legal == [formula \in {"standard-unarmored", "barbarian-unarmored-defense",
                             "monk-unarmored-defense", "draconic-resilience"} |->
                  CASE formula = "barbarian-unarmored-defense" ->
                         10 + modifiers["dexterity"] + modifiers["constitution"] + shieldBonus
                    [] formula = "monk-unarmored-defense" -> 10 + modifiers["dexterity"] + modifiers["wisdom"]
                    [] formula = "draconic-resilience" -> 13 + modifiers["dexterity"] + shieldBonus
                    [] OTHER -> 10 + modifiers["dexterity"] + shieldBonus]
  IN CASE r.defense.mode = "manual" -> Typed.armorClass
       [] r.defense.mode = "armor" ->
            state.armor[1].base + (IF state.armor[1].dexterity THEN modifiers["dexterity"] ELSE 0)
              + shieldBonus + (IF style THEN FeatureModifier.defenseStyle ELSE 0)
       [] OTHER -> legal[r.defense.formula]

SavedSheet(r) ==
  LET modifiers == Modifiers(r)
      proficiency == ClassProficiency(r)
      state == ArmorState(r)
      jack == CalculationClass(r) = "bard" /\ r.level >= 2
      cast == IF IsCaster(r) THEN CastingAbility[r.class] ELSE "none"
  IN [scores |-> ResolvedScores(r), proficiency |-> proficiency,
      initiative |-> modifiers["dexterity"] + (IF jack THEN proficiency \div 2 ELSE 0),
      speed |-> IF "speed" \in r.overrides THEN Typed.speed ELSE SavedSpeed(r, state),
      maximum |-> IF "maximum" \in r.overrides THEN Typed.maximum ELSE SavedMaximum(r),
      armorClass |-> SavedArmorClass(r, state),
      saveDC |-> IF cast = "none" THEN Null ELSE 8 + proficiency + modifiers[cast],
      attack |-> proficiency + modifiers[IF r.spellAttack THEN cast ELSE "strength"]]
=============================================================================
