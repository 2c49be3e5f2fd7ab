------------------------------ MODULE SpellLists ------------------------------
(***************************************************************************)
(* The spells of characterCreationRules.ts, up to the third level: on      *)
(* which class's list each of them is, and what a subclass makes of it.    *)
(* levelUpRules.ts holds the same table for the wizard. Elsewhere a        *)
(* character has numbers of spells; here are the facts that this           *)
(* abstraction rests on, evaluated over the table: the numbers can be      *)
(* chosen, and the spells told apart are the ones that are special.        *)
(***************************************************************************)
EXTENDS CreationDraft

(* A subclass can prepare a spell always, from a level of the class on     *)
(* (the Circle of the Land those of the terrain selected), or add it to    *)
(* the list the class learns from, as the Fiend does.                      *)
Membership(class, kind, terrain, from) == [class |-> class, kind |-> kind, terrain |-> terrain, from |-> from]
Prepares(class, from) == Membership(class, "always-prepared", "any", from)
OnLand(terrain, from) == Membership("druid", "always-prepared", terrain, from)
Expands(from)         == Membership("warlock", "expanded", "any", from)

Given(index, level, classes, memberships) ==
  [index |-> index, level |-> level, classes |-> classes, memberships |-> memberships]
Spell(index, level, classes) == Given(index, level, classes, {})

------------------------------------------------------------------------------
(* The table, in its order.                                                *)
FromAcidArrow ==
  { Given("acid-arrow", 2, {"wizard"}, {OnLand("swamp", 3)}),
    Spell("acid-splash", 0, {"sorcerer", "wizard"}),
    Spell("aid", 2, {"cleric", "paladin"}),
    Spell("alarm", 1, {"ranger", "wizard"}),
    Spell("alter-self", 2, {"sorcerer", "wizard"}) }

FromAnimalFriendship ==
  { Spell("animal-friendship", 1, {"bard", "druid", "ranger"}),
    Spell("animal-messenger", 2, {"bard", "druid", "ranger"}),
    Spell("animate-dead", 3, {"cleric", "wizard"}),
    Spell("arcane-lock", 2, {"wizard"}),
    Spell("arcanists-magic-aura", 2, {"wizard"}) }

FromAugury ==
  { Spell("augury", 2, {"cleric"}),
    Spell("bane", 1, {"bard", "cleric"}),
    Given("barkskin", 2, {"druid", "ranger"}, {OnLand("forest", 3)}),
    Given("beacon-of-hope", 3, {"cleric"}, {Prepares("cleric", 5)}),
    Spell("bestow-curse", 3, {"bard", "cleric", "wizard"}) }

FromBless ==
  { Given("bless", 1, {"cleric", "paladin"}, {Prepares("cleric", 1)}),
    Given("blindness-deafness", 2, {"bard", "cleric", "sorcerer", "wizard"}, {Expands(3)}),
    Spell("blink", 3, {"sorcerer", "wizard"}),
    Given("blur", 2, {"sorcerer", "wizard"}, {OnLand("desert", 3)}) }

FromBrandingSmite ==
  { Spell("branding-smite", 2, {"paladin"}),
    Given("burning-hands", 1, {"sorcerer", "wizard"}, {Expands(1)}),
    Given("call-lightning", 3, {"druid"}, {OnLand("forest", 5)}),
    Spell("calm-emotions", 2, {"bard", "cleric"}),
    Spell("charm-person", 1, {"bard", "druid", "sorcerer", "warlock", "wizard"}) }

FromChillTouch ==
  { Spell("chill-touch", 0, {"sorcerer", "warlock", "wizard"}),
    Spell("clairvoyance", 3, {"bard", "cleric", "sorcerer", "wizard"}),
    Spell("color-spray", 1, {"sorcerer", "wizard"}),
    Given("command", 1, {"cleric", "paladin"}, {Expands(1)}),
    Spell("comprehend-languages", 1, {"bard", "sorcerer", "warlock", "wizard"}) }

FromConjureAnimals ==
  { Spell("conjure-animals", 3, {"druid", "ranger"}),
    Spell("continual-flame", 2, {"cleric", "wizard"}),
    Spell("counterspell", 3, {"sorcerer", "warlock", "wizard"}),
    Given("create-food-and-water", 3, {"cleric", "druid", "paladin"}, {OnLand("desert", 5)}),
    Spell("create-or-destroy-water", 1, {"cleric", "druid"}) }

FromCureWounds ==
  { Given("cure-wounds", 1, {"bard", "cleric", "druid", "paladin", "ranger"},
          {Prepares("cleric", 1)}),
    Spell("dancing-lights", 0, {"bard", "sorcerer", "wizard"}),
    Given("darkness", 2, {"sorcerer", "warlock", "wizard"}, {OnLand("swamp", 3)}),
    Spell("darkvision", 2, {"druid", "ranger", "sorcerer", "wizard"}) }

FromDaylight ==
  { Given("daylight", 3, {"cleric", "druid", "paladin", "ranger", "sorcerer"},
          {OnLand("grassland", 5)}),
    Spell("detect-evil-and-good", 1, {"cleric", "paladin"}),
    Spell("detect-magic", 1, {"bard", "cleric", "druid", "paladin", "ranger", "sorcerer", "wizard"}),
    Spell("detect-poison-and-disease", 1, {"cleric", "druid", "paladin", "ranger"}) }

FromDetectThoughts ==
  { Spell("detect-thoughts", 2, {"bard", "sorcerer", "wizard"}),
    Spell("disguise-self", 1, {"bard", "sorcerer", "wizard"}),
    Spell("dispel-magic", 3, {"bard", "cleric", "druid", "paladin", "sorcerer", "warlock", "wizard"}),
    Spell("divine-favor", 1, {"paladin"}),
    Spell("druidcraft", 0, {"druid"}) }

FromEldritchBlast ==
  { Spell("eldritch-blast", 0, {"warlock"}),
    Spell("enhance-ability", 2, {"bard", "cleric", "druid", "sorcerer"}),
    Spell("enlarge-reduce", 2, {"sorcerer", "wizard"}),
    Spell("entangle", 1, {"druid"}),
    Spell("enthrall", 2, {"bard", "warlock"}) }

FromExpeditiousRetreat ==
  { Spell("expeditious-retreat", 1, {"sorcerer", "warlock", "wizard"}),
    Spell("faerie-fire", 1, {"druid"}),
    Spell("false-life", 1, {"sorcerer", "wizard"}),
    Spell("fear", 3, {"bard", "sorcerer", "warlock", "wizard"}),
    Spell("feather-fall", 1, {"bard", "sorcerer", "wizard"}) }

FromFindFamiliar ==
  { Spell("find-familiar", 1, {"wizard"}),
    Spell("find-steed", 2, {"paladin"}),
    Spell("find-traps", 2, {"cleric", "druid", "ranger"}),
    Spell("fire-bolt", 0, {"sorcerer", "wizard"}),
    Given("fireball", 3, {"sorcerer", "wizard"}, {Expands(5)}) }

FromFlameBlade ==
  { Spell("flame-blade", 2, {"druid"}),
    Spell("flaming-sphere", 2, {"druid", "wizard"}),
    Spell("floating-disk", 1, {"wizard"}),
    Spell("fly", 3, {"sorcerer", "warlock", "wizard"}),
    Spell("fog-cloud", 1, {"druid", "ranger", "sorcerer", "wizard"}) }

FromGaseousForm ==
  { Spell("gaseous-form", 3, {"sorcerer", "warlock", "wizard"}),
    Spell("gentle-repose", 2, {"cleric", "wizard"}),
    Spell("glyph-of-warding", 3, {"bard", "cleric", "wizard"}),
    Spell("goodberry", 1, {"druid", "ranger"}),
    Spell("grease", 1, {"wizard"}) }

FromGuidance ==
  { Spell("guidance", 0, {"cleric", "druid"}),
    Spell("guiding-bolt", 1, {"cleric"}),
    Spell("gust-of-wind", 2, {"druid", "sorcerer", "wizard"}),
    Given("haste", 3, {"sorcerer", "wizard"}, {OnLand("grassland", 5)}),
    Spell("healing-word", 1, {"bard", "cleric", "druid"}) }

FromHeatMetal ==
  { Spell("heat-metal", 2, {"bard", "druid"}),
    Spell("hellish-rebuke", 1, {"warlock"}),
    Spell("heroism", 1, {"bard", "paladin"}),
    Spell("hideous-laughter", 1, {"bard", "wizard"}),
    Given("hold-person", 2, {"bard", "cleric", "druid", "sorcerer", "warlock", "wizard"},
          {OnLand("arctic", 3)}) }

FromHuntersMark ==
  { Spell("hunters-mark", 1, {"ranger"}),
    Spell("hypnotic-pattern", 3, {"bard", "sorcerer", "warlock", "wizard"}),
    Spell("identify", 1, {"bard", "wizard"}),
    Spell("illusory-script", 1, {"bard", "warlock", "wizard"}),
    Spell("inflict-wounds", 1, {"cleric"}) }

FromInvisibility ==
  { Given("invisibility", 2, {"bard", "sorcerer", "warlock", "wizard"}, {OnLand("grassland", 3)}),
    Spell("jump", 1, {"druid", "ranger", "sorcerer", "wizard"}),
    Spell("knock", 2, {"bard", "sorcerer", "wizard"}),
    Given("lesser-restoration", 2, {"bard", "cleric", "druid", "paladin", "ranger"},
          {Prepares("paladin", 5), Prepares("cleric", 3)}) }

FromLevitate ==
  { Spell("levitate", 2, {"sorcerer", "wizard"}),
    Spell("light", 0, {"bard", "cleric", "sorcerer", "wizard"}),
    Given("lightning-bolt", 3, {"sorcerer", "wizard"}, {OnLand("mountain", 5)}),
    Spell("locate-animals-or-plants", 2, {"bard", "druid", "ranger"}) }

FromLocateObject ==
  { Spell("locate-object", 2, {"bard", "cleric", "druid", "paladin", "ranger", "wizard"}),
    Spell("longstrider", 1, {"bard", "druid", "ranger", "wizard"}),
    Spell("mage-armor", 1, {"sorcerer", "wizard"}),
    Spell("mage-hand", 0, {"bard", "sorcerer", "warlock", "wizard"}),
    Spell("magic-circle", 3, {"cleric", "paladin", "warlock", "wizard"}) }

FromMagicMissile ==
  { Spell("magic-missile", 1, {"sorcerer", "wizard"}),
    Spell("magic-mouth", 2, {"bard", "wizard"}),
    Spell("magic-weapon", 2, {"paladin", "wizard"}),
    Spell("major-image", 3, {"bard", "sorcerer", "warlock", "wizard"}),
    Spell("mass-healing-word", 3, {"cleric"}) }

FromMeldIntoStone ==
  { Given("meld-into-stone", 3, {"cleric"}, {OnLand("mountain", 5)}),
    Spell("mending", 0, {"bard", "cleric", "druid", "sorcerer", "wizard"}),
    Spell("message", 0, {"bard", "sorcerer", "wizard"}),
    Spell("minor-illusion", 0, {"bard", "sorcerer", "warlock", "wizard"}) }

FromMirrorImage ==
  { Given("mirror-image", 2, {"sorcerer", "warlock", "wizard"}, {OnLand("coast", 3)}),
    Given("misty-step", 2, {"sorcerer", "warlock", "wizard"}, {OnLand("coast", 3)}),
    Spell("moonbeam", 2, {"druid"}),
    Spell("nondetection", 3, {"bard", "ranger", "wizard"}) }

FromPassWithoutTrace ==
  { Given("pass-without-trace", 2, {"druid", "ranger"}, {OnLand("grassland", 3)}),
    Spell("phantom-steed", 3, {"wizard"}),
    Given("plant-growth", 3, {"bard", "druid", "ranger"}, {OnLand("forest", 5)}),
    Spell("poison-spray", 0, {"druid", "sorcerer", "warlock", "wizard"}) }

FromPrayerOfHealing ==
  { Spell("prayer-of-healing", 2, {"cleric"}),
    Spell("prestidigitation", 0, {"bard", "sorcerer", "warlock", "wizard"}),
    Spell("produce-flame", 0, {"druid"}),
    Given("protection-from-energy", 3, {"cleric", "druid", "ranger", "sorcerer", "wizard"},
          {OnLand("desert", 5)}) }

FromProtectionFromEvilAndGood ==
  { Given("protection-from-evil-and-good", 1, {"cleric", "paladin", "warlock", "wizard"},
          {Prepares("paladin", 3)}),
    Spell("protection-from-poison", 2, {"cleric", "druid", "paladin", "ranger"}),
    Spell("purify-food-and-drink", 1, {"cleric", "druid", "paladin"}),
    Spell("ray-of-enfeeblement", 2, {"warlock", "wizard"}),
    Spell("ray-of-frost", 0, {"sorcerer", "wizard"}) }

FromRemoveCurse ==
  { Spell("remove-curse", 3, {"cleric", "paladin", "warlock", "wizard"}),
    Spell("resistance", 0, {"cleric", "druid"}),
    Given("revivify", 3, {"cleric", "paladin"}, {Prepares("cleric", 5)}),
    Spell("rope-trick", 2, {"wizard"}),
    Spell("sacred-flame", 0, {"cleric"}) }

FromSanctuary ==
  { Given("sanctuary", 1, {"cleric"}, {Prepares("paladin", 3)}),
    Given("scorching-ray", 2, {"sorcerer", "wizard"}, {Expands(3)}),
    Spell("see-invisibility", 2, {"bard", "sorcerer", "wizard"}),
    Spell("sending", 3, {"bard", "cleric", "wizard"}) }

FromShatter ==
  { Spell("shatter", 2, {"bard", "sorcerer", "warlock", "wizard"}),
    Spell("shield", 1, {"sorcerer", "wizard"}),
    Spell("shield-of-faith", 1, {"cleric", "paladin"}),
    Spell("shillelagh", 0, {"druid"}),
    Spell("shocking-grasp", 0, {"sorcerer", "wizard"}) }

FromSilence ==
  { Given("silence", 2, {"bard", "cleric", "ranger"}, {OnLand("desert", 3)}),
    Spell("silent-image", 1, {"bard", "sorcerer", "wizard"}),
    Spell("sleep", 1, {"bard", "sorcerer", "wizard"}),
    Given("sleet-storm", 3, {"druid", "sorcerer", "wizard"}, {OnLand("arctic", 5)}) }

FromSlow ==
  { Given("slow", 3, {"sorcerer", "wizard"}, {OnLand("arctic", 5)}),
    Spell("spare-the-dying", 0, {"cleric"}),
    Spell("speak-with-animals", 1, {"bard", "druid", "ranger"}),
    Spell("speak-with-dead", 3, {"bard", "cleric"}),
    Spell("speak-with-plants", 3, {"bard", "druid", "ranger"}) }

FromSpiderClimb ==
  { Given("spider-climb", 2, {"sorcerer", "warlock", "wizard"},
          {OnLand("forest", 3), OnLand("mountain", 3)}),
    Given("spike-growth", 2, {"druid", "ranger"}, {OnLand("arctic", 3), OnLand("mountain", 3)}),
    Spell("spirit-guardians", 3, {"cleric"}) }

FromSpiritualWeapon ==
  { Given("spiritual-weapon", 2, {"cleric"}, {Prepares("cleric", 3)}),
    Given("stinking-cloud", 3, {"bard", "sorcerer", "wizard"}, {Expands(5), OnLand("swamp", 5)}),
    Spell("suggestion", 2, {"bard", "sorcerer", "warlock", "wizard"}),
    Spell("thaumaturgy", 0, {"cleric"}) }

FromThunderwave ==
  { Spell("thunderwave", 1, {"bard", "druid", "sorcerer", "wizard"}),
    Spell("tiny-hut", 3, {"bard", "wizard"}),
    Spell("tongues", 3, {"bard", "cleric", "sorcerer", "warlock", "wizard"}),
    Spell("true-strike", 0, {"bard", "sorcerer", "warlock", "wizard"}),
    Spell("unseen-servant", 1, {"bard", "warlock", "wizard"}) }

FromVampiricTouch ==
  { Spell("vampiric-touch", 3, {"warlock", "wizard"}),
    Spell("vicious-mockery", 0, {"bard"}),
    Spell("warding-bond", 2, {"cleric"}),
    Given("water-breathing", 3, {"druid", "ranger", "sorcerer", "wizard"}, {OnLand("coast", 5)}) }

FromWaterWalk ==
  { Given("water-walk", 3, {"cleric", "druid", "ranger", "sorcerer"},
          {OnLand("coast", 5), OnLand("swamp", 5)}),
    Spell("web", 2, {"sorcerer", "wizard"}),
    Spell("wind-wall", 3, {"druid", "ranger"}),
    Given("zone-of-truth", 2, {"bard", "cleric", "paladin"}, {Prepares("paladin", 5)}) }

Spells == UNION {
  FromAcidArrow, FromAnimalFriendship, FromAugury, FromBless, FromBrandingSmite,
  FromChillTouch, FromConjureAnimals, FromCureWounds, FromDaylight, FromDetectThoughts,
  FromEldritchBlast, FromExpeditiousRetreat, FromFindFamiliar, FromFlameBlade,
  FromGaseousForm, FromGuidance, FromHeatMetal, FromHuntersMark, FromInvisibility,
  FromLevitate, FromLocateObject, FromMagicMissile, FromMeldIntoStone, FromMirrorImage,
  FromPassWithoutTrace, FromPrayerOfHealing, FromProtectionFromEvilAndGood,
  FromRemoveCurse, FromSanctuary, FromShatter, FromSilence, FromSlow, FromSpiderClimb,
  FromSpiritualWeapon, FromThunderwave, FromVampiricTouch, FromWaterWalk }

------------------------------------------------------------------------------
(* A class's own list, and what its subclass does with it.                 *)
ListOf(class, level) == { spell \in Spells : class \in spell.classes /\ spell.level = level }

(* With any subclass and any terrain, so never too few.                    *)
AlwaysPreparedAt(class, l) ==
  { spell \in Spells : \E m \in spell.memberships : m.class = class /\ m.kind = "always-prepared" /\ m.from <= l }

(* The first level at which the subclass of a class has spells of a kind,  *)
(* 6 if it has none.                                                       *)
GivesFrom(class, kind) ==
  Min({6} \cup { m.from : m \in { n \in UNION { spell.memberships : spell \in Spells } : n.class = class /\ n.kind = kind } })

Offered(c, l) == UNION { ListOf(c, n) : n \in 1 .. HighestSpellLevel(c, l) }

(* Spells that a class can prepare and its subclass (in the forest, for    *)
(* the Circle of the Land) prepares always, at the same level or later.    *)
ListedSpells(c) ==
  { spell \in Spells : /\ c \in spell.classes
                       /\ \E m \in spell.memberships :
                            m.class = c /\ m.kind = "always-prepared" /\ m.terrain \in {"any", "forest"} }

------------------------------------------------------------------------------
(* The lists hold what the rules ask for. A level never asks for more      *)
(* cantrips (with two granted ones aside), known spells (with one to       *)
(* replace), spells for the book or prepared spells (those always prepared *)
(* aside, and up to the score of 20 that improvements are capped at) than  *)
(* the class is offered: the wizard offers nothing else, so a step asking  *)
(* for more could not be left. So a number of spells stands for them.      *)
ASSUME ListsSuffice ==
  \A c \in DOMAIN Classes : \A l \in { m \in Level : Casts(c, m) } :
    /\ Classes[c].spellcasting.cantripsKnown[l] + 2 <= Cardinality(ListOf(c, 0)) \/ ListOf(c, 0) = {}
    /\ KnowsSpells(c) => Classes[c].spellcasting.spellsKnown[l] + 1 <= Cardinality(Offered(c, l))
    /\ c = "wizard" => SpellbookSize(l) <= Cardinality(Offered(c, l))
    /\ PreparesSpells(c) => PreparedSpellCount(c, 20, l) <= Cardinality(Offered(c, l) \ AlwaysPreparedAt(c, l))

(* A subclass gives its spells from the level the tables of ClassRules say. *)
ASSUME SubclassesGive ==
  \A c \in DOMAIN Classes : /\ Classes[c].alwaysFrom = GivesFrom(c, "always-prepared")
                            /\ Classes[c].expandedFrom = GivesFrom(c, "expanded")

(* Bless, barkskin and protection from evil and good are the listed spells *)
(* that a draft tells apart, from the level at which they are offered, and *)
(* mending the cantrip that a race's answer can grant a second time.       *)
ASSUME ListedAreTold ==
  /\ DOMAIN ListedFrom = { c \in DOMAIN Classes : ListedSpells(c) # {} }
  /\ \A c \in DOMAIN ListedFrom :
       ListedFrom[c] = Min({ l \in Level : Casts(c, l) /\ \E spell \in ListedSpells(c) : spell.level <= HighestSpellLevel(c, l) })
  /\ MendingClasses = { c \in DOMAIN Classes : \E spell \in ListOf(c, 0) : spell.index = "mending" }
=============================================================================
