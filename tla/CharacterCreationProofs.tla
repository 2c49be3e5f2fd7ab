----------------------- MODULE CharacterCreationProofs ------------------------
(***************************************************************************)
(* Proofs about character creation, for every scope, and so for every race,*)
(* class, level and field edited in any order. The generated tables are    *)
(* never expanded: what the proofs use of them are the assumptions of      *)
(* ClassRules and CreationRules, which TLC evaluates over the tables.      *)
(***************************************************************************)
EXTENDS CharacterCreation, SequenceTheorems, FiniteSetTheorems, WellFoundedInduction, TLAPS

------------------------------------------------------------------------------
(* FILTERS                                                                 *)

LEMMA LeastNumber ==
  ASSUME NEW T \in SUBSET Nat, T # {}
  PROVE  \E x \in T : \A y \in T : x <= y
<1>1. PICK x \in T : \A y \in T : ~ (<<y, x>> \in OpToRel(<, Nat))
  BY WFMin, NatLessThanWellFounded
<1>2. ASSUME NEW y \in T PROVE x <= y
  <2>1. x \in Nat /\ y \in Nat
    OBVIOUS
  <2>2. ~ (y < x)
    BY <1>1, <2>1 DEF OpToRel
  <2>3. QED BY <2>1, <2>2
<1>3. QED BY <1>2

(* What Filter has kept of the first n elements.                           *)
KeptOf(f, n, array, passing) ==
  f = [m \in 0 .. n |-> IF m = 0 THEN <<>>
                        ELSE IF array[m] \in passing THEN Append(f[m - 1], array[m])
                        ELSE f[m - 1]]

(* The recursive function that Filter is defined by exists.                *)
LEMMA FilterExists ==
  ASSUME NEW S, NEW array \in Seq(S), NEW passing
  PROVE  \E f : KeptOf(f, Len(array), array, passing)
<1> DEFINE T == {n \in Nat : ~ \E f : KeptOf(f, n, array, passing)}
<1>1. SUFFICES T = {}
  BY LenProperties
<1>2. SUFFICES ASSUME T # {} PROVE FALSE
  OBVIOUS
<1>3. PICK n \in T : \A m \in T : n <= m
  BY <1>2, LeastNumber
<1>4. n \in Nat /\ ~ \E f : KeptOf(f, n, array, passing)
  OBVIOUS
<1>5. n # 0
  <2>1. KeptOf([m \in 0 .. 0 |-> <<>>], 0, array, passing)
    BY DEF KeptOf
  <2>2. QED BY <2>1, <1>4
<1>6. PICK g : KeptOf(g, n - 1, array, passing)
  <2>1. n - 1 \in Nat /\ ~ (n <= n - 1)
    BY <1>4, <1>5
  <2>2. n - 1 \notin T
    BY <1>3, <2>1
  <2>3. QED BY <2>1, <2>2
<1> DEFINE h == [m \in 0 .. n |-> IF m < n THEN g[m]
                                  ELSE IF array[n] \in passing THEN Append(g[n - 1], array[n])
                                  ELSE g[n - 1]]
<1>7. KeptOf(h, n, array, passing)
  <2> DEFINE Next1(f, m) == IF m = 0 THEN <<>>
                            ELSE IF array[m] \in passing THEN Append(f[m - 1], array[m])
                            ELSE f[m - 1]
  <2>1. ASSUME NEW m \in 0 .. n PROVE h[m] = Next1(h, m)
    <3>1. CASE m = n
      <4>1. h[n - 1] = g[n - 1]
        BY <1>4, <1>5
      <4>2. QED BY <3>1, <4>1, <1>4, <1>5
    <3>2. CASE m # n
      <4>1. m \in 0 .. n - 1 /\ h[m] = g[m]
        BY <3>2, <1>4
      <4>2. g[m] = Next1(g, m)
        BY <4>1, <1>6, <1>4 DEF KeptOf
      <4>3. m # 0 => h[m - 1] = g[m - 1]
        BY <4>1, <1>4
      <4>4. QED BY <4>1, <4>2, <4>3
    <3>3. QED BY <3>1, <3>2
  <2>2. h = [m \in 0 .. n |-> Next1(h, m)]
    <3> HIDE DEF Next1
    <3>1. h = [m \in 0 .. n |-> h[m]]
      OBVIOUS
    <3> HIDE DEF h
    <3>2. QED BY <3>1, <2>1
  <2>3. QED BY <2>2 DEF KeptOf
<1>8. QED BY <1>7, <1>4

(* What Filter returns: a sequence of the elements that pass, and none     *)
(* twice that the array does not hold twice.                               *)
LEMMA FilterProperties ==
  ASSUME NEW S, NEW array \in Seq(S), NEW passing
  PROVE  /\ Filter(array, passing) \in Seq(S)
         /\ ToSet(Filter(array, passing)) = ToSet(array) \cap passing
         /\ IsInjective(array) => IsInjective(Filter(array, passing))
<1> DEFINE L == Len(array)
           f == CHOOSE g : KeptOf(g, L, array, passing)
           First(n) == { array[i] : i \in 1 .. n }
           Good(n) == /\ f[n] \in Seq(S)
                      /\ ToSet(f[n]) = First(n) \cap passing
                      /\ IsInjective(array) => IsInjective(f[n])
           Bad == { n \in 0 .. L : ~Good(n) }
<1>1. L \in Nat /\ DOMAIN array = 1 .. L
  BY LenProperties
<1>2. KeptOf(f, L, array, passing)
  BY FilterExists
<1>3. Filter(array, passing) = f[L]
  BY DEF Filter, KeptOf
<1> HIDE DEF f
<1>4. f[0] = <<>> /\ 0 \in 0 .. L
  BY <1>1, <1>2 DEF KeptOf
<1>5. Good(0)
  <2>1. First(0) = {}
    OBVIOUS
  <2>2. <<>> \in Seq(S) /\ ToSet(<<>>) = {} /\ IsInjective(<<>>)
    BY DEF ToSet, IsInjective
  <2>3. QED BY <1>4, <2>1, <2>2
<1>6. ASSUME NEW n \in 1 .. L, Good(n - 1) PROVE Good(n)
  <2>1. n \in DOMAIN array /\ array[n] \in S /\ n \in 0 .. L /\ n # 0 /\ n \in Nat
    BY <1>1, ElementOfSeq
  <2>2. First(n) = First(n - 1) \cup {array[n]}
    <3>1. 1 .. n = (1 .. n - 1) \cup {n}
      BY <1>1
    <3>2. QED BY <3>1
  <2>3. CASE array[n] \notin passing
    <3>1. f[n] = f[n - 1]
      BY <2>1, <2>3, <1>2 DEF KeptOf
    <3> HIDE DEF First
    <3>2. First(n) \cap passing = First(n - 1) \cap passing
      BY <2>2, <2>3
    <3>3. QED BY <3>1, <3>2, <1>6
  <2>4. CASE array[n] \in passing
    <3> DEFINE s == f[n - 1]
               t == Append(s, array[n])
    <3>1. f[n] = t
      BY <2>1, <2>4, <1>2 DEF KeptOf
    <3>2. s \in Seq(S) /\ ToSet(s) = First(n - 1) \cap passing /\ (IsInjective(array) => IsInjective(s))
      BY <1>6
    <3> HIDE DEF s
    <3>3. /\ t \in Seq(S) /\ Len(t) = Len(s) + 1 /\ t[Len(s) + 1] = array[n]
          /\ \A i \in 1 .. Len(s) : t[i] = s[i]
          /\ Len(s) \in Nat /\ DOMAIN s = 1 .. Len(s) /\ DOMAIN t = 1 .. Len(s) + 1
      BY <3>2, <2>1, AppendProperties, LenProperties
    <3> HIDE DEF t
    <3>4. ToSet(t) = ToSet(s) \cup {array[n]}
      <4>1. DOMAIN t = DOMAIN s \cup {Len(s) + 1}
        BY <3>3
      <4>2. ToSet(t) = { t[i] : i \in DOMAIN s } \cup { t[Len(s) + 1] }
        BY <4>1 DEF ToSet
      <4>3. \A i \in DOMAIN s : t[i] = s[i]
        BY <3>3
      <4>4. { t[i] : i \in DOMAIN s } = ToSet(s)
        BY <4>3 DEF ToSet
      <4>5. QED BY <4>2, <4>4, <3>3
    <3>5. ToSet(t) = First(n) \cap passing
      <4> HIDE DEF First
      <4>1. QED BY <3>4, <3>2, <2>2, <2>4
    <3>6. ASSUME IsInjective(array) PROVE IsInjective(t)
      <4>1. \A i \in 1 .. Len(s) : s[i] # array[n]
        <5> SUFFICES ASSUME NEW i \in 1 .. Len(s), s[i] = array[n] PROVE FALSE
          OBVIOUS
        <5>1. s[i] \in First(n - 1)
          BY <3>2, <3>3 DEF ToSet
        <5>2. PICK k \in 1 .. n - 1 : array[k] = s[i]
          BY <5>1
        <5>3. k \in 1 .. L /\ k # n
          BY <1>1
        <5>4. QED BY <5>2, <5>3, <3>6, <1>1, <2>1 DEF IsInjective
      <4>2. \A i, j \in 1 .. Len(s) : s[i] = s[j] => i = j
        BY <3>2, <3>3, <3>6 DEF IsInjective
      <4>3. ASSUME NEW i \in DOMAIN t, NEW j \in DOMAIN t, t[i] = t[j] PROVE i = j
        <5>1. i \in 1 .. Len(s) \/ i = Len(s) + 1
          BY <3>3
        <5>2. j \in 1 .. Len(s) \/ j = Len(s) + 1
          BY <3>3
        <5>3. CASE i \in 1 .. Len(s) /\ j \in 1 .. Len(s)
          BY <5>3, <4>2, <4>3, <3>3
        <5>4. CASE i \in 1 .. Len(s) /\ j = Len(s) + 1
          BY <5>4, <4>1, <4>3, <3>3
        <5>5. CASE i = Len(s) + 1 /\ j \in 1 .. Len(s)
          BY <5>5, <4>1, <4>3, <3>3
        <5>6. QED BY <5>1, <5>2, <5>3, <5>4, <5>5
      <4>4. QED BY <4>3 DEF IsInjective
    <3>7. QED BY <3>1, <3>3, <3>5, <3>6
  <2>5. QED BY <2>3, <2>4
<1> HIDE DEF Good
<1>7. Bad = {}
  <2> SUFFICES ASSUME Bad # {} PROVE FALSE
    OBVIOUS
  <2>1. Bad \in SUBSET Nat
    BY <1>1
  <2>2. PICK n \in Bad : \A m \in Bad : n <= m
    BY <2>1, LeastNumber
  <2>3. n \in 0 .. L /\ ~Good(n)
    OBVIOUS
  <2>4. n # 0
    BY <2>3, <1>5
  <2>5. n \in 1 .. L /\ n - 1 \in 0 .. L /\ ~ (n <= n - 1)
    BY <2>3, <2>4, <1>1
  <2>6. n - 1 \notin Bad
    BY <2>2, <2>5
  <2>7. Good(n - 1)
    BY <2>5, <2>6
  <2>8. QED BY <2>7, <2>5, <1>6, <2>3
<1>8. L \in 0 .. L
  BY <1>1
<1>9. Good(L)
  BY <1>7, <1>8
<1>10. First(L) = ToSet(array)
  BY <1>1 DEF ToSet
<1>11. QED BY <1>9, <1>10, <1>3 DEF Good

------------------------------------------------------------------------------
(* THE DRAFT                                                               *)

AbilityScores == [Abilities -> Int]
Partial(S, T) == UNION { [D -> T] : D \in SUBSET S }

SpellsType ==
  [mode : {"none", "known", "pact-known", "prepared", "spellbook-prepared"}, cantrips : Nat,
   mending : BOOLEAN, learned : [Level -> Nat], repeated : BOOLEAN, expanded : BOOLEAN,
   prepared : Nat, listed : BOOLEAN]
DefenseType ==
  [mode : {"armor", "unarmored", "manual"}, armor : Armors \cup {"none"}, shield : {Shield, "none"},
   formula : Range(FormulaOf) \cup {"standard-unarmored"}]
DraftType ==
  [race : DOMAIN Races \cup {"none", "manual"}, class : DOMAIN Classes \cup {"none", "manual"},
   level : Level, subclass : {"none", "srd", "manual"}, mode : {"calculated", "imported"},
   base : AbilityScores, retained : AbilityScores, imported : AbilityScores,
   gains : Partial(Level, Nat), choices : Partial(STRING, Seq(Option)), notes : SUBSET STRING,
   spells : SpellsType, overrides : SUBSET {"maximum", "speed"}, defense : DefenseType,
   equipment : [Items -> {"absent", "carried", "worn"}], spellAttack : BOOLEAN]

(* Choices that only a note answers, whatever the class.                   *)
NoteIds ==
  UNION { { x.id : x \in { y \in CreationChoices[c] : y.manual /\ y.options = <<>> } } : c \in DOMAIN Classes }

(* What holds of a draft between an edit and its reconciliation too: the   *)
(* only option that another requires is alone in its choice, no option is  *)
(* selected twice, and the spells told apart are among those counted.      *)
Settled(d) ==
  \A id \in DOMAIN d.choices :
    PactOfTheTome \in ToSet(d.choices[id]) => id = PactBoon /\ ToSet(d.choices[id]) = {PactOfTheTome}
Distinct(d) == \A id \in DOMAIN d.choices : IsInjective(d.choices[id])
SpellsCounted(spells) ==
  /\ spells.mending => spells.cantrips > 0
  /\ spells.listed => spells.prepared > 0
  /\ spells.expanded => spells.learned[1] > 0
Sound(d) ==
  /\ d \in DraftType
  /\ Settled(d) /\ Distinct(d) /\ SpellsCounted(d.spells)
  /\ d.notes \subseteq NoteIds

(* What the form offers, in the parts that reconciliation keeps one by one.*)
AnswersOffered(d) ==
  /\ DOMAIN d.choices = { choice.id : choice \in AvailableChoices(d) }
  /\ \A choice \in AvailableChoices(d) :
       /\ ToSet(d.choices[choice.id]) \subseteq ToSet(choice.options)
       /\ Len(d.choices[choice.id]) <= choice.count
GainsOffered(d) == DOMAIN d.gains = IF IsSrdClass(d) THEN 2 .. d.level ELSE {}
SpellsOffered(d) ==
  /\ d.spells.mode = SpellMode(d)
  /\ LearnedAt(d.spells) \subseteq LearningLevels(d)
  /\ d.spells.mending => OffersMending(d)
  /\ d.spells.listed => OffersListed(d)
  /\ d.spells.expanded => OffersExpanded(d)
  /\ d.spells.mode = "spellbook-prepared" => d.spells.prepared <= Learned(d.spells)
DefenseOffered(d) ==
  /\ AllowsFormula(d, d.defense.formula)
  /\ \A item \in {d.defense.armor, d.defense.shield} \ {"none"} : Worn(d, item)
  /\ \A item \in Items : Worn(d, item) => item \in {d.defense.armor, d.defense.shield}
  /\ d.defense.mode # "armor" => d.defense.armor = "none"
  /\ d.defense.mode = "manual" => d.defense.shield = "none"
  /\ d.defense.mode = "unarmored" /\ d.defense.formula = "monk-unarmored-defense" => d.defense.shield = "none"
WithinOffer(d) ==
  /\ Sound(d)
  /\ d.subclass \in AvailableSubclasses(d)
  /\ AnswersOffered(d) /\ GainsOffered(d) /\ SpellsOffered(d) /\ DefenseOffered(d)

------------------------------------------------------------------------------
(* TYPES                                                                   *)

LEMMA PartialElim ==
  ASSUME NEW S, NEW T, NEW f \in Partial(S, T)
  PROVE  /\ DOMAIN f \subseteq S /\ \A x \in DOMAIN f : f[x] \in T
         /\ f = [x \in DOMAIN f |-> f[x]]
  BY DEF Partial

LEMMA PartialIntro ==
  ASSUME NEW S, NEW T, NEW D \in SUBSET S, NEW f \in [D -> T]
  PROVE  f \in Partial(S, T)
  BY DEF Partial

(* The components of a draft.                                              *)
LEMMA DraftFields ==
  ASSUME NEW d \in DraftType
  PROVE  /\ d.race \in DOMAIN Races \cup {"none", "manual"}
         /\ d.class \in DOMAIN Classes \cup {"none", "manual"}
         /\ d.level \in Level /\ d.subclass \in {"none", "srd", "manual"}
         /\ d.mode \in {"calculated", "imported"}
         /\ d.base \in AbilityScores /\ d.retained \in AbilityScores /\ d.imported \in AbilityScores
         /\ d.gains \in Partial(Level, Nat) /\ d.choices \in Partial(STRING, Seq(Option))
         /\ d.notes \in SUBSET STRING /\ d.spells \in SpellsType
         /\ d.overrides \in SUBSET {"maximum", "speed"}
         /\ d.defense \in DefenseType /\ d.equipment \in [Items -> {"absent", "carried", "worn"}]
         /\ d.spellAttack \in BOOLEAN
  BY DEF DraftType

LEMMA SelectionsAreSequences ==
  ASSUME NEW d \in DraftType, NEW id \in DOMAIN d.choices
  PROVE  /\ d.choices[id] \in Seq(Option) /\ id \in STRING
         /\ Len(d.choices[id]) \in Nat /\ DOMAIN d.choices[id] = 1 .. Len(d.choices[id])
<1>1. d.choices[id] \in Seq(Option) /\ id \in STRING
  BY DraftFields, PartialElim
<1>2. QED BY <1>1, LenProperties

(* One field of a draft replaced.                                          *)
LEMMA DraftWith ==
  ASSUME NEW d \in DraftType
  PROVE  /\ \A v \in DOMAIN Races \cup {"none", "manual"} : [d EXCEPT !.race = v] \in DraftType
         /\ \A v \in DOMAIN Classes \cup {"none", "manual"} : [d EXCEPT !.class = v] \in DraftType
         /\ \A v \in Level : [d EXCEPT !.level = v] \in DraftType
         /\ \A v \in {"none", "srd", "manual"} : [d EXCEPT !.subclass = v] \in DraftType
         /\ \A v \in {"calculated", "imported"} : [d EXCEPT !.mode = v] \in DraftType
         /\ \A v \in AbilityScores : [d EXCEPT !.base = v] \in DraftType
         /\ \A v \in AbilityScores : [d EXCEPT !.retained = v] \in DraftType
         /\ \A v \in AbilityScores : [d EXCEPT !.imported = v] \in DraftType
         /\ \A v \in Partial(Level, Nat) : [d EXCEPT !.gains = v] \in DraftType
         /\ \A v \in Partial(STRING, Seq(Option)) : [d EXCEPT !.choices = v] \in DraftType
         /\ \A v \in SUBSET STRING : [d EXCEPT !.notes = v] \in DraftType
         /\ \A v \in SpellsType : [d EXCEPT !.spells = v] \in DraftType
         /\ \A v \in SUBSET {"maximum", "speed"} : [d EXCEPT !.overrides = v] \in DraftType
         /\ \A v \in DefenseType : [d EXCEPT !.defense = v] \in DraftType
         /\ \A v \in [Items -> {"absent", "carried", "worn"}] : [d EXCEPT !.equipment = v] \in DraftType
         /\ \A v \in BOOLEAN : [d EXCEPT !.spellAttack = v] \in DraftType
<1>1. \A v \in DOMAIN Races \cup {"none", "manual"} : [d EXCEPT !.race = v] \in DraftType
  BY DEF DraftType
<1>2. \A v \in DOMAIN Classes \cup {"none", "manual"} : [d EXCEPT !.class = v] \in DraftType
  BY DEF DraftType
<1>3. \A v \in Level : [d EXCEPT !.level = v] \in DraftType
  BY DEF DraftType
<1>4. \A v \in {"none", "srd", "manual"} : [d EXCEPT !.subclass = v] \in DraftType
  BY DEF DraftType
<1>5. \A v \in {"calculated", "imported"} : [d EXCEPT !.mode = v] \in DraftType
  BY DEF DraftType
<1>6. \A v \in AbilityScores : [d EXCEPT !.base = v] \in DraftType
  BY DEF DraftType
<1>7. \A v \in AbilityScores : [d EXCEPT !.retained = v] \in DraftType
  BY DEF DraftType
<1>8. \A v \in AbilityScores : [d EXCEPT !.imported = v] \in DraftType
  BY DEF DraftType
<1>9. \A v \in Partial(Level, Nat) : [d EXCEPT !.gains = v] \in DraftType
  BY DEF DraftType
<1>10. \A v \in Partial(STRING, Seq(Option)) : [d EXCEPT !.choices = v] \in DraftType
  BY DEF DraftType
<1>11. \A v \in SUBSET STRING : [d EXCEPT !.notes = v] \in DraftType
  BY DEF DraftType
<1>12. \A v \in SpellsType : [d EXCEPT !.spells = v] \in DraftType
  BY DEF DraftType
<1>13. \A v \in SUBSET {"maximum", "speed"} : [d EXCEPT !.overrides = v] \in DraftType
  BY DEF DraftType
<1>14. \A v \in DefenseType : [d EXCEPT !.defense = v] \in DraftType
  BY DEF DraftType
<1>15. \A v \in [Items -> {"absent", "carried", "worn"}] : [d EXCEPT !.equipment = v] \in DraftType
  BY DEF DraftType
<1>16. \A v \in BOOLEAN : [d EXCEPT !.spellAttack = v] \in DraftType
  BY DEF DraftType
<1>17. QED BY <1>1, <1>2, <1>3, <1>4, <1>5, <1>6, <1>7, <1>8, <1>9, <1>10, <1>11, <1>12, <1>13,
              <1>14, <1>15, <1>16

------------------------------------------------------------------------------
(* WHAT IS OFFERED                                                         *)

RaceOffer(x) == [id |-> x.id, count |-> x.count, options |-> x.options, manual |-> FALSE]
ClassOffer(d, x) ==
  [id |-> x.id, count |-> x.counts[d.level], options |-> ClassOptions(d, x), manual |-> x.manual]

LEMMA AvailableIs ==
  ASSUME NEW d
  PROVE  AvailableChoices(d) = { RaceOffer(x) : x \in RaceChoicesOf(d.race) }
                                 \cup { ClassOffer(d, x) : x \in ClassChoicesFor(d) }
<1>1. RaceChoicesOf(d.race) = IF IsSrdRace(d) THEN Races[d.race].choices ELSE {}
  BY DEF RaceChoicesOf, IsSrdRace
<1>2. QED BY <1>1 DEF AvailableChoices, RaceOffer, ClassOffer

LEMMA ClassChoicesAre ==
  ASSUME NEW d, NEW x \in ClassChoicesFor(d)
  PROVE  d.class \in DOMAIN Classes /\ x \in CreationChoices[d.class] /\ d.level >= x.from
  BY DEF ClassChoicesFor, IsSrdClass

(* The options whose prerequisites a draft meets.                          *)
MeetsFor(d, x, option) ==
  /\ d.level >= Prerequisite(x, option).level
  /\ Prerequisite(x, option).options \subseteq SelectedIn(d, { other.id : other \in ClassChoicesFor(d) })

LEMMA ClassOptionsAre ==
  ASSUME NEW d, NEW c \in DOMAIN Classes, NEW x \in CreationChoices[c]
  PROVE  /\ ClassOptions(d, x) \in Seq(Option) /\ IsInjective(ClassOptions(d, x))
         /\ ToSet(ClassOptions(d, x)) = { option \in ToSet(x.options) : MeetsFor(d, x, option) }
<1>1. x.options \in Seq(Option) /\ IsInjective(x.options)
  BY CreationAssumption
<1> DEFINE Met == { option \in ToSet(x.options) : MeetsFor(d, x, option) }
<1>2. ClassOptions(d, x) = Filter(x.options, Met)
  BY DEF ClassOptions, MeetsFor
<1> HIDE DEF Met
<1>3. /\ Filter(x.options, Met) \in Seq(Option) /\ IsInjective(Filter(x.options, Met))
      /\ ToSet(Filter(x.options, Met)) = ToSet(x.options) \cap Met
  BY <1>1, FilterProperties
<1>4. ToSet(x.options) \cap Met = Met
  BY DEF Met
<1>5. QED BY <1>2, <1>3, <1>4 DEF Met

(* What is offered has ids of its own, and the boon that invocations       *)
(* require is the one option of its choice.                                *)
LEMMA OffersTyped ==
  ASSUME NEW d \in DraftType, NEW x \in AvailableChoices(d)
  PROVE  /\ x.id \in STRING /\ x.count \in Nat /\ x.count > 0 /\ x.manual \in BOOLEAN
         /\ x.options \in Seq(Option) /\ IsInjective(x.options)
         /\ PactOfTheTome \in ToSet(x.options) => x.id = PactBoon /\ x.count <= 1
<1>1. CASE \E y \in RaceChoicesOf(d.race) : x = RaceOffer(y)
  <2>1. PICK y \in RaceChoicesOf(d.race) : x = RaceOffer(y)
    BY <1>1
  <2>2. d.race \in DOMAIN Races /\ y \in Races[d.race].choices
    BY <2>1 DEF RaceChoicesOf
  <2>3. /\ y.id \in STRING /\ y.count \in 1 .. 2 /\ y.options \in Seq(Option) /\ IsInjective(y.options)
        /\ PactOfTheTome \notin ToSet(y.options)
    BY <2>2, RaceAssumption
  <2>4. QED BY <2>1, <2>3 DEF RaceOffer
<1>2. CASE \E y \in ClassChoicesFor(d) : x = ClassOffer(d, y)
  <2>1. PICK y \in ClassChoicesFor(d) : x = ClassOffer(d, y)
    BY <1>2
  <2>2. d.class \in DOMAIN Classes /\ y \in CreationChoices[d.class] /\ d.level \in Level
    BY <2>1, ClassChoicesAre, DraftFields
  <2>3. /\ y.id \in STRING /\ y.counts \in [Level -> 0 .. 5] /\ y.manual \in BOOLEAN
        /\ PactOfTheTome \in ToSet(y.options) => y.id = PactBoon
        /\ y.id = PactBoon => \A l \in Level : y.counts[l] <= 1
    BY <2>2, CreationAssumption
  <2>4. /\ ClassOptions(d, y) \in Seq(Option) /\ IsInjective(ClassOptions(d, y))
        /\ ToSet(ClassOptions(d, y)) \subseteq ToSet(y.options)
    BY <2>2, ClassOptionsAre
  <2>5. y.counts[d.level] \in 0 .. 5 /\ (y.id = PactBoon => y.counts[d.level] <= 1)
    BY <2>2, <2>3
  <2>6. /\ x.id = y.id /\ x.count = y.counts[d.level] /\ x.manual = y.manual
        /\ x.options = ClassOptions(d, y)
    BY <2>1 DEF ClassOffer
  <2>7. x.count \in Nat /\ x.count > 0
    <3>1. y.counts[d.level] > 0
      BY <2>1 DEF ClassChoicesFor, IsSrdClass
    <3>2. QED BY <2>5, <2>6, <3>1
  <2>8. PactOfTheTome \in ToSet(x.options) => x.id = PactBoon /\ x.count <= 1
    BY <2>3, <2>4, <2>5, <2>6
  <2>9. QED BY <2>3, <2>4, <2>6, <2>7, <2>8
<1>3. QED BY <1>1, <1>2, AvailableIs

LEMMA OffersUnique ==
  ASSUME NEW d \in DraftType, NEW x \in AvailableChoices(d), NEW y \in AvailableChoices(d), x.id = y.id
  PROVE  x = y
<1>1. CASE \E v, w \in RaceChoicesOf(d.race) : x = RaceOffer(v) /\ y = RaceOffer(w)
  <2>1. PICK v \in RaceChoicesOf(d.race), w \in RaceChoicesOf(d.race) : x = RaceOffer(v) /\ y = RaceOffer(w)
    BY <1>1
  <2>2. d.race \in DOMAIN Races /\ v \in Races[d.race].choices /\ w \in Races[d.race].choices
    BY <2>1 DEF RaceChoicesOf
  <2>3. v.id = w.id
    BY <2>1 DEF RaceOffer
  <2>4. v = w
    BY <2>2, <2>3, RaceAssumption
  <2>5. QED BY <2>1, <2>4
<1>2. CASE \E v, w \in ClassChoicesFor(d) : x = ClassOffer(d, v) /\ y = ClassOffer(d, w)
  <2>1. PICK v \in ClassChoicesFor(d), w \in ClassChoicesFor(d) : x = ClassOffer(d, v) /\ y = ClassOffer(d, w)
    BY <1>2
  <2>2. d.class \in DOMAIN Classes /\ v \in CreationChoices[d.class] /\ w \in CreationChoices[d.class]
    BY <2>1, ClassChoicesAre
  <2>3. v.id = w.id
    BY <2>1 DEF ClassOffer
  <2>4. v = w
    BY <2>2, <2>3, CreationAssumption
  <2>5. QED BY <2>1, <2>4
<1>3. ASSUME NEW v \in RaceChoicesOf(d.race), NEW w \in ClassChoicesFor(d) PROVE v.id # w.id
  <2>1. d.race \in DOMAIN Races /\ v \in Races[d.race].choices
    BY DEF RaceChoicesOf
  <2>2. d.class \in DOMAIN Classes /\ w \in CreationChoices[d.class]
    BY ClassChoicesAre
  <2>3. QED BY <2>1, <2>2, RaceAssumption
<1>4. ASSUME NEW v \in RaceChoicesOf(d.race), NEW w \in ClassChoicesFor(d) PROVE RaceOffer(v).id # ClassOffer(d, w).id
  BY <1>3, <1>4 DEF RaceOffer, ClassOffer
<1>5. \/ \E v \in RaceChoicesOf(d.race) : x = RaceOffer(v)
      \/ \E v \in ClassChoicesFor(d) : x = ClassOffer(d, v)
  BY AvailableIs
<1>6. \/ \E w \in RaceChoicesOf(d.race) : y = RaceOffer(w)
      \/ \E w \in ClassChoicesFor(d) : y = ClassOffer(d, w)
  BY AvailableIs
<1>7. QED BY <1>1, <1>2, <1>4, <1>5, <1>6

------------------------------------------------------------------------------
(* RECONCILIATION: THE CHOICES                                             *)

LEMMA KeptSelectionFits ==
  ASSUME NEW d \in DraftType, Distinct(d), NEW x \in AvailableChoices(d)
  PROVE  /\ KeptSelection(d, x) \in Seq(Option) /\ IsInjective(KeptSelection(d, x))
         /\ Len(KeptSelection(d, x)) <= x.count
         /\ ToSet(KeptSelection(d, x)) \subseteq ToSet(x.options) \cap ToSet(SelectedFor(d, x.id))
         /\ \A option \in ToSet(x.options) :
              ToSet(SelectedFor(d, x.id)) = {option} => option \in ToSet(KeptSelection(d, x))
<1> DEFINE s == SelectedFor(d, x.id)
           kept == Filter(s, ToSet(x.options))
           n == AtMost(x.count, Len(kept))
<1>1. s \in Seq(Option) /\ IsInjective(s)
  <2>1. CASE x.id \in DOMAIN d.choices
    BY <2>1, SelectionsAreSequences DEF SelectedFor, Distinct
  <2>2. CASE x.id \notin DOMAIN d.choices
    <3>1. s = <<>>
      BY <2>2 DEF SelectedFor
    <3>2. QED BY <3>1 DEF IsInjective
  <2>3. QED BY <2>1, <2>2
<1>2. x.count \in Nat /\ x.count > 0
  BY OffersTyped
<1>3. KeptSelection(d, x) = SubSeq(kept, 1, n)
  BY DEF KeptSelection
<1> HIDE DEF s
<1>4. kept \in Seq(Option) /\ ToSet(kept) = ToSet(s) \cap ToSet(x.options) /\ IsInjective(kept)
  BY <1>1, FilterProperties
<1> HIDE DEF kept
<1>5. Len(kept) \in Nat /\ DOMAIN kept = 1 .. Len(kept) /\ \A i \in 1 .. Len(kept) : kept[i] \in Option
  BY <1>4, LenProperties, ElementOfSeq
<1>6. n \in Nat /\ n <= x.count /\ n <= Len(kept) /\ (Len(kept) > 0 => n > 0)
  BY <1>2, <1>5 DEF AtMost
<1> HIDE DEF n
<1> DEFINE t == SubSeq(kept, 1, n)
<1>7. t \in Seq(Option) /\ Len(t) = n /\ \A i \in 1 .. n : t[i] = kept[i]
  <2>1. \A i \in 1 .. n : kept[i] \in Option
    BY <1>5, <1>6
  <2>2. /\ t \in Seq(Option) /\ Len(t) = (IF 1 <= n THEN n - 1 + 1 ELSE 0)
        /\ \A i \in 1 .. n - 1 + 1 : t[i] = kept[1 + i - 1]
    BY <2>1, <1>6, SubSeqProperties
  <2>3. \A i \in 1 .. n : i \in 1 .. n - 1 + 1 /\ 1 + i - 1 = i
    BY <1>6
  <2>4. QED BY <2>2, <2>3, <1>6
<1> HIDE DEF t
<1>8. DOMAIN t = 1 .. n /\ 1 .. n \subseteq DOMAIN kept
  BY <1>5, <1>6, <1>7, LenProperties
<1>9. IsInjective(t)
  BY <1>4, <1>7, <1>8 DEF IsInjective
<1>10. ToSet(t) \subseteq ToSet(kept)
  BY <1>7, <1>8 DEF ToSet
<1>11. ASSUME NEW option \in ToSet(x.options), ToSet(s) = {option} PROVE option \in ToSet(t)
  <2>1. ToSet(kept) = {option}
    BY <1>4, <1>11
  <2>2. PICK i \in DOMAIN kept : kept[i] = option
    BY <2>1 DEF ToSet
  <2>3. Len(kept) > 0
    BY <2>2, <1>5
  <2>4. 1 \in DOMAIN t /\ t[1] = kept[1] /\ 1 \in DOMAIN kept
    BY <2>3, <1>5, <1>6, <1>7, <1>8
  <2>5. kept[1] \in {option}
    BY <2>1, <2>4 DEF ToSet
  <2>6. QED BY <2>4, <2>5 DEF ToSet
<1>12. QED BY <1>3, <1>4, <1>6, <1>7, <1>9, <1>10, <1>11 DEF s, t

(* What KeepChoices makes of a draft, field by field.                      *)
LEMMA KeepChoicesIs ==
  ASSUME NEW d, Sound(d), NEW e, e = KeepChoices(d)
  PROVE  /\ e \in DraftType
         /\ DOMAIN e.choices = { x.id : x \in AvailableChoices(d) }
         /\ \A x \in AvailableChoices(d) : e.choices[x.id] = KeptSelection(d, x)
         /\ e.notes = d.notes \cap DOMAIN e.choices
         /\ e.race = d.race /\ e.class = d.class /\ e.level = d.level /\ e.subclass = d.subclass
         /\ e.gains = d.gains /\ e.spells = d.spells
<1> DEFINE ids == { x.id : x \in AvailableChoices(d) }
           Of(id) == CHOOSE x \in AvailableChoices(d) : x.id = id
           kept == [id \in ids |-> KeptSelection(d, Of(id))]
           f == [d EXCEPT !.choices = kept]
<1>1. d \in DraftType /\ Distinct(d)
  BY DEF Sound
<1>2. e = [d EXCEPT !.choices = kept, !.notes = @ \cap ids]
  BY DEF KeepChoices, KeepAvailable
<1>3. ASSUME NEW x \in AvailableChoices(d) PROVE x.id \in ids /\ kept[x.id] = KeptSelection(d, x)
  <2>1. x.id \in ids
    OBVIOUS
  <2>2. Of(x.id) \in AvailableChoices(d) /\ Of(x.id).id = x.id
    OBVIOUS
  <2>3. Of(x.id) = x
    BY <2>2, <1>1, OffersUnique
  <2>4. QED BY <2>1, <2>3
<1>4. ids \in SUBSET STRING
  BY <1>1, OffersTyped
<1>5. ASSUME NEW id \in ids PROVE KeptSelection(d, Of(id)) \in Seq(Option)
  <2>1. Of(id) \in AvailableChoices(d)
    OBVIOUS
  <2>2. QED BY <2>1, <1>1, KeptSelectionFits
<1>6. kept \in Partial(STRING, Seq(Option)) /\ DOMAIN kept = ids
  <2>1. kept \in [ids -> Seq(Option)]
    BY <1>5
  <2>2. QED BY <2>1, <1>4, PartialIntro
<1> HIDE DEF kept, ids, Of
<1>7. f \in DraftType
  BY <1>1, <1>6, DraftWith
<1>8. f.notes = d.notes /\ f.choices = kept
  BY <1>1 DEF DraftType
<1>9. e = [f EXCEPT !.notes = d.notes \cap ids]
  BY <1>2, <1>1 DEF DraftType
<1>10. d.notes \cap ids \in SUBSET STRING
  BY <1>1, DraftFields
<1>11. e \in DraftType
  <2>1. \A v \in SUBSET STRING : [f EXCEPT !.notes = v] \in DraftType
    BY <1>7, DraftWith
  <2> HIDE DEF f
  <2>2. QED BY <1>9, <1>10, <2>1
<1>12. e.choices = kept /\ e.notes = d.notes \cap ids
  BY <1>2, <1>1 DEF DraftType
<1>13. /\ e.race = d.race /\ e.class = d.class /\ e.level = d.level /\ e.subclass = d.subclass
       /\ e.gains = d.gains /\ e.spells = d.spells
  BY <1>2
<1>14. QED BY <1>11, <1>12, <1>13, <1>6, <1>3 DEF ids

(* Filtered selections are still what is offered: an invocation that needs *)
(* the boon was kept because the boon was selected, and then the boon is   *)
(* kept too, since it is alone in its choice.                              *)
LEMMA ChoicesReconciled ==
  ASSUME NEW d, Sound(d), NEW e, e = KeepChoices(d)
  PROVE  Sound(e) /\ AnswersOffered(e) /\ e.notes \subseteq DOMAIN e.choices
<1>1. /\ d \in DraftType /\ Distinct(d) /\ Settled(d) /\ SpellsCounted(d.spells) /\ d.notes \subseteq NoteIds
  BY DEF Sound
<1>2. /\ e \in DraftType
      /\ DOMAIN e.choices = { x.id : x \in AvailableChoices(d) }
      /\ \A x \in AvailableChoices(d) : e.choices[x.id] = KeptSelection(d, x)
      /\ e.notes = d.notes \cap DOMAIN e.choices
      /\ e.race = d.race /\ e.class = d.class /\ e.level = d.level /\ e.subclass = d.subclass
      /\ e.gains = d.gains /\ e.spells = d.spells
  BY KeepChoicesIs
<1>3. ASSUME NEW id \in DOMAIN e.choices
      PROVE  /\ IsInjective(e.choices[id])
             /\ \E x \in AvailableChoices(d) :
                  /\ x.id = id
                  /\ ToSet(e.choices[id]) \subseteq ToSet(x.options) \cap ToSet(SelectedFor(d, id))
  <2>1. PICK x \in AvailableChoices(d) : x.id = id
    BY <1>2
  <2>2. e.choices[id] = KeptSelection(d, x)
    BY <1>2, <2>1
  <2>3. /\ IsInjective(KeptSelection(d, x))
        /\ ToSet(KeptSelection(d, x)) \subseteq ToSet(x.options) \cap ToSet(SelectedFor(d, x.id))
    BY <1>1, KeptSelectionFits
  <2>4. QED BY <2>1, <2>2, <2>3
<1>4. Distinct(e)
  BY <1>3 DEF Distinct
<1>5. Settled(e)
  <2> SUFFICES ASSUME NEW id \in DOMAIN e.choices, PactOfTheTome \in ToSet(e.choices[id])
               PROVE  id = PactBoon /\ ToSet(e.choices[id]) = {PactOfTheTome}
    BY DEF Settled
  <2>1. ToSet(e.choices[id]) \subseteq ToSet(SelectedFor(d, id))
    BY <1>3
  <2>2. id \in DOMAIN d.choices
    <3> SUFFICES ASSUME id \notin DOMAIN d.choices PROVE FALSE
      OBVIOUS
    <3>1. SelectedFor(d, id) = <<>>
      BY DEF SelectedFor
    <3>2. ToSet(<<>>) = {}
      BY DEF ToSet
    <3>3. QED BY <3>1, <3>2, <2>1
  <2>3. SelectedFor(d, id) = d.choices[id]
    BY <2>2 DEF SelectedFor
  <2>4. id = PactBoon /\ ToSet(d.choices[id]) = {PactOfTheTome}
    BY <2>1, <2>2, <2>3, <1>1 DEF Settled
  <2>5. QED BY <2>1, <2>3, <2>4
<1>6. Sound(e)
  BY <1>1, <1>2, <1>4, <1>5 DEF Sound
<1>7. RaceChoicesOf(e.race) = RaceChoicesOf(d.race) /\ ClassChoicesFor(e) = ClassChoicesFor(d)
  BY <1>2 DEF ClassChoicesFor, IsSrdClass
<1>8. ASSUME NEW v \in ClassChoicesFor(d)
      PROVE  ClassOffer(d, v) \in AvailableChoices(d) /\ ClassOffer(d, v).id = v.id
  BY AvailableIs DEF ClassOffer
<1>9. ASSUME NEW v \in ClassChoicesFor(d), NEW option \in ToSet(v.options), MeetsFor(d, v, option)
      PROVE  MeetsFor(e, v, option)
  <2>1. d.class \in DOMAIN Classes /\ v \in CreationChoices[d.class]
    BY ClassChoicesAre
  <2>2. Prerequisite(v, option).options \subseteq {PactOfTheTome}
    BY <2>1, PrerequisiteAssumption
  <2> DEFINE active == { w.id : w \in ClassChoicesFor(d) }
  <2>3. ASSUME PactOfTheTome \in SelectedIn(d, active) PROVE PactOfTheTome \in SelectedIn(e, active)
    <3>1. PICK id \in active \cap DOMAIN d.choices : PactOfTheTome \in ToSet(d.choices[id])
      BY <2>3 DEF SelectedIn
    <3>2. id = PactBoon /\ ToSet(d.choices[id]) = {PactOfTheTome}
      BY <3>1, <1>1 DEF Settled
    <3>3. PICK w \in ClassChoicesFor(d) : w.id = id
      BY <3>1
    <3>4. d.class \in DOMAIN Classes /\ w \in CreationChoices[d.class] /\ w.id = PactBoon
      BY <3>2, <3>3, ClassChoicesAre
    <3>5. /\ PactOfTheTome \in ToSet(w.options)
          /\ Prerequisite(w, PactOfTheTome).level = 1 /\ Prerequisite(w, PactOfTheTome).options = {}
      BY <3>4, PrerequisiteAssumption
    <3>6. MeetsFor(d, w, PactOfTheTome)
      <4>1. d.level \in Level
        BY <1>1, DraftFields
      <4>2. d.level >= 1
        BY <4>1 DEF Level
      <4>3. QED BY <4>2, <3>5 DEF MeetsFor
    <3> DEFINE u == ClassOffer(d, w)
    <3>7. PactOfTheTome \in ToSet(u.options)
      <4>1. u.options = ClassOptions(d, w)
        BY DEF ClassOffer
      <4> HIDE DEF u
      <4>2. ToSet(ClassOptions(d, w)) = { y \in ToSet(w.options) : MeetsFor(d, w, y) }
        BY <3>4, ClassOptionsAre
      <4>3. QED BY <4>1, <4>2, <3>5, <3>6
    <3>8. u \in AvailableChoices(d) /\ u.id = id
      BY <3>3, <1>8
    <3> HIDE DEF u
    <3>9. SelectedFor(d, u.id) = d.choices[id]
      BY <3>1, <3>8 DEF SelectedFor
    <3>10. PactOfTheTome \in ToSet(KeptSelection(d, u))
      BY <3>2, <3>7, <3>8, <3>9, <1>1, KeptSelectionFits
    <3>11. id \in DOMAIN e.choices /\ e.choices[id] = KeptSelection(d, u)
      BY <3>8, <1>2
    <3>12. QED BY <3>1, <3>10, <3>11 DEF SelectedIn
  <2>4. QED BY <2>2, <2>3, <1>2, <1>7, <1>9 DEF MeetsFor
<1>10. { x.id : x \in AvailableChoices(e) } = { x.id : x \in AvailableChoices(d) }
  <2>1. \A v \in ClassChoicesFor(d) : ClassOffer(e, v).id = ClassOffer(d, v).id
    BY DEF ClassOffer
  <2>2. QED BY <2>1, <1>7, AvailableIs
<1>11. ASSUME NEW x \in AvailableChoices(e)
       PROVE  ToSet(e.choices[x.id]) \subseteq ToSet(x.options) /\ Len(e.choices[x.id]) <= x.count
  <2>1. CASE \E v \in RaceChoicesOf(d.race) : x = RaceOffer(v)
    <3>1. x \in AvailableChoices(d)
      BY <2>1, AvailableIs
    <3>2. e.choices[x.id] = KeptSelection(d, x)
      BY <3>1, <1>2
    <3>3. QED BY <3>1, <3>2, <1>1, KeptSelectionFits
  <2>2. CASE \E v \in ClassChoicesFor(d) : x = ClassOffer(e, v)
    <3>1. PICK v \in ClassChoicesFor(d) : x = ClassOffer(e, v)
      BY <2>2
    <3> DEFINE z == ClassOffer(d, v)
    <3>2. z \in AvailableChoices(d) /\ z.id = v.id
      BY <1>8
    <3>3. d.class \in DOMAIN Classes /\ v \in CreationChoices[d.class]
      BY ClassChoicesAre
    <3>4. x.id = v.id /\ x.count = v.counts[e.level] /\ x.options = ClassOptions(e, v)
      BY <3>1 DEF ClassOffer
    <3>5. z.count = v.counts[d.level] /\ z.options = ClassOptions(d, v)
      BY DEF ClassOffer
    <3> HIDE DEF z
    <3>6. e.choices[x.id] = KeptSelection(d, z)
      BY <3>2, <3>4, <1>2
    <3>7. Len(KeptSelection(d, z)) <= z.count /\ ToSet(KeptSelection(d, z)) \subseteq ToSet(z.options)
      BY <3>2, <1>1, KeptSelectionFits
    <3>8. ToSet(z.options) \subseteq ToSet(x.options)
      <4>1. ToSet(ClassOptions(d, v)) = { option \in ToSet(v.options) : MeetsFor(d, v, option) }
        BY <3>3, ClassOptionsAre
      <4>2. ToSet(ClassOptions(e, v)) = { option \in ToSet(v.options) : MeetsFor(e, v, option) }
        BY <3>3, ClassOptionsAre
      <4>3. ToSet(z.options) = ToSet(ClassOptions(d, v)) /\ ToSet(x.options) = ToSet(ClassOptions(e, v))
        BY <3>4, <3>5
      <4>4. QED BY <4>1, <4>2, <4>3, <1>9
    <3>9. x.count = z.count
      BY <3>4, <3>5, <1>2
    <3>10. QED BY <3>6, <3>7, <3>8, <3>9
  <2>3. QED BY <2>1, <2>2, <1>7, AvailableIs
<1>12. AnswersOffered(e)
  BY <1>2, <1>10, <1>11 DEF AnswersOffered
<1>13. QED BY <1>2, <1>6, <1>12

------------------------------------------------------------------------------
(* What is offered depends on these fields only.                           *)
SameIdentity(d, e) ==
  /\ e.race = d.race /\ e.class = d.class /\ e.level = d.level /\ e.subclass = d.subclass
  /\ e.choices = d.choices

LEMMA SameOffer ==
  ASSUME NEW d, NEW e, SameIdentity(d, e)
  PROVE  /\ AvailableChoices(e) = AvailableChoices(d) /\ AvailableSubclasses(e) = AvailableSubclasses(d)
         /\ IsSrdClass(e) = IsSrdClass(d) /\ SpellMode(e) = SpellMode(d)
         /\ OffersMending(e) = OffersMending(d) /\ OffersListed(e) = OffersListed(d)
         /\ OffersExpanded(e) = OffersExpanded(d)
<1>1. \A ids : SelectedIn(e, ids) = SelectedIn(d, ids)
  BY DEF SelectedIn, SameIdentity
<1>2. \A id : SelectedFor(e, id) = SelectedFor(d, id)
  BY DEF SelectedFor, SameIdentity
<1>3. ClassChoicesFor(e) = ClassChoicesFor(d)
  BY DEF ClassChoicesFor, IsSrdClass, SameIdentity
<1>4. ASSUME NEW x PROVE ClassOptions(e, x) = ClassOptions(d, x)
  <2>1. ASSUME NEW option
        PROVE  (/\ e.level >= Prerequisite(x, option).level
                /\ Prerequisite(x, option).options \subseteq SelectedIn(e, { other.id : other \in ClassChoicesFor(e) }))
               = (/\ d.level >= Prerequisite(x, option).level
                  /\ Prerequisite(x, option).options \subseteq SelectedIn(d, { other.id : other \in ClassChoicesFor(d) }))
    BY <1>1, <1>3 DEF SameIdentity
  <2>2. QED BY <2>1 DEF ClassOptions
<1>5. ASSUME NEW x PROVE ClassOffer(e, x) = ClassOffer(d, x)
  BY <1>4 DEF ClassOffer, SameIdentity
<1>6. AvailableChoices(e) = AvailableChoices(d)
  <2>1. { ClassOffer(e, x) : x \in ClassChoicesFor(e) } = { ClassOffer(d, x) : x \in ClassChoicesFor(d) }
    BY <1>3, <1>5
  <2>2. RaceChoicesOf(e.race) = RaceChoicesOf(d.race)
    BY DEF SameIdentity
  <2>3. QED BY <2>1, <2>2, AvailableIs
<1>7. AvailableSubclasses(e) = AvailableSubclasses(d)
  BY DEF AvailableSubclasses, DecidesSubclass, IsSrdClass, SameIdentity
<1>8. IsSrdClass(e) = IsSrdClass(d) /\ SpellMode(e) = SpellMode(d)
  BY DEF IsSrdClass, SpellMode, SameIdentity
<1>9. OffersMending(e) = OffersMending(d)
  BY <1>1 DEF OffersMending, GrantedCantrips, SameIdentity
<1>10. AlwaysPrepares(e) = AlwaysPrepares(d)
  BY <1>2 DEF AlwaysPrepares, HasSubclassFrom, IsSrdClass, SameIdentity
<1>11. OffersListed(e) = OffersListed(d)
  BY <1>10 DEF OffersListed, SameIdentity
<1>12. OffersExpanded(e) = OffersExpanded(d)
  BY DEF OffersExpanded, HasSubclassFrom, IsSrdClass, SameIdentity
<1>13. QED BY <1>6, <1>7, <1>8, <1>9, <1>11, <1>12

LEMMA AnswersStay ==
  ASSUME NEW d, AnswersOffered(d), NEW e, SameIdentity(d, e)
  PROVE  AnswersOffered(e)
<1>1. AvailableChoices(e) = AvailableChoices(d) /\ e.choices = d.choices
  BY SameOffer DEF SameIdentity
<1>2. QED BY <1>1 DEF AnswersOffered

LEMMA SoundStays ==
  ASSUME NEW d, Sound(d), NEW e \in DraftType,
         e.choices = d.choices, e.notes = d.notes, e.spells = d.spells
  PROVE  Sound(e)
  BY DEF Sound, Settled, Distinct

------------------------------------------------------------------------------
(* RECONCILIATION: GAINS AND SUBCLASS                                      *)

LEMMA GainsReconciled ==
  ASSUME NEW d, Sound(d), NEW e, e = KeepGains(d)
  PROVE  /\ Sound(e) /\ GainsOffered(e)
         /\ e.class = d.class /\ e.level = d.level
<1> DEFINE D == IF IsSrdClass(d) THEN 2 .. d.level ELSE {}
           kept == [l \in D |-> IF l \in DOMAIN d.gains THEN d.gains[l] ELSE 0]
<1>1. d \in DraftType
  BY DEF Sound
<1>2. d.level \in Level /\ d.gains \in Partial(Level, Nat)
  BY <1>1, DraftFields
<1>3. D \in SUBSET Level
  BY <1>2 DEF Level
<1>4. ASSUME NEW l \in DOMAIN d.gains PROVE d.gains[l] \in Nat
  BY <1>2, PartialElim
<1>5. kept \in [D -> Nat]
  BY <1>4
<1>6. kept \in Partial(Level, Nat)
  BY <1>3, <1>5, PartialIntro
<1>7. e = [d EXCEPT !.gains = kept]
  BY DEF KeepGains
<1>8. DOMAIN kept = D
  OBVIOUS
<1> HIDE DEF kept
<1>9. \A v \in Partial(Level, Nat) : [d EXCEPT !.gains = v] \in DraftType
  BY <1>1, DraftWith
<1>10. e \in DraftType
  BY <1>6, <1>7, <1>9
<1>11. /\ e.gains = kept /\ e.class = d.class /\ e.level = d.level
       /\ e.choices = d.choices /\ e.notes = d.notes /\ e.spells = d.spells
  BY <1>7, <1>1 DEF DraftType
<1>12. Sound(e)
  BY <1>10, <1>11, SoundStays
<1>13. GainsOffered(e)
  BY <1>8, <1>11 DEF GainsOffered, IsSrdClass
<1>14. QED BY <1>11, <1>12, <1>13

LEMMA SubclassReconciled ==
  ASSUME NEW d, Sound(d), NEW o, NEW e, e = KeepSubclass(o, d)
  PROVE  /\ Sound(e) /\ e.subclass \in AvailableSubclasses(e)
         /\ e.class = d.class /\ e.level = d.level /\ e.gains = d.gains
<1> DEFINE kept == IF d.subclass \in AvailableSubclasses(d) /\ (d.subclass = "srd" => d.class = o.class)
                   THEN d.subclass ELSE "none"
<1>1. d \in DraftType
  BY DEF Sound
<1>2. e = [d EXCEPT !.subclass = kept]
  BY <1>1 DEF KeepSubclass, DraftType
<1>3. kept \in {"none", "srd", "manual"} /\ kept \in AvailableSubclasses(d)
  BY <1>1, DraftFields DEF AvailableSubclasses
<1> HIDE DEF kept
<1>4. \A v \in {"none", "srd", "manual"} : [d EXCEPT !.subclass = v] \in DraftType
  BY <1>1, DraftWith
<1>5. e \in DraftType
  BY <1>2, <1>3, <1>4
<1>6. /\ e.subclass = kept /\ e.class = d.class /\ e.level = d.level /\ e.gains = d.gains
      /\ e.choices = d.choices /\ e.notes = d.notes /\ e.spells = d.spells
  BY <1>2, <1>1 DEF DraftType
<1>7. AvailableSubclasses(e) = AvailableSubclasses(d)
  BY <1>6 DEF AvailableSubclasses, DecidesSubclass, IsSrdClass
<1>8. Sound(e)
  BY <1>5, <1>6, SoundStays
<1>9. QED BY <1>3, <1>6, <1>7, <1>8

------------------------------------------------------------------------------
(* RECONCILIATION: THE SPELLS                                              *)

LEMMA LearnedIsNat ==
  ASSUME NEW spells, spells.learned \in [Level -> Nat]
  PROVE  Learned(spells) \in Nat
<1>1. \A l \in {1, 2, 3, 4, 5} : spells.learned[l] \in Nat
  BY DEF Level
<1>2. QED BY <1>1 DEF Learned, SumOverLevels

LEMMA SpellFields ==
  ASSUME NEW s \in SpellsType
  PROVE  /\ s.mode \in {"none", "known", "pact-known", "prepared", "spellbook-prepared"}
         /\ s.cantrips \in Nat /\ s.mending \in BOOLEAN /\ s.learned \in [Level -> Nat]
         /\ s.repeated \in BOOLEAN /\ s.expanded \in BOOLEAN /\ s.prepared \in Nat /\ s.listed \in BOOLEAN
  BY DEF SpellsType

LEMMA SpellModeTyped ==
  ASSUME NEW d
  PROVE  /\ SpellMode(d) \in {"none", "known", "pact-known", "prepared", "spellbook-prepared"}
         /\ SpellMode(d) # "none" => d.class \in DOMAIN Classes /\ Casts(d.class, d.level)
                                     /\ SpellMode(d) = Classes[d.class].spellcasting.mode
<1>1. ASSUME NEW c \in DOMAIN Classes
      PROVE  Classes[c].spellcasting.mode \in {"none", "known", "pact-known", "prepared", "spellbook-prepared"}
  <2>1. Classes[c].spellcasting \in Spellcasting
    BY ClassAssumption
  <2>2. QED BY <2>1 DEF Spellcasting
<1>2. QED BY <1>1 DEF SpellMode, IsSrdClass

(* What is left of the learned spells, when the class keeps them.          *)
LEMMA LearnedWithTyped ==
  ASSUME NEW d \in DraftType, SpellsCounted(d.spells), NEW expanded \in BOOLEAN
  PROVE  /\ LearnedWith(d, expanded) \in [Level -> Nat]
         /\ \A l \in Level : LearnedWith(d, expanded)[l] > 0 => l \in LearningLevels(d)
<1>1. d.spells.learned \in [Level -> Nat] /\ d.spells.expanded \in BOOLEAN
  BY DraftFields, SpellFields
<1>2. ASSUME NEW l \in Level
      PROVE  /\ LearnedWith(d, expanded)[l] \in Nat
             /\ LearnedWith(d, expanded)[l] > 0 => l \in LearningLevels(d)
  <2>1. LearnedWith(d, expanded)[l] =
          IF l \notin LearningLevels(d) THEN 0
          ELSE d.spells.learned[l] - (IF l = 1 /\ d.spells.expanded /\ ~expanded THEN 1 ELSE 0)
    BY DEF LearnedWith
  <2>2. d.spells.learned[l] \in Nat /\ (l = 1 /\ d.spells.expanded => d.spells.learned[l] > 0)
    BY <1>1 DEF SpellsCounted
  <2>3. CASE l \notin LearningLevels(d)
    BY <2>1, <2>3
  <2>4. CASE l \in LearningLevels(d)
    <3>1. CASE l = 1 /\ d.spells.expanded /\ ~expanded
      <4>1. LearnedWith(d, expanded)[l] = d.spells.learned[l] - 1
        BY <2>1, <2>4, <3>1
      <4>2. QED BY <4>1, <2>2, <2>4, <3>1
    <3>2. CASE ~ (l = 1 /\ d.spells.expanded /\ ~expanded)
      <4>1. LearnedWith(d, expanded)[l] = d.spells.learned[l] - 0
        BY <2>1, <2>4, <3>2
      <4>2. QED BY <4>1, <2>2, <2>4
    <3>3. QED BY <3>1, <3>2
  <2>5. QED BY <2>3, <2>4
<1>3. LearnedWith(d, expanded) = [l \in Level |-> LearnedWith(d, expanded)[l]]
  BY DEF LearnedWith
<1>4. QED BY <1>2, <1>3

LEMMA PreparedWithFits ==
  ASSUME NEW d \in DraftType, SpellsCounted(d.spells), NEW o, NEW learned \in [Level -> Nat],
         NEW listed \in BOOLEAN, NEW prepared \in PreparedWith(o, d, learned, listed)
  PROVE  /\ prepared \in Nat
         /\ d.spells.mode = "spellbook-prepared" => prepared <= Learned([learned |-> learned])
<1> DEFINE rest == d.spells.prepared - (IF d.spells.listed /\ ~listed THEN 1 ELSE 0)
           book == Learned([learned |-> learned])
           lost == Learned(d.spells) - book
<1>1. d.spells \in SpellsType
  BY DraftFields
<1>2. d.spells.prepared \in Nat /\ (d.spells.listed => d.spells.prepared > 0) /\ d.spells.listed \in BOOLEAN
  BY <1>1, SpellFields DEF SpellsCounted
<1>3. rest \in Nat
  BY <1>2
<1>4. book \in Nat /\ lost \in Int
  <2>1. book \in Nat
    <3>1. [learned |-> learned].learned \in [Level -> Nat]
      OBVIOUS
    <3>2. QED BY <3>1, LearnedIsNat
  <2>2. Learned(d.spells) \in Nat
    BY <1>1, SpellFields, LearnedIsNat
  <2>3. QED BY <2>1, <2>2
<1>5. prepared \in CASE d.spells.mode = "spellbook-prepared" -> AtLeast(0, rest - lost) .. AtMost(book, rest)
                     [] d.spells.mode = "prepared" /\ MayLosePrepared(o, d) -> {0, rest}
                     [] OTHER -> {rest}
  BY DEF PreparedWith
<1> HIDE DEF rest, book, lost
<1>6. CASE d.spells.mode = "spellbook-prepared"
  <2>1. prepared \in AtLeast(0, rest - lost) .. AtMost(book, rest)
    BY <1>5, <1>6
  <2>2. AtLeast(0, rest - lost) \in Nat /\ AtMost(book, rest) \in Nat /\ AtMost(book, rest) <= book
    BY <1>3, <1>4 DEF AtLeast, AtMost
  <2> DEFINE low == AtLeast(0, rest - lost)
             high == AtMost(book, rest)
  <2>3. prepared \in Nat /\ prepared <= book
    <3>1. low \in Nat /\ high \in Nat /\ high <= book /\ prepared \in low .. high
      BY <2>1, <2>2
    <3> HIDE DEF low, high
    <3>2. QED BY <3>1, <1>4
  <2>4. QED BY <2>3 DEF book
<1>7. CASE d.spells.mode # "spellbook-prepared"
  <2>1. prepared \in {0, rest}
    BY <1>5, <1>7
  <2>2. QED BY <2>1, <1>3, <1>7
<1>8. QED BY <1>6, <1>7

LEMMA CantripsWithFits ==
  ASSUME NEW d \in DraftType, SpellsCounted(d.spells), NEW o, NEW cantrips \in CantripsWith(o, d)
  PROVE  /\ cantrips[1] \in Nat /\ cantrips[2] \in BOOLEAN
         /\ cantrips[2] => cantrips[1] > 0 /\ OffersMending(d)
<1> DEFINE mending == d.spells.mending /\ OffersMending(d)
           rest == d.spells.cantrips - (IF d.spells.mending /\ ~mending THEN 1 ELSE 0)
<1>1. d.spells.cantrips \in Nat /\ d.spells.mending \in BOOLEAN /\ (d.spells.mending => d.spells.cantrips > 0)
  BY DraftFields, SpellFields DEF SpellsCounted
<1>2. rest \in Nat /\ mending \in BOOLEAN /\ (mending => rest > 0 /\ OffersMending(d))
  BY <1>1 DEF OffersMending
<1>3. cantrips \in {<<0, FALSE>>, <<rest, mending>>}
  BY DEF CantripsWith
<1> HIDE DEF mending, rest
<1>4. CASE cantrips = <<0, FALSE>>
  BY <1>4
<1>5. CASE cantrips = <<rest, mending>>
  BY <1>5, <1>2
<1>6. QED BY <1>3, <1>4, <1>5

LEMMA SpellsReconciled ==
  ASSUME NEW d, Sound(d), NEW o, NEW s \in KeepSpells(o, d), NEW e, e = [d EXCEPT !.spells = s]
  PROVE  Sound(e) /\ SpellsOffered(e)
<1>1. d \in DraftType /\ SpellsCounted(d.spells) /\ d.spells \in SpellsType
  BY DraftFields DEF Sound
<1>2. SpellMode(d) \in {"none", "known", "pact-known", "prepared", "spellbook-prepared"}
  BY SpellModeTyped
<1> DEFINE Fitting == /\ s \in SpellsType /\ SpellsCounted(s) /\ s.mode = SpellMode(d)
                      /\ \A l \in Level : s.learned[l] > 0 => l \in LearningLevels(e)
                      /\ s.mending => OffersMending(d)
                      /\ s.listed => OffersListed(d)
                      /\ s.expanded => OffersExpanded(d)
                      /\ s.mode = "spellbook-prepared" => s.prepared <= Learned(s)
<1>3. e.spells = s /\ SameIdentity(d, e) /\ e.notes = d.notes
  BY <1>1 DEF DraftType, SameIdentity
<1>4. Fitting
  <2>1. CASE SpellMode(d) = "none" \/ d.spells.mode # SpellMode(d)
    <3>1. s = Unlearned(SpellMode(d))
      BY <2>1 DEF KeepSpells
    <3>2. /\ s \in SpellsType /\ s.mode = SpellMode(d) /\ ~s.mending /\ ~s.listed /\ ~s.expanded
          /\ s.prepared = 0 /\ s.learned = [l \in Level |-> 0]
      BY <3>1, <1>2 DEF Unlearned, SpellsType
    <3>3. SpellsCounted(s)
      BY <3>2 DEF SpellsCounted
    <3>4. s.prepared <= Learned(s)
      <4>1. Learned(s) \in Nat
        BY <3>2, SpellFields, LearnedIsNat
      <4>2. QED BY <4>1, <3>2
    <3>5. \A l \in Level : ~ (s.learned[l] > 0)
      <4>1. \A l \in Level : s.learned[l] = 0
        BY <3>2
      <4>2. ~ (0 > 0)
        OBVIOUS
      <4>3. QED BY <4>1, <4>2, Zenon
    <3>6. QED BY <3>2, <3>3, <3>4, <3>5
  <2>2. CASE ~ (SpellMode(d) = "none" \/ d.spells.mode # SpellMode(d))
    <3> DEFINE expanded == d.spells.expanded /\ OffersExpanded(d)
               listed   == d.spells.listed /\ OffersListed(d) /\ d.class = o.class
               shared   == LearnedWith(d, expanded)
               none     == [l \in Level |-> 0]
    <3>1. expanded \in BOOLEAN /\ listed \in BOOLEAN
      BY DEF OffersExpanded, OffersListed
    <3> DEFINE Kept(cantrips, learned, repeated, prepared) ==
                 [mode |-> d.spells.mode, cantrips |-> cantrips[1], mending |-> cantrips[2],
                  learned |-> learned, repeated |-> repeated, expanded |-> expanded /\ learned[1] > 0,
                  prepared |-> prepared, listed |-> listed /\ prepared > 0]
    <3>2a. PICK cantrips \in CantripsWith(o, d), learned \in {shared, none} :
             \E repeated \in RepeatedWith(d.spells, learned) :
               \E prepared \in PreparedWith(o, d, learned, listed) : s = Kept(cantrips, learned, repeated, prepared)
      BY <2>2 DEF KeepSpells
    <3>2b. PICK repeated \in RepeatedWith(d.spells, learned), prepared \in PreparedWith(o, d, learned, listed) :
             s = Kept(cantrips, learned, repeated, prepared)
      BY <3>2a
    <3>2. s = [mode |-> d.spells.mode, cantrips |-> cantrips[1], mending |-> cantrips[2],
               learned |-> learned, repeated |-> repeated, expanded |-> expanded /\ learned[1] > 0,
               prepared |-> prepared, listed |-> listed /\ prepared > 0]
      BY <3>2b
    <3>3. shared \in [Level -> Nat] /\ \A l \in Level : shared[l] > 0 => l \in LearningLevels(d)
      BY <1>1, <3>1, LearnedWithTyped
    <3>4. expanded => OffersExpanded(d)
      OBVIOUS
    <3>5. listed => OffersListed(d)
      OBVIOUS
    <3> HIDE DEF expanded, listed, shared
    <3>6. none \in [Level -> Nat] /\ \A l \in Level : ~ (none[l] > 0)
      OBVIOUS
    <3> HIDE DEF none
    <3>7. learned \in [Level -> Nat] /\ \A l \in Level : learned[l] > 0 => l \in LearningLevels(d)
      BY <3>3, <3>6
    <3>8. repeated \in BOOLEAN
      BY <1>1, SpellFields DEF RepeatedWith
    <3>9. prepared \in Nat /\ (d.spells.mode = "spellbook-prepared" => prepared <= Learned([learned |-> learned]))
      BY <1>1, <3>1, <3>7, PreparedWithFits
    <3>10. /\ cantrips[1] \in Nat /\ cantrips[2] \in BOOLEAN
           /\ cantrips[2] => cantrips[1] > 0 /\ OffersMending(d)
      BY <1>1, CantripsWithFits
    <3>11. /\ s.mode = d.spells.mode /\ s.cantrips = cantrips[1] /\ s.mending = cantrips[2]
           /\ s.learned = learned /\ s.repeated = repeated /\ s.expanded = (expanded /\ learned[1] > 0)
           /\ s.prepared = prepared /\ s.listed = (listed /\ prepared > 0)
      BY <3>2
    <3>12. s.expanded \in BOOLEAN /\ s.listed \in BOOLEAN
      BY <3>11
    <3>13. s \in SpellsType
      <4>1. d.spells.mode \in {"none", "known", "pact-known", "prepared", "spellbook-prepared"}
        BY <1>1, SpellFields
      <4>2. (expanded /\ learned[1] > 0) \in BOOLEAN /\ (listed /\ prepared > 0) \in BOOLEAN
        OBVIOUS
      <4>3. QED BY <4>1, <4>2, <3>2, <3>7, <3>8, <3>9, <3>10 DEF SpellsType
    <3>14. s.expanded => s.learned[1] > 0 /\ OffersExpanded(d)
      BY <3>4, <3>11
    <3>15. s.listed => s.prepared > 0 /\ OffersListed(d)
      BY <3>5, <3>11
    <3>16. s.mending => s.cantrips > 0 /\ OffersMending(d)
      BY <3>10, <3>11
    <3>17. Learned(s) = Learned([learned |-> learned])
      <4>1. [learned |-> learned].learned = learned
        OBVIOUS
      <4>2. QED BY <4>1, <3>11 DEF Learned
    <3>18. s.mode = "spellbook-prepared" => s.prepared <= Learned(s)
      BY <3>9, <3>11, <3>17
    <3>19. LearningLevels(e) = LearningLevels(d)
      BY <1>3, <3>11 DEF LearningLevels, SameIdentity
    <3>20. \A l \in Level : s.learned[l] > 0 => l \in LearningLevels(e)
      BY <3>7, <3>11, <3>19
    <3>21. SpellsCounted(s) /\ s.mode = SpellMode(d)
      BY <3>14, <3>15, <3>16, <3>11, <2>2 DEF SpellsCounted
    <3>22. QED BY <3>13, <3>14, <3>15, <3>16, <3>18, <3>20, <3>21
  <2>3. QED BY <2>1, <2>2
<1>5. e \in DraftType
  <2>1. \A v \in SpellsType : [d EXCEPT !.spells = v] \in DraftType
    BY <1>1, DraftWith
  <2>2. QED BY <2>1, <1>4
<1>6. Sound(e)
  BY <1>3, <1>4, <1>5 DEF Sound, Settled, Distinct, SameIdentity
<1>7. SpellsOffered(e)
  <2>1. /\ SpellMode(e) = SpellMode(d) /\ OffersMending(e) = OffersMending(d)
        /\ OffersListed(e) = OffersListed(d) /\ OffersExpanded(e) = OffersExpanded(d)
    BY <1>3, SameOffer
  <2>2. LearnedAt(s) \subseteq LearningLevels(e)
    BY <1>4 DEF LearnedAt
  <2>3. QED BY <2>1, <2>2, <1>3, <1>4 DEF SpellsOffered
<1>8. QED BY <1>6, <1>7

------------------------------------------------------------------------------
(* RECONCILIATION: THE DEFENSE                                             *)

LEMMA DefenseFields ==
  ASSUME NEW d \in DraftType
  PROVE  /\ d.defense.mode \in {"armor", "unarmored", "manual"}
         /\ d.defense.armor \in Armors \cup {"none"} /\ d.defense.shield \in {Shield, "none"}
         /\ d.defense.formula \in Range(FormulaOf) \cup {"standard-unarmored"}
         /\ \A item \in Items : d.equipment[item] \in {"absent", "carried", "worn"}
<1>1. d.defense \in DefenseType /\ d.equipment \in [Items -> {"absent", "carried", "worn"}]
  BY DraftFields
<1>2. QED BY <1>1 DEF DefenseType

LEMMA NoneIsNoItem == /\ "none" \notin Items /\ Shield \notin Armors /\ Shield # "none" /\ Armors \subseteq Items
                      /\ Shield \in Items
  BY DEF Items, Armors, Shield

LEMMA DefenseReconciled ==
  ASSUME NEW d \in DraftType, NEW e, e = KeepDefense(d)
  PROVE  /\ e \in DraftType /\ DefenseOffered(e) /\ SameIdentity(d, e)
         /\ e.notes = d.notes /\ e.spells = d.spells /\ e.gains = d.gains
<1> DEFINE mode    == d.defense.mode
           armor   == IF mode = "armor" /\ Worn(d, d.defense.armor) THEN d.defense.armor ELSE "none"
           formula == IF mode = "unarmored" /\ AllowsFormula(d, d.defense.formula)
                      THEN d.defense.formula ELSE "standard-unarmored"
           bare    == \/ mode = "manual"
                      \/ mode = "unarmored" /\ ~AllowsFormula(d, d.defense.formula)
                      \/ mode = "unarmored" /\ formula = "monk-unarmored-defense"
           shield  == IF Worn(d, d.defense.shield) /\ ~bare THEN d.defense.shield ELSE "none"
           defense == [mode |-> mode, armor |-> armor, shield |-> shield, formula |-> formula]
           equipment == [item \in Items |-> IF item \in {armor, shield} THEN d.equipment[item] ELSE "absent"]
<1>1. e = [d EXCEPT !.defense = defense, !.equipment = equipment]
  BY DEF KeepDefense
<1>2. /\ mode \in {"armor", "unarmored", "manual"} /\ armor \in Armors \cup {"none"}
      /\ shield \in {Shield, "none"} /\ formula \in Range(FormulaOf) \cup {"standard-unarmored"}
      /\ \A item \in Items : d.equipment[item] \in {"absent", "carried", "worn"}
  BY DefenseFields
<1>3. AllowsFormula(d, formula)
  BY DEF AllowsFormula
<1>4. (armor # "none" => Worn(d, armor)) /\ (shield # "none" => Worn(d, shield))
  OBVIOUS
<1>5. /\ mode # "armor" => armor = "none"
      /\ mode = "manual" => shield = "none"
      /\ mode = "unarmored" /\ formula = "monk-unarmored-defense" => shield = "none"
  OBVIOUS
<1> HIDE DEF mode, armor, formula, bare, shield
<1>6. defense \in DefenseType
  BY <1>2 DEF DefenseType
<1>7. equipment \in [Items -> {"absent", "carried", "worn"}]
  BY <1>2
<1>8. /\ defense.mode = mode /\ defense.armor = armor /\ defense.shield = shield /\ defense.formula = formula
  OBVIOUS
<1>9. \A item \in Items : equipment[item] = IF item \in {armor, shield} THEN d.equipment[item] ELSE "absent"
  OBVIOUS
<1> HIDE DEF defense, equipment
<1>10. e \in DraftType
  <2> DEFINE f == [d EXCEPT !.defense = defense]
  <2>1. \A v \in DefenseType : [d EXCEPT !.defense = v] \in DraftType
    BY DraftWith
  <2>2. f \in DraftType
    BY <2>1, <1>6
  <2>3. e = [f EXCEPT !.equipment = equipment]
    BY <1>1
  <2> HIDE DEF f
  <2>4. \A v \in [Items -> {"absent", "carried", "worn"}] : [f EXCEPT !.equipment = v] \in DraftType
    BY <2>2, DraftWith
  <2>5. QED BY <2>3, <2>4, <1>7
<1>11. e.defense = defense /\ e.equipment = equipment
  BY <1>1 DEF DraftType
<1>12. SameIdentity(d, e) /\ e.notes = d.notes /\ e.spells = d.spells /\ e.gains = d.gains
  BY <1>1 DEF SameIdentity
<1>13. AllowsFormula(e, formula)
  BY <1>3, <1>12 DEF AllowsFormula, SameIdentity
<1>14. \A item \in {armor, shield} \ {"none"} : Worn(e, item)
  BY <1>4, <1>9, <1>11 DEF Worn
<1>15. \A item \in Items : Worn(e, item) => item \in {armor, shield}
  BY <1>9, <1>11 DEF Worn
<1>16. DefenseOffered(e)
  BY <1>5, <1>8, <1>11, <1>13, <1>14, <1>15 DEF DefenseOffered
<1>17. QED BY <1>10, <1>12, <1>16

------------------------------------------------------------------------------
(* RECONCILIATION                                                          *)

(* Whatever was edited, the reconciled draft is within what is offered.    *)
LEMMA ReconciledWithinOffer ==
  ASSUME NEW d, Sound(d), NEW o, NEW e \in Reconciled(o, d)
  PROVE  WithinOffer(e)
<1> DEFINE a == KeepGains(d)
           b == KeepSubclass(o, a)
           c == KeepChoices(b)
<1>1. Sound(a) /\ GainsOffered(a)
  BY GainsReconciled
<1> HIDE DEF a
<1>2. /\ Sound(b) /\ b.subclass \in AvailableSubclasses(b)
      /\ b.class = a.class /\ b.level = a.level /\ b.gains = a.gains
  BY <1>1, SubclassReconciled
<1> HIDE DEF b
<1>3. Sound(c) /\ AnswersOffered(c)
  BY <1>2, ChoicesReconciled
<1>4. /\ c.race = b.race /\ c.class = b.class /\ c.level = b.level /\ c.subclass = b.subclass
      /\ c.gains = b.gains
  BY <1>2, KeepChoicesIs
<1>5. PICK s \in KeepSpells(o, c) : e = KeepDefense([c EXCEPT !.spells = s])
  BY DEF Reconciled, KeepSpellsAndDefense, a, b
<1> HIDE DEF c
<1> DEFINE f == [c EXCEPT !.spells = s]
<1>6. Sound(f) /\ SpellsOffered(f)
  BY <1>3, SpellsReconciled
<1>7. SameIdentity(c, f) /\ f.notes = c.notes /\ f.gains = c.gains
  BY DEF SameIdentity
<1>8. e = KeepDefense(f)
  BY <1>5
<1> HIDE DEF f
<1>9. f \in DraftType
  BY <1>6 DEF Sound
<1>10. /\ e \in DraftType /\ DefenseOffered(e) /\ SameIdentity(f, e)
       /\ e.notes = f.notes /\ e.spells = f.spells /\ e.gains = f.gains
  BY <1>8, <1>9, DefenseReconciled
<1>11. Sound(e)
  BY <1>6, <1>10, SoundStays DEF SameIdentity
<1>12. AnswersOffered(e)
  BY <1>3, <1>7, <1>10, AnswersStay
<1>13. e.class = a.class /\ e.level = a.level /\ e.gains = a.gains
  BY <1>2, <1>4, <1>7, <1>10 DEF SameIdentity
<1>14. GainsOffered(e)
  BY <1>1, <1>13 DEF GainsOffered, IsSrdClass
<1>15. e.subclass \in AvailableSubclasses(e)
  <2>1. e.subclass = b.subclass /\ e.class = b.class /\ e.level = b.level
    BY <1>4, <1>7, <1>10 DEF SameIdentity
  <2>2. AvailableSubclasses(e) = AvailableSubclasses(b)
    BY <2>1 DEF AvailableSubclasses, DecidesSubclass, IsSrdClass
  <2>3. QED BY <2>1, <2>2, <1>2
<1>16. SpellsOffered(e)
  <2>1. /\ SpellMode(e) = SpellMode(f) /\ OffersMending(e) = OffersMending(f)
        /\ OffersListed(e) = OffersListed(f) /\ OffersExpanded(e) = OffersExpanded(f)
    BY <1>10, SameOffer
  <2>2. LearningLevels(e) = LearningLevels(f)
    BY <1>10 DEF LearningLevels, SameIdentity
  <2>3. QED BY <2>1, <2>2, <1>6, <1>10 DEF SpellsOffered
<1>17. QED BY <1>10, <1>11, <1>12, <1>14, <1>15, <1>16 DEF WithinOffer

------------------------------------------------------------------------------
(* THE FORM                                                                *)

LEMMA AbilitiesAre == Abilities = {"strength", "dexterity", "constitution", "intelligence", "wisdom", "charisma"}
<1>1. DOMAIN AbilityOrder = 1 .. 6
  BY DEF AbilityOrder
<1>2. 1 .. 6 = {1, 2, 3, 4, 5, 6}
  OBVIOUS
<1>3. Abilities = { AbilityOrder[i] : i \in {1, 2, 3, 4, 5, 6} }
  BY <1>1, <1>2 DEF Abilities, ToSet
<1>4. QED BY <1>3 DEF AbilityOrder

LEMMA ScoresTyped ==
  ASSUME NEW a \in Int, NEW b \in Int, NEW c \in Int, NEW p \in Int, NEW q \in Int, NEW r \in Int
  PROVE  Scores(a, b, c, p, q, r) \in AbilityScores
  BY AbilitiesAre DEF Scores, AbilityScores

LEMMA FirstDraftSound ==
  ASSUME NEW source, NEW build
  PROVE  Sound(FirstDraft(source, build))
<1> DEFINE d == FirstDraft(source, build)
           guided == source = "guided"
           item == IF build = Strength THEN "chain_mail" ELSE "leather_armor"
           held == IF build = Strength THEN Shield ELSE "none"
           base == IF build = Strength THEN Scores(15, 10, 14, 8, 12, 13) ELSE Scores(10, 15, 14, 8, 13, 12)
           imported == Scores(15, 14, 13, 12, 10, 8)
           defense == [mode |-> IF guided THEN "armor" ELSE "unarmored",
                       armor |-> IF guided THEN item ELSE "none",
                       shield |-> IF guided THEN held ELSE "none", formula |-> "standard-unarmored"]
           equipment == [i \in Items |-> IF guided /\ i \in {item, held} THEN "worn" ELSE "absent"]
           spells == Unlearned("none")
<1>1. d = [race |-> IF guided THEN "human" ELSE "none", class |-> IF guided THEN "fighter" ELSE "none",
           level |-> 1, subclass |-> "none", mode |-> IF guided THEN "calculated" ELSE "imported",
           base |-> base, retained |-> base, imported |-> imported,
           gains |-> <<>>, choices |-> <<>>, notes |-> {}, spells |-> spells, overrides |-> {},
           defense |-> defense, equipment |-> equipment, spellAttack |-> FALSE]
  BY DEF FirstDraft
<1>2. base \in AbilityScores /\ imported \in AbilityScores
  <2>1. Scores(15, 10, 14, 8, 12, 13) \in AbilityScores /\ Scores(10, 15, 14, 8, 13, 12) \in AbilityScores
    BY ScoresTyped
  <2>2. imported \in AbilityScores
    BY ScoresTyped
  <2>3. QED BY <2>1, <2>2
<1>3. defense \in DefenseType
  BY DEF DefenseType, Armors
<1>4. equipment \in [Items -> {"absent", "carried", "worn"}]
  OBVIOUS
<1>5. spells \in SpellsType /\ SpellsCounted(spells)
  BY DEF Unlearned, SpellsType, SpellsCounted
<1>6. <<>> \in Partial(Level, Nat) /\ <<>> \in Partial(STRING, Seq(Option))
  <2>1. <<>> \in [{} -> Nat] /\ <<>> \in [{} -> Seq(Option)]
    OBVIOUS
  <2>2. QED BY <2>1, PartialIntro
<1>7. "human" \in DOMAIN Races /\ "fighter" \in DOMAIN Classes /\ 1 \in Level
  BY DEF Races, Classes, Level
<1> HIDE DEF base, imported, defense, equipment, spells
<1>8. d \in DraftType
  BY <1>1, <1>2, <1>3, <1>4, <1>5, <1>6, <1>7 DEF DraftType
<1>9. d.choices = <<>> /\ d.notes = {} /\ d.spells = spells
  BY <1>1
<1> HIDE DEF d
<1>10. DOMAIN d.choices = {}
  BY <1>9
<1>11. QED BY <1>5, <1>8, <1>9, <1>10 DEF Sound, Settled, Distinct, d

LEMMA FirstDraftsWithinOffer ==
  ASSUME NEW source, NEW build, NEW d \in FirstDrafts(source, build)
  PROVE  WithinOffer(d)
  BY FirstDraftSound, ReconciledWithinOffer DEF FirstDrafts

(* An edit that is not reconciled and leaves the spells alone.             *)
LEMMA OtherEditsWithinOffer ==
  ASSUME NEW d, WithinOffer(d), NEW e \in DraftType, SameIdentity(d, e), e.notes \subseteq NoteIds,
         DOMAIN e.gains = DOMAIN d.gains, e.spells = d.spells, e.defense = d.defense,
         \A item \in Items : (e.equipment[item] = "worn") = (d.equipment[item] = "worn")
  PROVE  WithinOffer(e)
<1>1. /\ Sound(d) /\ d.subclass \in AvailableSubclasses(d) /\ AnswersOffered(d) /\ GainsOffered(d)
      /\ SpellsOffered(d) /\ DefenseOffered(d)
  BY DEF WithinOffer
<1>2. Sound(e)
  BY <1>1 DEF Sound, Settled, Distinct, SameIdentity
<1>3. AnswersOffered(e)
  BY <1>1, AnswersStay
<1>4. /\ AvailableSubclasses(e) = AvailableSubclasses(d) /\ SpellMode(e) = SpellMode(d)
      /\ OffersMending(e) = OffersMending(d) /\ OffersListed(e) = OffersListed(d)
      /\ OffersExpanded(e) = OffersExpanded(d) /\ IsSrdClass(e) = IsSrdClass(d)
  BY SameOffer
<1>5. LearningLevels(e) = LearningLevels(d)
  BY DEF LearningLevels, SameIdentity
<1>6. SpellsOffered(e)
  BY <1>1, <1>4, <1>5 DEF SpellsOffered
<1>7. GainsOffered(e)
  BY <1>1, <1>4 DEF GainsOffered, SameIdentity
<1>8. \A item : Worn(e, item) <=> Worn(d, item)
  BY DEF Worn
<1>9. \A formula : AllowsFormula(e, formula) <=> AllowsFormula(d, formula)
  BY DEF AllowsFormula, SameIdentity
<1>10. DefenseOffered(e)
  BY <1>1, <1>8, <1>9 DEF DefenseOffered
<1>11. QED BY <1>1, <1>2, <1>3, <1>4, <1>6, <1>7, <1>10 DEF WithinOffer, SameIdentity

(* An edit of the spells, which is not reconciled either.                  *)
LEMMA SpellEditsWithinOffer ==
  ASSUME NEW d, WithinOffer(d), NEW s \in SpellsType, SpellsCounted(s), s.mode = d.spells.mode,
         \A l \in Level : s.learned[l] > 0 => l \in LearningLevels(d),
         s.mending => OffersMending(d), s.listed => OffersListed(d), s.expanded => OffersExpanded(d),
         s.mode = "spellbook-prepared" => s.prepared <= Learned(s),
         NEW e, e = [d EXCEPT !.spells = s]
  PROVE  WithinOffer(e)
<1>1. /\ Sound(d) /\ d.subclass \in AvailableSubclasses(d) /\ AnswersOffered(d) /\ GainsOffered(d)
      /\ SpellsOffered(d) /\ DefenseOffered(d)
  BY DEF WithinOffer
<1>2. d \in DraftType
  BY <1>1 DEF Sound
<1>3. e \in DraftType
  <2>1. \A v \in SpellsType : [d EXCEPT !.spells = v] \in DraftType
    BY <1>2, DraftWith
  <2>2. QED BY <2>1
<1>4. /\ SameIdentity(d, e) /\ e.spells = s /\ e.notes = d.notes /\ e.gains = d.gains
      /\ e.defense = d.defense /\ e.equipment = d.equipment
  BY <1>2 DEF SameIdentity, DraftType
<1>5. Sound(e)
  BY <1>1, <1>3, <1>4 DEF Sound, Settled, Distinct, SameIdentity
<1>6. AnswersOffered(e)
  BY <1>1, <1>4, AnswersStay
<1>7. /\ AvailableSubclasses(e) = AvailableSubclasses(d) /\ SpellMode(e) = SpellMode(d)
      /\ OffersMending(e) = OffersMending(d) /\ OffersListed(e) = OffersListed(d)
      /\ OffersExpanded(e) = OffersExpanded(d) /\ IsSrdClass(e) = IsSrdClass(d)
  BY <1>4, SameOffer
<1>8. LearningLevels(e) = LearningLevels(d)
  BY <1>4 DEF LearningLevels, SameIdentity
<1>9. SpellsOffered(e)
  <2>1. LearnedAt(s) \subseteq LearningLevels(e)
    BY <1>8 DEF LearnedAt
  <2>2. s.mode = SpellMode(e)
    BY <1>1, <1>7 DEF SpellsOffered
  <2>3. QED BY <2>1, <2>2, <1>4, <1>7 DEF SpellsOffered
<1>10. GainsOffered(e)
  BY <1>1, <1>4, <1>7 DEF GainsOffered, SameIdentity
<1>11. \A item : Worn(e, item) <=> Worn(d, item)
  BY <1>4 DEF Worn
<1>12. \A formula : AllowsFormula(e, formula) <=> AllowsFormula(d, formula)
  BY <1>4 DEF AllowsFormula, SameIdentity
<1>13. DefenseOffered(e)
  BY <1>1, <1>4, <1>11, <1>12 DEF DefenseOffered
<1>14. QED BY <1>1, <1>4, <1>5, <1>6, <1>7, <1>9, <1>10, <1>13 DEF WithinOffer, SameIdentity

------------------------------------------------------------------------------
(* EDITS THAT ARE RECONCILED                                               *)

PageInv ==
  /\ scope \in Scopes
  /\ view \in {"page", "form", "review", "opened"} /\ outcome \in {"none", "flagged", "puzzled", "refused"}
  /\ WithinOffer(draft)

LEMMA EditReconciledKeeps ==
  ASSUME NEW edited, Sound(edited), EditReconciled(edited)
  PROVE  WithinOffer(draft')
  BY ReconciledWithinOffer DEF EditReconciled, Edit

LEMMA DraftIsSound ==
  ASSUME PageInv
  PROVE  draft \in DraftType /\ Sound(draft)
  BY DEF PageInv, WithinOffer, Sound

(* The components of a scope.                                              *)
LEMMA ScopeFields ==
  ASSUME PageInv
  PROVE  /\ scope.races \subseteq DOMAIN Races \cup {"none", "manual"}
         /\ scope.classes \subseteq DOMAIN Classes \cup {"none", "manual"}
         /\ scope.levels \subseteq Level
         /\ DOMAIN scope.scores \subseteq Abilities
         /\ \A a \in DOMAIN scope.scores : scope.scores[a] \subseteq Int
         /\ scope.rolls \subseteq Nat /\ scope.modes \subseteq {"armor", "unarmored", "manual"}
         /\ scope.items \subseteq Items /\ scope.overrides \subseteq {"maximum", "speed"}
  BY ScopesAssumption DEF PageInv

LEMMA SetRaceKeeps == ASSUME PageInv, SetRace PROVE WithinOffer(draft')
<1>1. PICK race \in scope.races :
        EditReconciled([draft EXCEPT !.race = race, !.mode = IF race = "manual" THEN "imported" ELSE @])
  BY DEF SetRace
<1> DEFINE d == [draft EXCEPT !.race = race]
           mode == IF race = "manual" THEN "imported" ELSE draft.mode
           e == [d EXCEPT !.mode = mode]
<1>2. draft \in DraftType /\ Sound(draft)
  BY DraftIsSound
<1>3. d \in DraftType
  <2>1. \A v \in DOMAIN Races \cup {"none", "manual"} : [draft EXCEPT !.race = v] \in DraftType
    BY <1>2, DraftWith
  <2>2. QED BY <2>1, ScopeFields
<1>4. [draft EXCEPT !.race = race, !.mode = IF race = "manual" THEN "imported" ELSE @] = e
  BY <1>2 DEF DraftType
<1>5. mode \in {"calculated", "imported"}
  BY <1>2, DraftFields
<1>6. d.choices = draft.choices /\ d.notes = draft.notes /\ d.spells = draft.spells
  OBVIOUS
<1> HIDE DEF d, mode
<1>7. e \in DraftType
  <2>1. \A v \in {"calculated", "imported"} : [d EXCEPT !.mode = v] \in DraftType
    BY <1>3, DraftWith
  <2>2. QED BY <2>1, <1>5
<1>8. Sound(e)
  <2>1. e.choices = draft.choices /\ e.notes = draft.notes /\ e.spells = draft.spells
    BY <1>6
  <2> HIDE DEF e
  <2>2. QED BY <1>2, <1>7, <2>1, SoundStays
<1>9. QED BY <1>1, <1>4, <1>8, EditReconciledKeeps

LEMMA SetClassKeeps == ASSUME PageInv, SetClass PROVE WithinOffer(draft')
<1>1. PICK class \in scope.classes : EditReconciled([draft EXCEPT !.class = class])
  BY DEF SetClass
<1>2. draft \in DraftType /\ Sound(draft)
  BY DraftIsSound
<1> DEFINE e == [draft EXCEPT !.class = class]
<1>3. e \in DraftType
  <2>1. \A v \in DOMAIN Classes \cup {"none", "manual"} : [draft EXCEPT !.class = v] \in DraftType
    BY <1>2, DraftWith
  <2>2. QED BY <2>1, ScopeFields
<1>4. Sound(e)
  <2>1. e.choices = draft.choices /\ e.notes = draft.notes /\ e.spells = draft.spells
    OBVIOUS
  <2> HIDE DEF e
  <2>2. QED BY <1>2, <1>3, <2>1, SoundStays
<1>5. QED BY <1>1, <1>4, EditReconciledKeeps

LEMMA SetLevelKeeps == ASSUME PageInv, SetLevel PROVE WithinOffer(draft')
<1>1. PICK level \in scope.levels : EditReconciled([draft EXCEPT !.level = level])
  BY DEF SetLevel
<1>2. draft \in DraftType /\ Sound(draft)
  BY DraftIsSound
<1> DEFINE e == [draft EXCEPT !.level = level]
<1>3. e \in DraftType
  <2>1. \A v \in Level : [draft EXCEPT !.level = v] \in DraftType
    BY <1>2, DraftWith
  <2>2. QED BY <2>1, ScopeFields
<1>4. Sound(e)
  <2>1. e.choices = draft.choices /\ e.notes = draft.notes /\ e.spells = draft.spells
    OBVIOUS
  <2> HIDE DEF e
  <2>2. QED BY <1>2, <1>3, <2>1, SoundStays
<1>5. QED BY <1>1, <1>4, EditReconciledKeeps

LEMMA SetSubclassKeeps == ASSUME PageInv, SetSubclass PROVE WithinOffer(draft')
<1>1. PICK subclass \in AvailableSubclasses(draft) : EditReconciled([draft EXCEPT !.subclass = subclass])
  BY DEF SetSubclass
<1>2. draft \in DraftType /\ Sound(draft)
  BY DraftIsSound
<1> DEFINE e == [draft EXCEPT !.subclass = subclass]
<1>3. e \in DraftType
  <2>1. \A v \in {"none", "srd", "manual"} : [draft EXCEPT !.subclass = v] \in DraftType
    BY <1>2, DraftWith
  <2>2. QED BY <2>1 DEF AvailableSubclasses
<1>4. Sound(e)
  <2>1. e.choices = draft.choices /\ e.notes = draft.notes /\ e.spells = draft.spells
    OBVIOUS
  <2> HIDE DEF e
  <2>2. QED BY <1>2, <1>3, <2>1, SoundStays
<1>5. QED BY <1>1, <1>4, EditReconciledKeeps

(* Selecting options keeps the boon alone in its choice, since as many are *)
(* selected as the choice asks for.                                        *)
LEMMA ChooseKeeps == ASSUME PageInv, Choose PROVE WithinOffer(draft')
<1>1. PICK x \in AvailableChoices(draft) :
        \E chosen \in kSubset(x.count, Selectable(x)) \cup {{}} :
          EditReconciled([draft EXCEPT !.choices[x.id] = Filter(x.options, chosen)])
  BY DEF Choose
<1>2. PICK chosen \in kSubset(x.count, Selectable(x)) \cup {{}} :
        EditReconciled([draft EXCEPT !.choices[x.id] = Filter(x.options, chosen)])
  BY <1>1
<1>3. draft \in DraftType /\ Sound(draft) /\ AnswersOffered(draft)
  BY DraftIsSound DEF PageInv, WithinOffer
<1>4. /\ x.count \in Nat /\ x.options \in Seq(Option) /\ IsInjective(x.options)
      /\ PactOfTheTome \in ToSet(x.options) => x.id = PactBoon /\ x.count <= 1
  BY <1>3, OffersTyped
<1> DEFINE s == Filter(x.options, chosen)
           choices == [draft.choices EXCEPT ![x.id] = s]
           e == [draft EXCEPT !.choices = choices]
<1>5. s \in Seq(Option) /\ IsInjective(s) /\ ToSet(s) = ToSet(x.options) \cap chosen
  BY <1>4, FilterProperties
<1>6. ASSUME PactOfTheTome \in ToSet(s) PROVE x.id = PactBoon /\ ToSet(s) = {PactOfTheTome}
  <2>1. PactOfTheTome \in chosen /\ PactOfTheTome \in ToSet(x.options)
    BY <1>5, <1>6
  <2>2. x.id = PactBoon /\ x.count <= 1
    BY <2>1, <1>4
  <2>3. chosen \in SUBSET Selectable(x) /\ Cardinality(chosen) = x.count
    BY <2>1 DEF kSubset
  <2>4. IsFiniteSet(chosen)
    <3>1. IsFiniteSet(DOMAIN x.options)
      <4>1. DOMAIN x.options = 1 .. Len(x.options) /\ Len(x.options) \in Nat
        BY <1>4, LenProperties
      <4>2. IsFiniteSet(1 .. Len(x.options))
        BY <4>1, FS_Interval
      <4>3. QED BY <4>1, <4>2
    <3>2. IsFiniteSet(ToSet(x.options))
      <4>1. x.options \in Surjection(DOMAIN x.options, ToSet(x.options))
        BY <1>4 DEF Surjection, ToSet
      <4>2. QED BY <3>1, <4>1, FS_Surjection
    <3>3. chosen \subseteq ToSet(x.options)
      BY <2>3 DEF Selectable
    <3>4. QED BY <3>2, <3>3, FS_Subset
  <2>5. Cardinality(chosen) \in Nat /\ (Cardinality(chosen) = 0 <=> chosen = {})
    BY <2>4, FS_CardinalityType, FS_EmptySet
  <2>6. Cardinality(chosen) = 1
    BY <2>1, <2>2, <2>3, <2>5
  <2>7. \E y : chosen = {y}
    BY <2>4, <2>6, FS_Singleton
  <2>8. chosen = {PactOfTheTome}
    BY <2>1, <2>7
  <2>9. QED BY <2>1, <2>2, <2>8, <1>5
<1> HIDE DEF s
<1>7. x.id \in DOMAIN draft.choices
  BY <1>3 DEF AnswersOffered
<1>8. /\ DOMAIN choices = DOMAIN draft.choices /\ choices[x.id] = s
      /\ \A id \in DOMAIN choices : id # x.id => choices[id] = draft.choices[id]
  BY <1>7
<1>9. choices \in Partial(STRING, Seq(Option))
  <2>1. DOMAIN choices \in SUBSET STRING /\ \A id \in DOMAIN choices : choices[id] \in Seq(Option)
    BY <1>3, <1>5, <1>8, SelectionsAreSequences
  <2>2. choices \in [DOMAIN choices -> Seq(Option)]
    BY <2>1
  <2> HIDE DEF choices
  <2>3. QED BY <2>1, <2>2, PartialIntro
<1>10. [draft EXCEPT !.choices[x.id] = s] = e
  BY <1>3 DEF DraftType
<1> HIDE DEF choices
<1>11. e \in DraftType
  <2>1. \A v \in Partial(STRING, Seq(Option)) : [draft EXCEPT !.choices = v] \in DraftType
    BY <1>3, DraftWith
  <2>2. QED BY <2>1, <1>9
<1>12. e.choices = choices /\ e.notes = draft.notes /\ e.spells = draft.spells
  BY <1>3 DEF DraftType
<1> HIDE DEF e
<1>13. Settled(e)
  BY <1>3, <1>6, <1>8, <1>12 DEF Sound, Settled
<1>14. Distinct(e)
  BY <1>3, <1>5, <1>8, <1>12 DEF Sound, Distinct
<1>15. Sound(e)
  BY <1>3, <1>11, <1>12, <1>13, <1>14 DEF Sound
<1>16. QED BY <1>2, <1>10, <1>15, EditReconciledKeeps DEF s

(* The defense and what is worn.                                           *)
LEMMA DefenseWith ==
  ASSUME NEW d \in DraftType
  PROVE  /\ \A v \in {"armor", "unarmored", "manual"} : [d EXCEPT !.defense.mode = v] \in DraftType
         /\ \A v \in Armors \cup {"none"} : [d EXCEPT !.defense.armor = v] \in DraftType
         /\ \A v \in {Shield, "none"} : [d EXCEPT !.defense.shield = v] \in DraftType
         /\ \A v \in Range(FormulaOf) \cup {"standard-unarmored"} : [d EXCEPT !.defense.formula = v] \in DraftType
<1>1. d.defense \in DefenseType
  BY DraftFields
<1>2. ASSUME NEW defense \in DefenseType PROVE [d EXCEPT !.defense = defense] \in DraftType
  BY DraftWith
<1>3. ASSUME NEW v \in {"armor", "unarmored", "manual"} PROVE [d EXCEPT !.defense.mode = v] \in DraftType
  <2>1. [d.defense EXCEPT !.mode = v] \in DefenseType
    BY <1>1 DEF DefenseType
  <2>2. [d EXCEPT !.defense = [d.defense EXCEPT !.mode = v]] \in DraftType
    BY <1>2, <2>1
  <2>3. QED BY <2>2
<1>4. ASSUME NEW v \in Armors \cup {"none"} PROVE [d EXCEPT !.defense.armor = v] \in DraftType
  <2>1. [d.defense EXCEPT !.armor = v] \in DefenseType
    BY <1>1 DEF DefenseType
  <2>2. [d EXCEPT !.defense = [d.defense EXCEPT !.armor = v]] \in DraftType
    BY <1>2, <2>1
  <2>3. QED BY <2>2
<1>5. ASSUME NEW v \in {Shield, "none"} PROVE [d EXCEPT !.defense.shield = v] \in DraftType
  <2>1. [d.defense EXCEPT !.shield = v] \in DefenseType
    BY <1>1 DEF DefenseType
  <2>2. [d EXCEPT !.defense = [d.defense EXCEPT !.shield = v]] \in DraftType
    BY <1>2, <2>1
  <2>3. QED BY <2>2
<1>6. ASSUME NEW v \in Range(FormulaOf) \cup {"standard-unarmored"}
      PROVE  [d EXCEPT !.defense.formula = v] \in DraftType
  <2>1. [d.defense EXCEPT !.formula = v] \in DefenseType
    BY <1>1 DEF DefenseType
  <2>2. [d EXCEPT !.defense = [d.defense EXCEPT !.formula = v]] \in DraftType
    BY <1>2, <2>1
  <2>3. QED BY <2>2
<1>7. QED BY <1>3, <1>4, <1>5, <1>6

LEMMA EquipmentWith ==
  ASSUME NEW d \in DraftType
  PROVE  /\ \A item \in Items : \A v \in {"absent", "carried", "worn"} : [d EXCEPT !.equipment[item] = v] \in DraftType
         /\ \A item : PutOn(d, item) \in DraftType
<1>1. d.equipment \in [Items -> {"absent", "carried", "worn"}]
  BY DraftFields
<1>2. ASSUME NEW equipment \in [Items -> {"absent", "carried", "worn"}]
      PROVE  [d EXCEPT !.equipment = equipment] \in DraftType
  BY DraftWith
<1>3. ASSUME NEW item \in Items, NEW v \in {"absent", "carried", "worn"}
      PROVE  [d EXCEPT !.equipment[item] = v] \in DraftType
  <2>1. [d.equipment EXCEPT ![item] = v] \in [Items -> {"absent", "carried", "worn"}]
    BY <1>1
  <2>2. [d EXCEPT !.equipment = [d.equipment EXCEPT ![item] = v]] \in DraftType
    BY <1>2, <2>1
  <2>3. QED BY <2>2
<1>4. ASSUME NEW item PROVE PutOn(d, item) \in DraftType
  <2> DEFINE equipment == [i \in Items |-> IF i = item THEN "worn" ELSE d.equipment[i]]
  <2>1. equipment \in [Items -> {"absent", "carried", "worn"}]
    BY <1>1
  <2>2. PutOn(d, item) = [d EXCEPT !.equipment = equipment]
    BY DEF PutOn, DraftType
  <2> HIDE DEF equipment
  <2>3. QED BY <2>1, <2>2, <1>2
<1>5. QED BY <1>3, <1>4

LEMMA SetDefenseModeKeeps == ASSUME PageInv, SetDefenseMode PROVE WithinOffer(draft')
<1>1. PICK mode \in scope.modes : EditReconciled([draft EXCEPT !.defense.mode = mode])
  BY DEF SetDefenseMode
<1>2. draft \in DraftType /\ Sound(draft)
  BY DraftIsSound
<1> DEFINE e == [draft EXCEPT !.defense.mode = mode]
<1>3. e \in DraftType
  <2>1. \A v \in {"armor", "unarmored", "manual"} : [draft EXCEPT !.defense.mode = v] \in DraftType
    BY <1>2, DefenseWith
  <2>2. QED BY <2>1, ScopeFields
<1>4. Sound(e)
  <2>1. e.choices = draft.choices /\ e.notes = draft.notes /\ e.spells = draft.spells
    OBVIOUS
  <2> HIDE DEF e
  <2>2. QED BY <1>2, <1>3, <2>1, SoundStays
<1>5. QED BY <1>1, <1>4, EditReconciledKeeps

LEMMA SetArmorKeeps == ASSUME PageInv, SetArmor PROVE WithinOffer(draft')
<1>1. PICK armor \in (Armors \cap scope.items) \cup {"none"} :
        EditReconciled(PutOn([draft EXCEPT !.defense.armor = armor], armor))
  BY DEF SetArmor
<1>2. draft \in DraftType /\ Sound(draft)
  BY DraftIsSound
<1> DEFINE d == [draft EXCEPT !.defense.armor = armor]
           e == PutOn(d, armor)
<1>3. d \in DraftType
  <2>1. \A v \in Armors \cup {"none"} : [draft EXCEPT !.defense.armor = v] \in DraftType
    BY <1>2, DefenseWith
  <2>2. QED BY <2>1
<1>4. d.choices = draft.choices /\ d.notes = draft.notes /\ d.spells = draft.spells
  OBVIOUS
<1> HIDE DEF d
<1>5. e \in DraftType
  BY <1>3, EquipmentWith
<1>6. e.choices = d.choices /\ e.notes = d.notes /\ e.spells = d.spells
  BY DEF PutOn
<1>7. Sound(e)
  BY <1>2, <1>4, <1>5, <1>6, SoundStays
<1>8. QED BY <1>1, <1>7, EditReconciledKeeps DEF d

LEMMA SetShieldKeeps == ASSUME PageInv, SetShield PROVE WithinOffer(draft')
<1>1. PICK shield \in ({Shield} \cap scope.items) \cup {"none"} :
        EditReconciled(PutOn([draft EXCEPT !.defense.shield = shield], shield))
  BY DEF SetShield
<1>2. draft \in DraftType /\ Sound(draft)
  BY DraftIsSound
<1> DEFINE d == [draft EXCEPT !.defense.shield = shield]
           e == PutOn(d, shield)
<1>3. d \in DraftType
  <2>1. \A v \in {Shield, "none"} : [draft EXCEPT !.defense.shield = v] \in DraftType
    BY <1>2, DefenseWith
  <2>2. QED BY <2>1
<1>4. d.choices = draft.choices /\ d.notes = draft.notes /\ d.spells = draft.spells
  OBVIOUS
<1> HIDE DEF d
<1>5. e \in DraftType
  BY <1>3, EquipmentWith
<1>6. e.choices = d.choices /\ e.notes = d.notes /\ e.spells = d.spells
  BY DEF PutOn
<1>7. Sound(e)
  BY <1>2, <1>4, <1>5, <1>6, SoundStays
<1>8. QED BY <1>1, <1>7, EditReconciledKeeps DEF d

LEMMA SetFormulaKeeps == ASSUME PageInv, SetFormula PROVE WithinOffer(draft')
<1>1. PICK formula \in Range(FormulaOf) \cup {"standard-unarmored"} :
        EditReconciled([draft EXCEPT !.defense.formula = formula])
  BY DEF SetFormula
<1>2. draft \in DraftType /\ Sound(draft)
  BY DraftIsSound
<1> DEFINE e == [draft EXCEPT !.defense.formula = formula]
<1>3. e \in DraftType
  <2>1. \A v \in Range(FormulaOf) \cup {"standard-unarmored"} : [draft EXCEPT !.defense.formula = v] \in DraftType
    BY <1>2, DefenseWith
  <2>2. QED BY <2>1
<1>4. Sound(e)
  <2>1. e.choices = draft.choices /\ e.notes = draft.notes /\ e.spells = draft.spells
    OBVIOUS
  <2> HIDE DEF e
  <2>2. QED BY <1>2, <1>3, <2>1, SoundStays
<1>5. QED BY <1>1, <1>4, EditReconciledKeeps

LEMMA EquippedKeeps == ASSUME PageInv, ToggleEquipped \/ RemoveEquipment PROVE WithinOffer(draft')
<1>1. PICK item \in scope.items, v \in {"absent", "carried", "worn"} :
        EditReconciled([draft EXCEPT !.equipment[item] = v])
  <2>1. draft \in DraftType
    BY DraftIsSound
  <2>2. CASE ToggleEquipped
    <3>1. PICK item \in scope.items :
            EditReconciled([draft EXCEPT !.equipment[item] = IF @ = "worn" THEN "carried" ELSE "worn"])
      BY <2>2 DEF ToggleEquipped
    <3> DEFINE v == IF draft.equipment[item] = "worn" THEN "carried" ELSE "worn"
    <3>2. [draft EXCEPT !.equipment[item] = IF @ = "worn" THEN "carried" ELSE "worn"]
            = [draft EXCEPT !.equipment[item] = v]
      OBVIOUS
    <3>3. v \in {"absent", "carried", "worn"}
      OBVIOUS
    <3> HIDE DEF v
    <3>4. QED BY <3>1, <3>2, <3>3
  <2>3. CASE RemoveEquipment
    BY <2>3 DEF RemoveEquipment
  <2>4. QED BY <2>2, <2>3
<1>2. draft \in DraftType /\ Sound(draft)
  BY DraftIsSound
<1> DEFINE e == [draft EXCEPT !.equipment[item] = v]
<1>3. e \in DraftType
  <2>1. item \in Items
    BY ScopeFields
  <2>2. QED BY <2>1, <1>2, EquipmentWith
<1>4. Sound(e)
  <2>1. e.choices = draft.choices /\ e.notes = draft.notes /\ e.spells = draft.spells
    OBVIOUS
  <2> HIDE DEF e
  <2>2. QED BY <1>2, <1>3, <2>1, SoundStays
<1>5. QED BY <1>1, <1>4, EditReconciledKeeps

------------------------------------------------------------------------------
(* EDITS THAT ARE NOT RECONCILED                                           *)

LEMMA FieldEditKeeps ==
  ASSUME PageInv, NEW e \in DraftType, draft' = e, SameIdentity(draft, e), e.notes \subseteq NoteIds,
         DOMAIN e.gains = DOMAIN draft.gains, e.spells = draft.spells, e.defense = draft.defense,
         \A item \in Items : (e.equipment[item] = "worn") = (draft.equipment[item] = "worn")
  PROVE  WithinOffer(draft')
<1>1. WithinOffer(draft)
  BY DEF PageInv
<1>2. WithinOffer(e)
  BY <1>1, OtherEditsWithinOffer
<1>3. QED BY <1>2

(* A score, the calculation of the scores, an override, an attack: fields  *)
(* that nothing is offered for.                                            *)
LEMMA NumberEditKeeps ==
  ASSUME PageInv, NEW e \in DraftType, draft' = e, SameIdentity(draft, e), e.notes = draft.notes,
         e.gains = draft.gains, e.spells = draft.spells, e.defense = draft.defense,
         e.equipment = draft.equipment
  PROVE  WithinOffer(draft')
<1>1. draft.notes \subseteq NoteIds
  BY DraftIsSound DEF Sound
<1>2. QED BY <1>1, FieldEditKeeps

LEMMA SetModeKeeps == ASSUME PageInv, SetMode PROVE WithinOffer(draft')
<1>1. PICK mode \in {"calculated", "imported"} : Edit([draft EXCEPT !.mode = mode])
  BY DEF SetMode
<1> DEFINE e == [draft EXCEPT !.mode = mode]
<1>2. draft \in DraftType
  BY DraftIsSound
<1>3. \A v \in {"calculated", "imported"} : [draft EXCEPT !.mode = v] \in DraftType
  BY <1>2, DraftWith
<1>4. e \in DraftType /\ draft' = e
  BY <1>1, <1>3 DEF Edit
<1>5. /\ SameIdentity(draft, e) /\ e.notes = draft.notes /\ e.gains = draft.gains
      /\ e.spells = draft.spells /\ e.defense = draft.defense /\ e.equipment = draft.equipment
  BY DEF SameIdentity
<1> HIDE DEF e
<1>6. QED BY <1>4, <1>5, NumberEditKeeps

LEMMA ScoreWith ==
  ASSUME NEW scores \in AbilityScores, NEW ability \in Abilities, NEW score \in Int
  PROVE  [scores EXCEPT ![ability] = score] \in AbilityScores
  BY DEF AbilityScores

LEMMA SetScoreKeeps == ASSUME PageInv, SetScore PROVE WithinOffer(draft')
<1>1. PICK ability \in DOMAIN scope.scores :
        \E score \in scope.scores[ability] :
          Edit(IF draft.mode = "calculated"
               THEN [draft EXCEPT !.base[ability] = score, !.retained[ability] = score]
               ELSE [draft EXCEPT !.imported[ability] = score])
  BY DEF SetScore
<1>2. PICK score \in scope.scores[ability] :
        Edit(IF draft.mode = "calculated"
             THEN [draft EXCEPT !.base[ability] = score, !.retained[ability] = score]
             ELSE [draft EXCEPT !.imported[ability] = score])
  BY <1>1
<1>3. ability \in Abilities /\ score \in Int
  BY ScopeFields
<1>4. draft \in DraftType /\ draft.base \in AbilityScores /\ draft.retained \in AbilityScores
      /\ draft.imported \in AbilityScores
  BY DraftIsSound, DraftFields
<1>5. CASE draft.mode = "calculated"
  <2> DEFINE base == [draft.base EXCEPT ![ability] = score]
             retained == [draft.retained EXCEPT ![ability] = score]
             d == [draft EXCEPT !.base = base]
             e == [d EXCEPT !.retained = retained]
  <2>1. [draft EXCEPT !.base[ability] = score, !.retained[ability] = score] = e
    BY <1>4 DEF DraftType
  <2>2. base \in AbilityScores /\ retained \in AbilityScores
    BY <1>3, <1>4, ScoreWith
  <2> HIDE DEF base, retained
  <2>3. \A v \in AbilityScores : [draft EXCEPT !.base = v] \in DraftType
    BY <1>4, DraftWith
  <2>4. d \in DraftType
    BY <2>2, <2>3
  <2>5. /\ SameIdentity(draft, d) /\ d.notes = draft.notes /\ d.gains = draft.gains
        /\ d.spells = draft.spells /\ d.defense = draft.defense /\ d.equipment = draft.equipment
    BY DEF SameIdentity
  <2> HIDE DEF d
  <2>6. \A v \in AbilityScores : [d EXCEPT !.retained = v] \in DraftType
    BY <2>4, DraftWith
  <2>7. e \in DraftType /\ draft' = e
    BY <2>1, <2>2, <2>6, <1>2, <1>5 DEF Edit
  <2>8. /\ SameIdentity(draft, e) /\ e.notes = draft.notes /\ e.gains = draft.gains
        /\ e.spells = draft.spells /\ e.defense = draft.defense /\ e.equipment = draft.equipment
    BY <2>5 DEF SameIdentity
  <2> HIDE DEF e
  <2>9. QED BY <2>7, <2>8, NumberEditKeeps
<1>6. CASE draft.mode # "calculated"
  <2> DEFINE imported == [draft.imported EXCEPT ![ability] = score]
             e == [draft EXCEPT !.imported = imported]
  <2>1. [draft EXCEPT !.imported[ability] = score] = e
    BY <1>4 DEF DraftType
  <2>2. imported \in AbilityScores
    BY <1>3, <1>4, ScoreWith
  <2> HIDE DEF imported
  <2>3. \A v \in AbilityScores : [draft EXCEPT !.imported = v] \in DraftType
    BY <1>4, DraftWith
  <2>4. e \in DraftType /\ draft' = e
    BY <2>1, <2>2, <2>3, <1>2, <1>6 DEF Edit
  <2>5. /\ SameIdentity(draft, e) /\ e.notes = draft.notes /\ e.gains = draft.gains
        /\ e.spells = draft.spells /\ e.defense = draft.defense /\ e.equipment = draft.equipment
    BY DEF SameIdentity
  <2> HIDE DEF e
  <2>6. QED BY <2>4, <2>5, NumberEditKeeps
<1>7. QED BY <1>5, <1>6

(* The scores are restored after a reconciliation.                         *)
LEMMA ResetKeeps == ASSUME PageInv, ResetToCalculated PROVE WithinOffer(draft')
<1>1. PICK reset \in Reconciled(draft, draft) :
        draft' = [reset EXCEPT !.mode = "calculated", !.base = reset.retained]
  BY DEF ResetToCalculated
<1>2. WithinOffer(reset)
  BY DraftIsSound, ReconciledWithinOffer
<1>3. reset \in DraftType /\ reset.notes \subseteq NoteIds
  BY <1>2 DEF WithinOffer, Sound
<1>4. reset.retained \in AbilityScores
  BY <1>3, DraftFields
<1> DEFINE d == [reset EXCEPT !.mode = "calculated"]
           e == [d EXCEPT !.base = reset.retained]
<1>5. draft' = e
  BY <1>1
<1>6. \A v \in {"calculated", "imported"} : [reset EXCEPT !.mode = v] \in DraftType
  BY <1>3, DraftWith
<1>7. d \in DraftType
  BY <1>6
<1>8. /\ SameIdentity(reset, d) /\ d.notes = reset.notes /\ d.gains = reset.gains
      /\ d.spells = reset.spells /\ d.defense = reset.defense /\ d.equipment = reset.equipment
  BY DEF SameIdentity
<1> HIDE DEF d
<1>9. \A v \in AbilityScores : [d EXCEPT !.base = v] \in DraftType
  BY <1>7, DraftWith
<1>10. e \in DraftType
  BY <1>4, <1>9
<1>11. /\ SameIdentity(reset, e) /\ e.notes = reset.notes /\ e.gains = reset.gains
       /\ e.spells = reset.spells /\ e.defense = reset.defense /\ e.equipment = reset.equipment
  BY <1>8 DEF SameIdentity
<1> HIDE DEF e
<1>12. WithinOffer(e)
  BY <1>2, <1>3, <1>10, <1>11, OtherEditsWithinOffer
<1>13. QED BY <1>5, <1>12

(* What is offered without options has none in the table either, so that   *)
(* its id is one of those that a note answers.                             *)
LEMMA ByNoteIds ==
  ASSUME NEW d \in DraftType, NEW x \in AvailableChoices(d), ByNoteOnly(x)
  PROVE  x.id \in NoteIds
<1>1. x.manual /\ x.options = <<>>
  BY DEF ByNoteOnly
<1>2. ~ \E y \in RaceChoicesOf(d.race) : x = RaceOffer(y)
  BY <1>1 DEF RaceOffer
<1>3. PICK y \in ClassChoicesFor(d) : x = ClassOffer(d, y)
  BY <1>2, AvailableIs
<1>4. d.class \in DOMAIN Classes /\ y \in CreationChoices[d.class]
  BY <1>3, ClassChoicesAre
<1>5. x.id = y.id /\ x.manual = y.manual /\ x.options = ClassOptions(d, y)
  BY <1>3 DEF ClassOffer
<1>6. ToSet(ClassOptions(d, y)) = { option \in ToSet(y.options) : MeetsFor(d, y, option) }
  BY <1>4, ClassOptionsAre
<1>7. ToSet(ClassOptions(d, y)) = {}
  BY <1>1, <1>5 DEF ToSet
<1>8. y.options = <<>>
  <2> SUFFICES ASSUME y.options # <<>> PROVE FALSE
    OBVIOUS
  <2>1. PICK option \in ToSet(y.options) :
          Prerequisite(y, option).level = 1 /\ Prerequisite(y, option).options = {}
    BY <1>4, PrerequisiteAssumption
  <2>2. d.level \in Level
    BY DraftFields
  <2>3. d.level >= 1
    BY <2>2 DEF Level
  <2>4. MeetsFor(d, y, option)
    BY <2>1, <2>3 DEF MeetsFor
  <2>5. QED BY <2>1, <2>4, <1>6, <1>7
<1>9. QED BY <1>1, <1>4, <1>5, <1>8 DEF NoteIds

LEMMA WriteNoteKeeps == ASSUME PageInv, WriteNote PROVE WithinOffer(draft')
<1>1. PICK x \in AvailableChoices(draft) :
        ByNoteOnly(x) /\ Edit([draft EXCEPT !.notes = SymDiff(@, {x.id})])
  BY DEF WriteNote
<1>2. draft \in DraftType /\ draft.notes \subseteq NoteIds /\ draft.notes \in SUBSET STRING
  BY DraftIsSound, DraftFields DEF Sound
<1>3. x.id \in NoteIds /\ x.id \in STRING
  BY <1>1, <1>2, ByNoteIds, OffersTyped
<1> DEFINE notes == SymDiff(draft.notes, {x.id})
           e == [draft EXCEPT !.notes = notes]
<1>4. notes \in SUBSET STRING /\ notes \subseteq NoteIds
  BY <1>2, <1>3 DEF SymDiff
<1> HIDE DEF notes
<1>5. \A v \in SUBSET STRING : [draft EXCEPT !.notes = v] \in DraftType
  BY <1>2, DraftWith
<1>6. e \in DraftType
  BY <1>4, <1>5
<1>7. draft' = e
  BY <1>1 DEF Edit, notes
<1>8. /\ SameIdentity(draft, e) /\ e.notes = notes /\ e.gains = draft.gains
      /\ e.spells = draft.spells /\ e.defense = draft.defense /\ e.equipment = draft.equipment
  BY <1>2 DEF SameIdentity, DraftType
<1> HIDE DEF e
<1>9. QED BY <1>4, <1>6, <1>7, <1>8, FieldEditKeeps

LEMMA SetGainKeeps == ASSUME PageInv, SetGain PROVE WithinOffer(draft')
<1>1. PICK level \in DOMAIN draft.gains : \E gain \in scope.rolls \cup {0} : Edit([draft EXCEPT !.gains[level] = gain])
  BY DEF SetGain
<1>2. PICK gain \in scope.rolls \cup {0} : Edit([draft EXCEPT !.gains[level] = gain])
  BY <1>1
<1>3. draft \in DraftType /\ draft.notes \subseteq NoteIds /\ draft.gains \in Partial(Level, Nat)
  BY DraftIsSound, DraftFields DEF Sound
<1>4. gain \in Nat
  BY ScopeFields
<1> DEFINE gains == [draft.gains EXCEPT ![level] = gain]
           e == [draft EXCEPT !.gains = gains]
<1>5. DOMAIN gains = DOMAIN draft.gains
  OBVIOUS
<1>6. gains \in Partial(Level, Nat)
  <2>1. DOMAIN draft.gains \in SUBSET Level /\ \A l \in DOMAIN draft.gains : draft.gains[l] \in Nat
    BY <1>3, PartialElim
  <2>2. gains \in [DOMAIN draft.gains -> Nat]
    BY <2>1, <1>4
  <2> HIDE DEF gains
  <2>3. QED BY <2>1, <2>2, PartialIntro
<1>7. [draft EXCEPT !.gains[level] = gain] = e
  BY <1>3 DEF DraftType
<1> HIDE DEF gains
<1>8. \A v \in Partial(Level, Nat) : [draft EXCEPT !.gains = v] \in DraftType
  BY <1>3, DraftWith
<1>9. e \in DraftType
  BY <1>6, <1>8
<1>10. draft' = e
  BY <1>2, <1>7 DEF Edit
<1>11. /\ SameIdentity(draft, e) /\ e.notes = draft.notes /\ e.gains = gains
       /\ e.spells = draft.spells /\ e.defense = draft.defense /\ e.equipment = draft.equipment
  BY <1>3 DEF SameIdentity, DraftType
<1> HIDE DEF e
<1>12. QED BY <1>3, <1>5, <1>9, <1>10, <1>11, FieldEditKeeps

LEMMA TogglesKeep == ASSUME PageInv, ToggleOverride \/ ToggleSpellAttack PROVE WithinOffer(draft')
<1>1. draft \in DraftType /\ draft.overrides \in SUBSET {"maximum", "speed"} /\ draft.spellAttack \in BOOLEAN
  BY DraftIsSound, DraftFields
<1>2. CASE ToggleOverride
  <2>1. PICK override \in scope.overrides : Edit([draft EXCEPT !.overrides = SymDiff(@, {override})])
    BY <1>2 DEF ToggleOverride
  <2> DEFINE overrides == SymDiff(draft.overrides, {override})
             e == [draft EXCEPT !.overrides = overrides]
  <2>2. overrides \in SUBSET {"maximum", "speed"}
    BY <1>1, ScopeFields DEF SymDiff
  <2>3. draft' = e
    BY <2>1 DEF Edit
  <2> HIDE DEF overrides
  <2>4. \A v \in SUBSET {"maximum", "speed"} : [draft EXCEPT !.overrides = v] \in DraftType
    BY <1>1, DraftWith
  <2>5. e \in DraftType
    BY <2>2, <2>4
  <2>6. /\ SameIdentity(draft, e) /\ e.notes = draft.notes /\ e.gains = draft.gains
        /\ e.spells = draft.spells /\ e.defense = draft.defense /\ e.equipment = draft.equipment
    BY DEF SameIdentity
  <2> HIDE DEF e
  <2>7. QED BY <2>3, <2>5, <2>6, NumberEditKeeps
<1>3. CASE ToggleSpellAttack
  <2> DEFINE e == [draft EXCEPT !.spellAttack = ~draft.spellAttack]
  <2>1. draft' = e
    BY <1>3 DEF ToggleSpellAttack, Edit
  <2>2. \A v \in BOOLEAN : [draft EXCEPT !.spellAttack = v] \in DraftType
    BY <1>1, DraftWith
  <2>3. e \in DraftType
    BY <1>1, <2>2
  <2>4. /\ SameIdentity(draft, e) /\ e.notes = draft.notes /\ e.gains = draft.gains
        /\ e.spells = draft.spells /\ e.defense = draft.defense /\ e.equipment = draft.equipment
    BY DEF SameIdentity
  <2> HIDE DEF e
  <2>5. QED BY <2>1, <2>3, <2>4, NumberEditKeeps
<1>4. QED BY <1>2, <1>3

LEMMA AddEquipmentKeeps == ASSUME PageInv, AddEquipment PROVE WithinOffer(draft')
<1>1. PICK item \in scope.items :
        Edit([draft EXCEPT !.equipment[item] = IF @ = "absent" THEN "carried" ELSE @])
  BY DEF AddEquipment
<1>2. draft \in DraftType /\ draft.notes \subseteq NoteIds
  BY DraftIsSound DEF Sound
<1>3. item \in Items /\ draft.equipment \in [Items -> {"absent", "carried", "worn"}]
  BY <1>2, ScopeFields, DraftFields
<1> DEFINE v == IF draft.equipment[item] = "absent" THEN "carried" ELSE draft.equipment[item]
           e == [draft EXCEPT !.equipment[item] = v]
<1>4. v \in {"absent", "carried", "worn"} /\ (v = "worn" <=> draft.equipment[item] = "worn")
  BY <1>3
<1>5. draft' = e
  BY <1>1 DEF Edit
<1> HIDE DEF v
<1>6. e \in DraftType
  BY <1>2, <1>3, <1>4, EquipmentWith
<1>7. /\ SameIdentity(draft, e) /\ e.notes = draft.notes /\ e.gains = draft.gains
      /\ e.spells = draft.spells /\ e.defense = draft.defense
  BY DEF SameIdentity
<1>8. \A other \in Items : (e.equipment[other] = "worn") = (draft.equipment[other] = "worn")
  BY <1>2, <1>3, <1>4 DEF DraftType
<1> HIDE DEF e
<1>9. QED BY <1>2, <1>5, <1>6, <1>7, <1>8, FieldEditKeeps

------------------------------------------------------------------------------
(* SCORES                                                                  *)

LEMMA SomeIndexes ==
  ASSUME NEW S, NEW s \in Seq(S), NEW T \in SUBSET DOMAIN s
  PROVE  IsFiniteSet(T) /\ Cardinality(T) \in Nat /\ Cardinality(T) <= Len(s)
<1>1. DOMAIN s = 1 .. Len(s) /\ Len(s) \in Nat
  BY LenProperties
<1>2. IsFiniteSet(1 .. Len(s)) /\ Cardinality(1 .. Len(s)) = Len(s)
  <2> DEFINE n == Len(s)
  <2>1. n \in Nat /\ 1 \in Int
    BY <1>1
  <2> HIDE DEF n
  <2>2. IsFiniteSet(1 .. n) /\ Cardinality(1 .. n) = IF 1 > n THEN 0 ELSE n - 1 + 1
    BY <2>1, FS_Interval
  <2>3. Cardinality(1 .. n) = n
    BY <2>1, <2>2
  <2>4. QED BY <2>2, <2>3 DEF n
<1>3. T \in SUBSET (1 .. Len(s))
  BY <1>1
<1>4. IsFiniteSet(T) /\ Cardinality(T) <= Len(s)
  BY <1>2, <1>3, FS_Subset
<1>5. QED BY <1>4, FS_CardinalityType

LEMMA SelectionsTyped ==
  ASSUME NEW d \in DraftType, NEW id
  PROVE  Selections(d, id) \in Seq(Option) /\ Selections(d, id) = Options(d, id)
<1>1. <<>> \in Seq(Option)
  OBVIOUS
<1>2. QED BY <1>1, SelectionsAreSequences DEF Selections, Options

LEMMA BonusTyped ==
  ASSUME NEW d \in DraftType, NEW a \in Abilities
  PROVE  BonusTo(d, a) \in Nat
<1> DEFINE chosen == Selections(d, HalfElfAbilities)
           T == { i \in DOMAIN chosen : chosen[i] = <<a>> }
<1>1. chosen \in Seq(Option)
  BY SelectionsTyped
<1> HIDE DEF chosen
<1>2. T \in SUBSET DOMAIN chosen
  OBVIOUS
<1>3. Cardinality(T) \in Nat
  BY <1>1, <1>2, SomeIndexes
<1>4. IsSrdRace(d) => Races[d.race].bonuses[a] \in 0 .. 2
  BY RaceAssumption DEF IsSrdRace
<1>5. IsSrdRace(d) => BonusTo(d, a) = Races[d.race].bonuses[a] + Cardinality(T)
  BY DEF BonusTo, chosen
<1>6. ~IsSrdRace(d) => BonusTo(d, a) = 0
  BY DEF BonusTo
<1> HIDE DEF T
<1>7. QED BY <1>3, <1>4, <1>5, <1>6

LEMMA ImprovementTyped ==
  ASSUME NEW d \in DraftType, NEW a \in Abilities
  PROVE  Improvement(d, a) \in Nat
<1>1. ImprovementsOf(d) \in Seq(Option)
  <2>1. <<>> \in Seq(Option)
    OBVIOUS
  <2>2. QED BY <2>1, SelectionsTyped DEF ImprovementsOf
<1>2. CASE ImprovementsOf(d) = <<>>
  BY <1>2 DEF Improvement
<1>3. CASE ImprovementsOf(d) # <<>>
  <2> DEFINE option == ImprovementsOf(d)[1]
             T == { i \in DOMAIN option : option[i] = a }
  <2>1. option \in Seq(STRING)
    <3>1. ImprovementsOf(d)[1] \in Option
      BY <1>1, <1>3, EmptySeq, ElementOfSeq, LenProperties
    <3>2. QED BY <3>1 DEF Option
  <2> HIDE DEF option
  <2>2. T \in SUBSET DOMAIN option
    OBVIOUS
  <2>3. Cardinality(T) \in Nat
    BY <2>1, <2>2, SomeIndexes
  <2>4. QED BY <2>3, <1>3 DEF Improvement, RaisedBy, option
<1>4. QED BY <1>2, <1>3

LEMMA AtMostTyped == \A n \in Int : AtMost(20, n) \in Int
  BY DEF AtMost

LEMMA FinalScoresTyped ==
  ASSUME NEW d \in DraftType
  PROVE  ScoresOfRace(d) \in AbilityScores /\ FinalScores(d) \in AbilityScores
<1>1. d.base \in AbilityScores /\ d.imported \in AbilityScores
  BY DraftFields
<1>2. ASSUME NEW a \in Abilities PROVE d.base[a] + BonusTo(d, a) \in Int
  <2>1. d.base[a] \in Int
    BY <1>1 DEF AbilityScores
  <2>2. QED BY <2>1, BonusTyped
<1>3. ScoresOfRace(d) \in AbilityScores
  BY <1>1, <1>2 DEF ScoresOfRace, AbilityScores
<1>4. ASSUME NEW a \in Abilities
      PROVE  /\ ScoresOfRace(d)[a] \in Int
             /\ AtMost(20, ScoresOfRace(d)[a] + Improvement(d, a)) \in Int
  <2>1. ScoresOfRace(d)[a] \in Int
    BY <1>3 DEF AbilityScores
  <2>2. ScoresOfRace(d)[a] + Improvement(d, a) \in Int
    BY <2>1, ImprovementTyped
  <2>3. QED BY <2>1, <2>2, AtMostTyped
<1>5. FinalScores(d) \in AbilityScores
  BY <1>1, <1>4 DEF FinalScores, AbilityScores
<1>6. QED BY <1>3, <1>5

LEMMA PreparedCountTyped ==
  ASSUME NEW c, NEW score \in Int, NEW l \in Level
  PROVE  PreparedSpellCount(c, score, l) \in Nat
<1> DEFINE own == IF Classes[c].spellcasting.halved THEN l \div 2 ELSE l
           modifier == AbilityModifier(score)
<1>1. own \in Int
  BY DEF Level
<1>2. modifier \in Int
  BY DEF AbilityModifier
<1>3. PreparedSpellCount(c, score, l) = AtLeast(1, modifier + own)
  BY DEF PreparedSpellCount
<1> HIDE DEF own, modifier
<1>4. AtLeast(1, modifier + own) \in Nat
  BY <1>1, <1>2 DEF AtLeast
<1>5. QED BY <1>3, <1>4

------------------------------------------------------------------------------
(* EDITS OF THE SPELLS                                                     *)

(* What a class that casts at this level is told to know.                  *)
LEMMA CastsHere ==
  ASSUME PageInv, draft.spells.mode # "none"
  PROVE  /\ draft.class \in DOMAIN Classes /\ Casts(draft.class, draft.level)
         /\ draft.spells.mode = Classes[draft.class].spellcasting.mode
         /\ Classes[draft.class].spellcasting \in Spellcasting
         /\ CastingAbility[draft.class] \in Abilities
         /\ draft.level \in Level
<1>1. draft.spells.mode = SpellMode(draft)
  BY DEF PageInv, WithinOffer, SpellsOffered
<1>2. /\ draft.class \in DOMAIN Classes /\ Casts(draft.class, draft.level)
      /\ SpellMode(draft) = Classes[draft.class].spellcasting.mode
  BY <1>1, SpellModeTyped
<1>3. Classes[draft.class].spellcasting \in Spellcasting
  BY <1>2, ClassAssumption
<1>4. CastingAbility[draft.class] \in Abilities
  BY <1>1, <1>2, CastingAssumption
<1>5. draft.level \in Level
  BY DraftIsSound, DraftFields
<1>6. QED BY <1>1, <1>2, <1>3, <1>4, <1>5

LEMMA CountsTyped ==
  ASSUME NEW counts \in [Level -> Nat \cup {Null}], NEW l \in Level
  PROVE  CountAt(counts, l) \in Nat
  BY DEF CountAt

(* The spells of a draft within what is offered.                           *)
LEMMA SpellsHeld ==
  ASSUME PageInv
  PROVE  /\ draft.spells \in SpellsType /\ SpellsCounted(draft.spells)
         /\ \A l \in Level : draft.spells.learned[l] > 0 => l \in LearningLevels(draft)
         /\ draft.spells.mending => OffersMending(draft)
         /\ draft.spells.listed => OffersListed(draft)
         /\ draft.spells.expanded => OffersExpanded(draft)
         /\ draft.spells.mode = "spellbook-prepared" => draft.spells.prepared <= Learned(draft.spells)
<1>1. draft \in DraftType /\ SpellsCounted(draft.spells) /\ SpellsOffered(draft)
  BY DEF PageInv, WithinOffer, Sound
<1>2. draft.spells \in SpellsType
  BY <1>1, DraftFields
<1>3. QED BY <1>1, <1>2 DEF SpellsOffered, LearnedAt

LEMMA EditCantripsKeeps == ASSUME PageInv, EditCantrips PROVE WithinOffer(draft')
<1>1. /\ draft.spells.mode # "none"
      /\ \E known \in {0, WantedCantrips(draft)} :
           \E mending \in {FALSE} \cup (IF Varied /\ known > 0 /\ OffersMending(draft) THEN {TRUE} ELSE {}) :
             Edit([draft EXCEPT !.spells.cantrips = known, !.spells.mending = mending])
  BY DEF EditCantrips, EditsSpells
<1>2. PICK known \in {0, WantedCantrips(draft)} :
        \E mending \in {FALSE} \cup (IF Varied /\ known > 0 /\ OffersMending(draft) THEN {TRUE} ELSE {}) :
          Edit([draft EXCEPT !.spells.cantrips = known, !.spells.mending = mending])
  BY <1>1
<1>3. PICK mending \in {FALSE} \cup (IF Varied /\ known > 0 /\ OffersMending(draft) THEN {TRUE} ELSE {}) :
        Edit([draft EXCEPT !.spells.cantrips = known, !.spells.mending = mending])
  BY <1>2
<1>4. known \in Nat
  <2>1. Classes[draft.class].spellcasting.cantripsKnown \in [Level -> Nat \cup {Null}] /\ draft.level \in Level
    BY <1>1, CastsHere DEF Spellcasting
  <2>2. WantedCantrips(draft) \in Nat
    BY <2>1, CountsTyped DEF WantedCantrips, CantripsKnown
  <2>3. QED BY <2>2
<1>5. mending \in BOOLEAN /\ (mending => known > 0 /\ OffersMending(draft))
  OBVIOUS
<1> DEFINE s == [draft.spells EXCEPT !.cantrips = known, !.mending = mending]
<1>6. draft \in DraftType /\ draft.spells \in SpellsType
  BY DraftIsSound, DraftFields
<1>7. s \in SpellsType
  BY <1>4, <1>5, <1>6 DEF SpellsType
<1>8. /\ s.mode = draft.spells.mode /\ s.cantrips = known /\ s.mending = mending
      /\ s.learned = draft.spells.learned /\ s.repeated = draft.spells.repeated
      /\ s.expanded = draft.spells.expanded /\ s.prepared = draft.spells.prepared
      /\ s.listed = draft.spells.listed
  BY <1>6 DEF SpellsType
<1>9. [draft EXCEPT !.spells.cantrips = known, !.spells.mending = mending] = [draft EXCEPT !.spells = s]
  BY <1>6 DEF DraftType
<1> HIDE DEF s
<1>10. SpellsCounted(s)
  BY <1>5, <1>8, SpellsHeld DEF SpellsCounted
<1>11. /\ \A l \in Level : s.learned[l] > 0 => l \in LearningLevels(draft)
       /\ s.mending => OffersMending(draft)
       /\ s.listed => OffersListed(draft)
       /\ s.expanded => OffersExpanded(draft)
  BY <1>5, <1>8, SpellsHeld
<1>12. s.mode = "spellbook-prepared" => s.prepared <= Learned(s)
  BY <1>8, SpellsHeld DEF Learned
<1>13. WithinOffer(draft)
  BY DEF PageInv
<1>14. WithinOffer([draft EXCEPT !.spells = s])
  BY <1>7, <1>8, <1>10, <1>11, <1>12, <1>13, SpellEditsWithinOffer
<1>15. QED BY <1>3, <1>9, <1>14 DEF Edit

LEMMA StillPreparedFits ==
  ASSUME NEW s \in SpellsType, NEW learned \in [Level -> Nat], NEW prepared \in StillPrepared(s, learned)
  PROVE  /\ prepared \in Nat
         /\ s.mode # "spellbook-prepared" => prepared = s.prepared
         /\ s.mode = "spellbook-prepared" => prepared <= Learned([learned |-> learned])
<1>1. s.prepared \in Nat /\ s.learned \in [Level -> Nat]
  BY SpellFields
<1>2. CASE s.mode # "spellbook-prepared"
  BY <1>1, <1>2 DEF StillPrepared
<1>3. CASE s.mode = "spellbook-prepared"
  <2> DEFINE book == Learned([learned |-> learned])
             lost == AtLeast(0, Learned(s) - book)
             low == AtLeast(0, s.prepared - lost)
             high == AtMost(book, s.prepared)
  <2>1. book \in Nat /\ Learned(s) \in Nat
    <3>1. [learned |-> learned].learned \in [Level -> Nat]
      OBVIOUS
    <3>2. QED BY <3>1, <1>1, LearnedIsNat
  <2>2. prepared \in low .. high
    BY <1>3 DEF StillPrepared
  <2> HIDE DEF book
  <2>3. lost \in Int
    BY <2>1 DEF AtLeast
  <2> HIDE DEF lost
  <2>4. low \in Nat
    BY <1>1, <2>3 DEF AtLeast
  <2>5. high \in Int /\ high <= book
    BY <1>1, <2>1 DEF AtMost
  <2> HIDE DEF low, high
  <2>6. prepared \in Nat /\ prepared <= book
    BY <2>1, <2>2, <2>4, <2>5
  <2>7. QED BY <2>6, <1>3 DEF book
<1>4. QED BY <1>2, <1>3

(* A spellbook is the Wizard's, who prepares no spell of ListedFrom.       *)
LEMMA NoListedInBook ==
  ASSUME PageInv, draft.spells.mode = "spellbook-prepared"
  PROVE  ~draft.spells.listed
<1>1. draft.class \in DOMAIN Classes /\ Classes[draft.class].spellcasting.mode = "spellbook-prepared"
  BY CastsHere
<1>2. draft.class = "wizard"
  BY <1>1, ClassAssumption
<1>3. ~OffersListed(draft)
  BY <1>2 DEF OffersListed, ListedFrom
<1>4. QED BY <1>3, SpellsHeld

LearnsAt(l, n) ==
  LET learned == [draft.spells.learned EXCEPT ![l] = n]
      others  == { level \in Level : learned[level] > 0 } \ {l}
  IN \E expanded \in IF l # 1 THEN {draft.spells.expanded}
                     ELSE {FALSE} \cup (IF Varied /\ n > 0 /\ OffersExpanded(draft) THEN {TRUE} ELSE {}),
        repeated \in {FALSE} \cup (IF MayRepeat(draft.spells, n, others) THEN {TRUE} ELSE {}),
        prepared \in StillPrepared(draft.spells, learned) :
       Edit([draft EXCEPT !.spells.learned = learned, !.spells.expanded = expanded,
                          !.spells.repeated = repeated, !.spells.prepared = prepared])

LEMMA EditLearnedParts ==
  ASSUME EditLearned
  PROVE  \E l \in LearningLevels(draft) : \E n \in {0, WantedLearned(draft, l)} : LearnsAt(l, n)
  BY DEF EditLearned, LearnsAt

LEMMA LearnsEdits ==
  ASSUME NEW l, NEW n, LearnsAt(l, n)
  PROVE  \E e : Edit(e)
  BY DEF LearnsAt

LEMMA EditLearnedKeeps == ASSUME PageInv, EditLearned PROVE WithinOffer(draft')
<1>1. draft.spells.mode # "none"
  BY DEF EditLearned, EditsSpells
<1>2. PICK l \in LearningLevels(draft) : \E n \in {0, WantedLearned(draft, l)} : LearnsAt(l, n)
  BY EditLearnedParts
<1>a. PICK n \in {0, WantedLearned(draft, l)} : LearnsAt(l, n)
  BY <1>2
<1> DEFINE learned == [draft.spells.learned EXCEPT ![l] = n]
           others  == { level \in Level : learned[level] > 0 } \ {l}
<1>3. PICK expanded \in IF l # 1 THEN {draft.spells.expanded}
                        ELSE {FALSE} \cup (IF Varied /\ n > 0 /\ OffersExpanded(draft) THEN {TRUE} ELSE {}),
           repeated \in {FALSE} \cup (IF MayRepeat(draft.spells, n, others) THEN {TRUE} ELSE {}),
           prepared \in StillPrepared(draft.spells, learned) :
             Edit([draft EXCEPT !.spells.learned = learned, !.spells.expanded = expanded,
                                !.spells.repeated = repeated, !.spells.prepared = prepared])
  BY <1>a DEF LearnsAt
<1>4. repeated \in BOOLEAN
  BY <1>3
<1> HIDE DEF others
<1>5. l \in Level /\ draft.spells \in SpellsType /\ draft.spells.learned \in [Level -> Nat]
  BY SpellsHeld, SpellFields DEF LearningLevels
<1>6. n \in Nat
  <2>1. CASE draft.spells.mode = "spellbook-prepared"
    BY <2>1 DEF WantedLearned, SpellbookSize, SpellbookAdditions
  <2>2. CASE draft.spells.mode # "spellbook-prepared"
    <3> DEFINE known == SpellsKnown(draft.class, l)
               before == IF l = 1 THEN 0 ELSE SpellsKnown(draft.class, l - 1)
    <3>1. Classes[draft.class].spellcasting.spellsKnown \in [Level -> Nat \cup {Null}]
      BY <1>1, CastsHere DEF Spellcasting
    <3>2. known \in Nat
      BY <3>1, <1>5, CountsTyped DEF SpellsKnown
    <3>3. l # 1 => l - 1 \in Level
      BY <1>5 DEF Level
    <3>4. before \in Nat
      BY <3>1, <3>3, CountsTyped DEF SpellsKnown
    <3>5. WantedLearned(draft, l) = AtLeast(0, known - before)
      BY <2>2 DEF WantedLearned
    <3> HIDE DEF known, before
    <3>6. AtLeast(0, known - before) \in Nat
      BY <3>2, <3>4 DEF AtLeast
    <3>7. QED BY <3>5, <3>6
  <2>3. QED BY <2>1, <2>2
<1>7. learned \in [Level -> Nat] /\ learned[l] = n
      /\ \A m \in Level : m # l => learned[m] = draft.spells.learned[m]
  BY <1>5, <1>6
<1> HIDE DEF learned
<1>8. expanded \in BOOLEAN /\ (expanded => OffersExpanded(draft) /\ learned[1] > 0)
  <2>1. CASE l # 1
    <3>1. expanded = draft.spells.expanded /\ learned[1] = draft.spells.learned[1]
      BY <2>1, <1>7 DEF Level
    <3>2. QED BY <3>1, <1>5, SpellsHeld, SpellFields DEF SpellsCounted
  <2>2. CASE l = 1
    BY <2>2, <1>7
  <2>3. QED BY <2>1, <2>2
<1>9. /\ prepared \in Nat
      /\ draft.spells.mode # "spellbook-prepared" => prepared = draft.spells.prepared
      /\ draft.spells.mode = "spellbook-prepared" => prepared <= Learned([learned |-> learned])
  BY <1>5, <1>7, StillPreparedFits
<1> DEFINE s == [draft.spells EXCEPT !.learned = learned, !.expanded = expanded,
                                     !.repeated = repeated, !.prepared = prepared]
<1>10. draft \in DraftType
  BY DraftIsSound
<1>11. s \in SpellsType
  BY <1>4, <1>5, <1>7, <1>8, <1>9 DEF SpellsType
<1>12. /\ s.mode = draft.spells.mode /\ s.cantrips = draft.spells.cantrips
       /\ s.mending = draft.spells.mending /\ s.learned = learned /\ s.repeated = repeated
       /\ s.expanded = expanded /\ s.prepared = prepared /\ s.listed = draft.spells.listed
  BY <1>5 DEF SpellsType
<1>13. [draft EXCEPT !.spells.learned = learned, !.spells.expanded = expanded,
                     !.spells.repeated = repeated, !.spells.prepared = prepared]
         = [draft EXCEPT !.spells = s]
  BY <1>10 DEF DraftType
<1> HIDE DEF s
<1>14. SpellsCounted(s)
  <2>1. s.mending => s.cantrips > 0
    BY <1>12, SpellsHeld DEF SpellsCounted
  <2>2. s.listed => s.prepared > 0
    BY <1>9, <1>12, SpellsHeld, NoListedInBook DEF SpellsCounted
  <2>3. QED BY <2>1, <2>2, <1>8, <1>12 DEF SpellsCounted
<1>15. /\ s.mending => OffersMending(draft)
       /\ s.listed => OffersListed(draft)
       /\ s.expanded => OffersExpanded(draft)
  BY <1>8, <1>12, SpellsHeld
<1>16. \A m \in Level : s.learned[m] > 0 => m \in LearningLevels(draft)
  BY <1>7, <1>12, SpellsHeld
<1>17. s.mode = "spellbook-prepared" => s.prepared <= Learned(s)
  BY <1>9, <1>12 DEF Learned
<1>18. WithinOffer(draft)
  BY DEF PageInv
<1>19. WithinOffer([draft EXCEPT !.spells = s])
  BY <1>11, <1>12, <1>14, <1>15, <1>16, <1>17, <1>18, SpellEditsWithinOffer
<1>20. QED BY <1>3, <1>13, <1>19 DEF Edit

LEMMA EditPreparedKeeps == ASSUME PageInv, EditPrepared PROVE WithinOffer(draft')
<1>1. /\ draft.spells.mode # "none"
      /\ \E n \in PreparedLimits(draft) \cup {0} :
           /\ draft.spells.mode = "spellbook-prepared" => n <= Learned(draft.spells)
           /\ \E listed \in {FALSE} \cup (IF Varied /\ n > 0 /\ OffersListed(draft) THEN {TRUE} ELSE {}) :
                Edit([draft EXCEPT !.spells.prepared = n, !.spells.listed = listed])
  BY DEF EditPrepared, EditsSpells
<1>2. PICK n \in PreparedLimits(draft) \cup {0} :
           /\ draft.spells.mode = "spellbook-prepared" => n <= Learned(draft.spells)
           /\ \E listed \in {FALSE} \cup (IF Varied /\ n > 0 /\ OffersListed(draft) THEN {TRUE} ELSE {}) :
                Edit([draft EXCEPT !.spells.prepared = n, !.spells.listed = listed])
  BY <1>1
<1>3. PICK listed \in {FALSE} \cup (IF Varied /\ n > 0 /\ OffersListed(draft) THEN {TRUE} ELSE {}) :
        Edit([draft EXCEPT !.spells.prepared = n, !.spells.listed = listed])
  BY <1>2
<1>4. draft \in DraftType /\ draft.spells \in SpellsType
  BY DraftIsSound, DraftFields
<1>5. n \in Nat
  <2>1. CASE n = 0
    BY <2>1
  <2>2. CASE n # 0
    <3>1. PICK scores \in {ScoresOfRace(draft), FinalScores(draft)} :
            n = PreparedSpellCount(draft.class, scores[CastingAbility[draft.class]], draft.level)
      BY <2>2 DEF PreparedLimits
    <3>2. scores \in AbilityScores
      BY <1>4, FinalScoresTyped
    <3>3. CastingAbility[draft.class] \in Abilities /\ draft.level \in Level
      BY <1>1, CastsHere
    <3>4. scores[CastingAbility[draft.class]] \in Int
      BY <3>2, <3>3 DEF AbilityScores
    <3>5. QED BY <3>1, <3>3, <3>4, PreparedCountTyped
  <2>3. QED BY <2>1, <2>2
<1>6. listed \in BOOLEAN /\ (listed => n > 0 /\ OffersListed(draft))
  OBVIOUS
<1> DEFINE s == [draft.spells EXCEPT !.prepared = n, !.listed = listed]
<1>7. s \in SpellsType
  BY <1>4, <1>5, <1>6 DEF SpellsType
<1>8. /\ s.mode = draft.spells.mode /\ s.cantrips = draft.spells.cantrips
      /\ s.mending = draft.spells.mending /\ s.learned = draft.spells.learned
      /\ s.repeated = draft.spells.repeated /\ s.expanded = draft.spells.expanded
      /\ s.prepared = n /\ s.listed = listed
  BY <1>4 DEF SpellsType
<1>9. [draft EXCEPT !.spells.prepared = n, !.spells.listed = listed] = [draft EXCEPT !.spells = s]
  BY <1>4 DEF DraftType
<1> HIDE DEF s
<1>10. SpellsCounted(s)
  BY <1>6, <1>8, SpellsHeld DEF SpellsCounted
<1>11. /\ \A l \in Level : s.learned[l] > 0 => l \in LearningLevels(draft)
       /\ s.mending => OffersMending(draft)
       /\ s.listed => OffersListed(draft)
       /\ s.expanded => OffersExpanded(draft)
  BY <1>6, <1>8, SpellsHeld
<1>12. s.mode = "spellbook-prepared" => s.prepared <= Learned(s)
  BY <1>2, <1>8 DEF Learned
<1>13. WithinOffer(draft)
  BY DEF PageInv
<1>14. WithinOffer([draft EXCEPT !.spells = s])
  BY <1>7, <1>8, <1>10, <1>11, <1>12, <1>13, SpellEditsWithinOffer
<1>15. QED BY <1>3, <1>9, <1>14 DEF Edit

------------------------------------------------------------------------------
(* THE DRAFT HOLDS ONLY WHAT IS OFFERED                                    *)

LEMMA EditsKeep ==
  ASSUME PageInv,
         \/ SetRace \/ SetClass \/ SetLevel \/ SetSubclass
         \/ SetMode \/ SetScore \/ ResetToCalculated \/ Choose \/ WriteNote
         \/ SetGain \/ ToggleOverride \/ ToggleSpellAttack
         \/ SetDefenseMode \/ SetArmor \/ SetShield \/ SetFormula
         \/ AddEquipment \/ ToggleEquipped \/ RemoveEquipment
         \/ EditCantrips \/ EditLearned \/ EditPrepared
  PROVE  WithinOffer(draft')
  BY SetRaceKeeps, SetClassKeeps, SetLevelKeeps, SetSubclassKeeps, SetModeKeeps, SetScoreKeeps,
     ResetKeeps, ChooseKeeps, WriteNoteKeeps, SetGainKeeps, TogglesKeep, SetDefenseModeKeeps,
     SetArmorKeeps, SetShieldKeeps, SetFormulaKeeps, AddEquipmentKeeps, EquippedKeeps,
     EditCantripsKeeps, EditLearnedKeeps, EditPreparedKeeps

(* What an edit does to everything but the draft.                          *)
LEMMA EditFrame ==
  ASSUME \/ SetRace \/ SetClass \/ SetLevel \/ SetSubclass
         \/ SetMode \/ SetScore \/ ResetToCalculated \/ Choose \/ WriteNote
         \/ SetGain \/ ToggleOverride \/ ToggleSpellAttack
         \/ SetDefenseMode \/ SetArmor \/ SetShield \/ SetFormula
         \/ AddEquipment \/ ToggleEquipped \/ RemoveEquipment
         \/ EditCantrips \/ EditLearned \/ EditPrepared
  PROVE  /\ view = "form" /\ ~scope.asks /\ view' = view /\ scope' = scope /\ quiz' = quiz
         /\ outcome' \in {outcome, "none"}
         /\ outcome' # "none" => outcome' = outcome /\ ResetToCalculated
<1>1. ASSUME NEW e, Edit(e)
      PROVE  /\ view = "form" /\ ~scope.asks /\ view' = view /\ scope' = scope /\ quiz' = quiz
             /\ outcome' = "none"
  BY <1>1 DEF Edit
<1>2. ASSUME NEW e, EditReconciled(e)
      PROVE  /\ view = "form" /\ ~scope.asks /\ view' = view /\ scope' = scope /\ quiz' = quiz
             /\ outcome' = "none"
  BY <1>1, <1>2 DEF EditReconciled
<1>3. CASE SetRace \/ SetClass \/ SetLevel \/ SetSubclass
  BY <1>2, <1>3 DEF SetRace, SetClass, SetLevel, SetSubclass
<1>4. CASE SetMode \/ SetScore \/ WriteNote \/ SetGain
  BY <1>1, <1>4 DEF SetMode, SetScore, WriteNote, SetGain
<1>5. CASE ResetToCalculated
  BY <1>5 DEF ResetToCalculated
<1>6. CASE Choose
  BY <1>2, <1>6 DEF Choose
<1>7. CASE ToggleOverride \/ ToggleSpellAttack \/ AddEquipment
  BY <1>1, <1>7 DEF ToggleOverride, ToggleSpellAttack, AddEquipment
<1>8. CASE SetDefenseMode \/ SetArmor \/ SetShield \/ SetFormula
  BY <1>2, <1>8 DEF SetDefenseMode, SetArmor, SetShield, SetFormula
<1>9. CASE ToggleEquipped \/ RemoveEquipment
  BY <1>2, <1>9 DEF ToggleEquipped, RemoveEquipment
<1>10. CASE EditCantrips
  BY <1>1, <1>10 DEF EditCantrips
<1>11. CASE EditLearned
  <2>1. PICK l \in LearningLevels(draft) : \E n \in {0, WantedLearned(draft, l)} : LearnsAt(l, n)
    BY <1>11, EditLearnedParts
  <2>2. \E e : Edit(e)
    BY <2>1, LearnsEdits
  <2>3. QED BY <2>2, <1>1
<1>12. CASE EditPrepared
  BY <1>1, <1>12 DEF EditPrepared
<1>13. QED BY <1>3, <1>4, <1>5, <1>6, <1>7, <1>8, <1>9, <1>10, <1>11, <1>12

LEMMA PageInvInitially ==
  ASSUME Init
  PROVE  PageInv
<1>1. WithinOffer(draft)
  BY FirstDraftsWithinOffer DEF Init
<1>2. QED BY <1>1 DEF Init, PageInv

LEMMA PageInvNext ==
  ASSUME PageInv, [Next]_vars
  PROVE  PageInv'
<1>1. /\ scope \in Scopes /\ WithinOffer(draft)
      /\ view \in {"page", "form", "review", "opened"} /\ outcome \in {"none", "flagged", "puzzled", "refused"}
  BY DEF PageInv
<1>2. CASE PickMode
  <2>1. scope' = scope /\ outcome' = outcome
    BY <1>2 DEF PickMode
  <2>2. \/ view' = view /\ draft' = draft
        \/ view' = "form" /\ draft' \in FirstDrafts("manual-transfer", Strength)
    BY <1>2 DEF PickMode, OpenForm
  <2>3. WithinOffer(draft')
    BY <1>1, <2>2, FirstDraftsWithinOffer
  <2>4. QED BY <1>1, <2>1, <2>2, <2>3 DEF PageInv
<1>3. CASE Answer \/ Advance \/ StepBack
  BY <1>1, <1>3 DEF Answer, Advance, StepBack, PageInv
<1>4. CASE PickBuild
  <2>1. scope' = scope /\ outcome' = outcome /\ view' = "form"
    BY <1>4 DEF PickBuild, OpenForm
  <2>2. PICK build \in Builds : draft' \in FirstDrafts("guided", build)
    BY <1>4 DEF PickBuild, OpenForm
  <2>3. WithinOffer(draft')
    BY <2>2, FirstDraftsWithinOffer
  <2>4. QED BY <1>1, <2>1, <2>3 DEF PageInv
<1>5. CASE Leave
  <2>1. scope' = scope /\ outcome' = "none" /\ view' = "page"
    BY <1>5 DEF Leave
  <2>2. draft' \in FirstDrafts(scope.source, scope.build)
    BY <1>5 DEF Leave
  <2>3. WithinOffer(draft')
    BY <2>2, FirstDraftsWithinOffer
  <2>4. QED BY <1>1, <2>1, <2>3 DEF PageInv
<1>6. CASE \/ SetRace \/ SetClass \/ SetLevel \/ SetSubclass
           \/ SetMode \/ SetScore \/ ResetToCalculated \/ Choose \/ WriteNote
           \/ SetGain \/ ToggleOverride \/ ToggleSpellAttack
           \/ SetDefenseMode \/ SetArmor \/ SetShield \/ SetFormula
           \/ AddEquipment \/ ToggleEquipped \/ RemoveEquipment
           \/ EditCantrips \/ EditLearned \/ EditPrepared
  <2>1. WithinOffer(draft')
    BY <1>6, EditsKeep
  <2>2. view' = view /\ scope' = scope /\ outcome' \in {outcome, "none"}
    BY <1>6, EditFrame
  <2>3. QED BY <1>1, <2>1, <2>2 DEF PageInv
<1>7. CASE Review
  BY <1>1, <1>7 DEF Review, PageInv
<1>8. CASE BackToEdit \/ Save
  BY <1>1, <1>8 DEF BackToEdit, Save, PageInv
<1>9. CASE UNCHANGED vars
  BY <1>1, <1>9 DEF vars, PageInv
<1>10. QED BY <1>2, <1>3, <1>4, <1>5, <1>6, <1>7, <1>8, <1>9 DEF Next

(* The draft of a reachable state, of whatever edits, is within the offer, *)
(* and sound beside it: no option is selected twice, a boon that another   *)
(* option requires stands alone and only notes the form asks for remain.   *)
THEOREM DraftIsWithinOffer == Spec => []PageInv
<1>1. Init => PageInv
  BY PageInvInitially
<1>2. PageInv /\ [Next]_vars => PageInv'
  BY PageInvNext
<1>3. QED BY <1>1, <1>2, PTL DEF Spec

(* Whatever was edited before, in whatever order, the draft holds only     *)
(* what the form offers for its race, class, level and subclass.           *)
THEOREM OffersAreKept == Spec => []DraftHoldsOnlyWhatIsOffered
<1>1. ASSUME PageInv PROVE DraftHoldsOnlyWhatIsOffered
  <2>1. /\ view \in {"page", "form", "review", "opened"} /\ outcome \in {"none", "flagged", "puzzled", "refused"}
        /\ Sound(draft) /\ draft.subclass \in AvailableSubclasses(draft)
        /\ AnswersOffered(draft) /\ GainsOffered(draft) /\ SpellsOffered(draft) /\ DefenseOffered(draft)
    BY <1>1 DEF PageInv, WithinOffer
  <2>2. SpellsCounted(draft.spells)
    BY <2>1 DEF Sound
  <2>3. /\ draft.spells.mode = SpellMode(draft)
        /\ LearnedAt(draft.spells) \subseteq LearningLevels(draft)
        /\ draft.spells.mending => OffersMending(draft) /\ draft.spells.cantrips > 0
        /\ draft.spells.listed => OffersListed(draft) /\ draft.spells.prepared > 0
        /\ draft.spells.expanded => OffersExpanded(draft) /\ draft.spells.learned[1] > 0
        /\ draft.spells.mode = "spellbook-prepared" => draft.spells.prepared <= Learned(draft.spells)
    BY <2>1, <2>2 DEF SpellsOffered, SpellsCounted
  <2>4. DOMAIN draft.gains = IF IsSrdClass(draft) THEN 2 .. draft.level ELSE {}
    BY <2>1 DEF GainsOffered
  <2>5. /\ DOMAIN draft.choices = { choice.id : choice \in AvailableChoices(draft) }
        /\ \A choice \in AvailableChoices(draft) :
             /\ ToSet(draft.choices[choice.id]) \subseteq ToSet(choice.options)
             /\ Len(draft.choices[choice.id]) <= choice.count
    BY <2>1 DEF AnswersOffered
  <2>6. /\ AllowsFormula(draft, draft.defense.formula)
        /\ \A item \in {draft.defense.armor, draft.defense.shield} \ {"none"} : Worn(draft, item)
        /\ \A item \in Items : Worn(draft, item) => item \in {draft.defense.armor, draft.defense.shield}
    BY <2>1 DEF DefenseOffered
  <2>7. QED BY <2>1, <2>3, <2>4, <2>5, <2>6 DEF DraftHoldsOnlyWhatIsOffered
<1>2. QED BY <1>1, DraftIsWithinOffer, PTL

------------------------------------------------------------------------------
(* A REFUSED REVIEW                                                        *)

Reasons(d) ==
  \/ WrongPreparedCount(d) \/ SpellTwice(d) \/ LanguageKnown(d)
  \/ RollAboveDie(d) \/ ScoreOutOfBounds(d) \/ CastsWithout(d)

LEMMA OfferParts ==
  ASSUME NEW d, WithinOffer(d)
  PROVE  /\ d \in DraftType /\ Settled(d) /\ Distinct(d) /\ SpellsCounted(d.spells) /\ d.notes \subseteq NoteIds
         /\ d.subclass \in AvailableSubclasses(d)
         /\ AnswersOffered(d) /\ GainsOffered(d) /\ SpellsOffered(d) /\ DefenseOffered(d)
  BY DEF WithinOffer, Sound

(* The names that stand for no race and no class of the tables.            *)
LEMMA NotInTables ==
  /\ "none" \notin DOMAIN Races /\ "manual" \notin DOMAIN Races
  /\ "none" \notin DOMAIN Classes /\ "manual" \notin DOMAIN Classes
  BY RaceAssumption, CreationAssumption

LEMMA IdentityResolves ==
  ASSUME NEW d, WithinOffer(d), FieldsComplete(d)
  PROVE  SelectionsResolve(d)
<1>1. d \in DraftType /\ d.subclass \in AvailableSubclasses(d)
  BY OfferParts
<1>2. /\ d.race \in DOMAIN Races \cup {"none", "manual"} /\ d.class \in DOMAIN Classes \cup {"none", "manual"}
      /\ d.subclass \in {"none", "srd", "manual"}
  BY <1>1, DraftFields
<1>3. /\ d.race # "none" /\ (IsSrdRace(d) => ~Races[d.race].subraces)
      /\ d.class # "none" /\ (DecidesSubclass(d) => d.subclass # "none")
  BY DEF FieldsComplete
<1>4. d.race = "manual" \/ (IsSrdRace(d) /\ ~Races[d.race].subraces)
  BY <1>2, <1>3 DEF IsSrdRace
<1>5. d.class = "manual" \/ IsSrdClass(d)
  BY <1>2, <1>3 DEF IsSrdClass
<1>6. IsSrdClass(d) => d.class # "manual"
  BY NotInTables DEF IsSrdClass
<1>7. IsSrdClass(d) => (DecidesSubclass(d) <=> d.subclass # "none")
  BY <1>1, <1>3, <1>6 DEF AvailableSubclasses
<1>8. d.subclass = "srd" => IsSrdClass(d)
  BY <1>1 DEF AvailableSubclasses, DecidesSubclass
<1>9. QED BY <1>4, <1>5, <1>7, <1>8 DEF SelectionsResolve

(* The answer to a choice of the class is the one to what was offered.     *)
LEMMA ClassAnswered ==
  ASSUME NEW d, WithinOffer(d), NEW x \in ClassChoicesOf(d.class), x.id \in DOMAIN d.choices
  PROVE  x \in ClassChoicesFor(d)
<1>1. d \in DraftType /\ AnswersOffered(d)
  BY OfferParts
<1>2. d.class \in DOMAIN Classes /\ x \in CreationChoices[d.class]
  BY DEF ClassChoicesOf
<1>3. PICK z \in AvailableChoices(d) : z.id = x.id
  BY <1>1 DEF AnswersOffered
<1>4. CASE \E y \in RaceChoicesOf(d.race) : z = RaceOffer(y)
  <2>1. PICK y \in RaceChoicesOf(d.race) : z = RaceOffer(y)
    BY <1>4
  <2>2. d.race \in DOMAIN Races /\ y \in Races[d.race].choices
    BY <2>1 DEF RaceChoicesOf
  <2>3. y.id = x.id
    BY <2>1, <1>3 DEF RaceOffer
  <2>4. y.id # x.id
    BY <2>2, <1>2, RaceAssumption
  <2>5. QED BY <2>3, <2>4
<1>5. CASE \E y \in ClassChoicesFor(d) : z = ClassOffer(d, y)
  <2>1. PICK y \in ClassChoicesFor(d) : z = ClassOffer(d, y)
    BY <1>5
  <2>2. y.id = x.id
    BY <2>1, <1>3 DEF ClassOffer
  <2>3. y \in CreationChoices[d.class]
    BY <2>1, ClassChoicesAre
  <2>4. x = y
    BY <2>2, <2>3, <1>2, CreationAssumption
  <2>5. QED BY <2>1, <2>4
<1>6. QED BY <1>3, <1>4, <1>5, AvailableIs

LEMMA ChoicesAreComplete ==
  ASSUME NEW d, WithinOffer(d)
  PROVE  RuleChoicesComplete(d)
<1>1. d \in DraftType /\ AnswersOffered(d)
  BY OfferParts
<1>2. ASSUME NEW x \in RaceChoicesOf(d.race) PROVE x.id \in DOMAIN d.choices
  <2>1. RaceOffer(x) \in AvailableChoices(d) /\ RaceOffer(x).id = x.id
    BY AvailableIs DEF RaceOffer
  <2>2. QED BY <2>1, <1>1 DEF AnswersOffered
<1>3. ASSUME NEW x \in ClassChoicesOf(d.class), Requires(d, x) PROVE x.id \in DOMAIN d.choices
  <2>1. d.class \in DOMAIN Classes /\ x \in CreationChoices[d.class]
    BY DEF ClassChoicesOf
  <2>2. x \in ClassChoicesFor(d)
    BY <2>1, <1>3 DEF ClassChoicesFor, IsSrdClass, Requires
  <2>3. ClassOffer(d, x) \in AvailableChoices(d) /\ ClassOffer(d, x).id = x.id
    BY <2>2, AvailableIs DEF ClassOffer
  <2>4. QED BY <2>3, <1>1 DEF AnswersOffered
<1>4. QED BY <1>2, <1>3 DEF RuleChoicesComplete

(* A note on a choice of the class can be given.                           *)
LEMMA NotesAreManual ==
  ASSUME NEW c \in DOMAIN Classes, NEW x \in CreationChoices[c], x.id \in NoteIds
  PROVE  x.manual
<1>1. PICK e \in DOMAIN Classes : x.id \in { y.id : y \in { z \in CreationChoices[e] : z.manual /\ z.options = <<>> } }
  BY DEF NoteIds
<1>2. PICK y \in CreationChoices[e] : y.options = <<>> /\ y.id = x.id
  BY <1>1
<1>3. QED BY <1>2, PrerequisiteAssumption

LEMMA RaceChoicesHaveNoNotes ==
  ASSUME NEW race, NEW x \in RaceChoicesOf(race)
  PROVE  x.id \notin NoteIds
<1> SUFFICES ASSUME x.id \in NoteIds PROVE FALSE
  OBVIOUS
<1>1. PICK e \in DOMAIN Classes : x.id \in { y.id : y \in { z \in CreationChoices[e] : z.manual /\ z.options = <<>> } }
  BY DEF NoteIds
<1>2. PICK y \in CreationChoices[e] : y.id = x.id
  BY <1>1
<1>3. race \in DOMAIN Races /\ x \in Races[race].choices
  BY DEF RaceChoicesOf
<1>4. QED BY <1>2, <1>3, RaceAssumption

LEMMA RaceSelectionsFit ==
  ASSUME NEW d, WithinOffer(d), FieldsComplete(d), ~LanguageKnown(d)
  PROVE  RaceSelectionsValid(d)
<1>1. d \in DraftType /\ AnswersOffered(d) /\ d.notes \subseteq NoteIds
  BY OfferParts
<1>2. ASSUME NEW x \in RaceChoicesOf(d.race), x.id \in DOMAIN d.choices
      PROVE  SelectionValid(d, x.id, x.count, x.options, FALSE) /\ AddsLanguage(d, x.id)
  <2> DEFINE z == RaceOffer(x)
  <2>1. z \in AvailableChoices(d)
    BY AvailableIs
  <2>2. z.id = x.id /\ z.count = x.count /\ z.options = x.options /\ ~ByNoteOnly(z)
    BY DEF RaceOffer, ByNoteOnly
  <2> HIDE DEF z
  <2>3. ChoiceComplete(d, z)
    BY <2>1 DEF FieldsComplete
  <2>4. Len(d.choices[x.id]) = x.count
    BY <2>2, <2>3, <1>2 DEF ChoiceComplete, SelectedFor
  <2>5. ToSet(d.choices[x.id]) \subseteq ToSet(x.options)
    BY <2>1, <2>2, <1>1 DEF AnswersOffered
  <2>6. x.id \notin d.notes
    BY <1>1, RaceChoicesHaveNoNotes
  <2>7. AddsLanguage(d, x.id)
    BY <1>2 DEF LanguageKnown, AddsLanguage
  <2>8. QED BY <2>4, <2>5, <2>6, <2>7 DEF SelectionValid
<1>3. QED BY <1>2 DEF RaceSelectionsValid

LEMMA ClassSelectionsFit ==
  ASSUME NEW d, WithinOffer(d), FieldsComplete(d)
  PROVE  ClassSelectionsValid(d)
<1>1. d \in DraftType /\ AnswersOffered(d) /\ d.notes \subseteq NoteIds
  BY OfferParts
<1>2. ASSUME NEW x \in ClassChoicesOf(d.class), x.id \in DOMAIN d.choices
      PROVE  /\ d.level >= x.from /\ (x.subclass => d.subclass = "srd")
             /\ SelectionValid(d, x.id, x.counts[d.level], x.options, x.manual)
             /\ PrerequisitesMet(d, x)
  <2>1. x \in ClassChoicesFor(d)
    BY <1>2, ClassAnswered
  <2>2. d.class \in DOMAIN Classes /\ x \in CreationChoices[d.class]
    BY <2>1, ClassChoicesAre
  <2>3. d.level >= x.from /\ (x.subclass => d.subclass = "srd")
    BY <2>1 DEF ClassChoicesFor, IsSrdClass
  <2> DEFINE z == ClassOffer(d, x)
  <2>4. z \in AvailableChoices(d)
    BY <2>1, AvailableIs
  <2>5. /\ z.id = x.id /\ z.count = x.counts[d.level] /\ z.options = ClassOptions(d, x)
        /\ z.manual = x.manual
    BY DEF ClassOffer
  <2> HIDE DEF z
  <2>6. ToSet(z.options) = { option \in ToSet(x.options) : MeetsFor(d, x, option) }
    BY <2>2, <2>5, ClassOptionsAre
  <2>7. ToSet(d.choices[x.id]) \subseteq ToSet(z.options)
    BY <2>4, <2>5, <1>1 DEF AnswersOffered
  <2>8. ChoiceComplete(d, z)
    BY <2>4 DEF FieldsComplete
  <2>9. x.id \in d.notes => x.manual
    BY <2>2, <1>1, NotesAreManual
  <2>10. SelectionValid(d, x.id, x.counts[d.level], x.options, x.manual)
    <3>1. CASE x.options = <<>> /\ x.manual
      <4>1. ToSet(x.options) = {}
        BY <3>1 DEF ToSet
      <4>2. ToSet(d.choices[x.id]) = {} /\ ToSet(z.options) = {}
        BY <4>1, <2>6, <2>7
      <4>3. d.choices[x.id] \in Seq(Option) /\ z.options \in Seq(Option)
        BY <1>1, <1>2, <2>4, SelectionsAreSequences, OffersTyped
      <4>4. ASSUME NEW s \in Seq(Option), ToSet(s) = {} PROVE s = <<>>
        <5>1. DOMAIN s = {}
          BY <4>4 DEF ToSet
        <5>2. Len(s) \in Nat /\ DOMAIN s = 1 .. Len(s)
          BY LenProperties
        <5>3. Len(s) = 0
          BY <5>1, <5>2
        <5>4. QED BY <5>3, EmptySeq
      <4>5. d.choices[x.id] = <<>> /\ z.options = <<>>
        BY <4>2, <4>3, <4>4
      <4>6. x.id \in d.notes
        BY <4>5, <2>5, <2>8, <3>1 DEF ChoiceComplete, ByNoteOnly
      <4>7. QED BY <4>5, <4>6, <3>1 DEF SelectionValid
    <3>2. CASE ~(x.options = <<>> /\ x.manual)
      <4>1. ~ByNoteOnly(z)
        <5> SUFFICES ASSUME ByNoteOnly(z) PROVE FALSE
          OBVIOUS
        <5>1. x.manual /\ z.options = <<>>
          BY <2>5 DEF ByNoteOnly
        <5>2. x.options # <<>>
          BY <5>1, <3>2
        <5>3. PICK option \in ToSet(x.options) :
                Prerequisite(x, option).level = 1 /\ Prerequisite(x, option).options = {}
          BY <5>2, <2>2, PrerequisiteAssumption
        <5>4. d.level \in Level
          BY <1>1, DraftFields
        <5>5. d.level >= 1
          BY <5>4 DEF Level
        <5>6. MeetsFor(d, x, option)
          BY <5>3, <5>5 DEF MeetsFor
        <5>7. ToSet(z.options) = {}
          BY <5>1 DEF ToSet
        <5>8. QED BY <5>6, <5>7, <2>6
      <4>2. Len(d.choices[x.id]) = x.counts[d.level]
        BY <4>1, <2>5, <2>8, <1>2 DEF ChoiceComplete, SelectedFor
      <4>3. ToSet(d.choices[x.id]) \subseteq ToSet(x.options)
        BY <2>6, <2>7
      <4>4. QED BY <4>2, <4>3, <2>9, <3>2 DEF SelectionValid
    <3>3. QED BY <3>1, <3>2
  <2>11. ASSUME NEW option \in ToSet(d.choices[x.id])
         PROVE  /\ d.level >= Prerequisite(x, option).level
                /\ Prerequisite(x, option).options \subseteq SelectedIn(d, DOMAIN d.choices)
    <3>1. MeetsFor(d, x, option)
      BY <2>6, <2>7
    <3>2. SelectedIn(d, { other.id : other \in ClassChoicesFor(d) }) \subseteq SelectedIn(d, DOMAIN d.choices)
      BY DEF SelectedIn
    <3>3. QED BY <3>1, <3>2 DEF MeetsFor
  <2>12. QED BY <2>3, <2>10, <2>11 DEF PrerequisitesMet
<1>3. QED BY <1>2 DEF ClassSelectionsValid

LEMMA RuleChoicesFit ==
  ASSUME NEW d, WithinOffer(d), FieldsComplete(d), ~LanguageKnown(d)
  PROVE  RuleChoicesValid(d)
<1>1. d \in DraftType /\ AnswersOffered(d)
  BY OfferParts
<1>2. ASSUME NEW id \in DOMAIN d.choices
      PROVE  \/ \E x \in RaceChoicesOf(d.race) : x.id = id
             \/ \E x \in ClassChoicesOf(d.class) : x.id = id
  <2>1. PICK z \in AvailableChoices(d) : z.id = id
    BY <1>1 DEF AnswersOffered
  <2>2. CASE \E y \in RaceChoicesOf(d.race) : z = RaceOffer(y)
    BY <2>1, <2>2 DEF RaceOffer
  <2>3. CASE \E y \in ClassChoicesFor(d) : z = ClassOffer(d, y)
    <3>1. PICK y \in ClassChoicesFor(d) : z = ClassOffer(d, y)
      BY <2>3
    <3>2. y \in ClassChoicesOf(d.class)
      BY <3>1, ClassChoicesAre DEF ClassChoicesOf
    <3>3. y.id = id
      BY <2>1, <3>1 DEF ClassOffer
    <3>4. QED BY <3>2, <3>3
  <2>4. QED BY <2>1, <2>2, <2>3, AvailableIs
<1>3. RaceSelectionsValid(d) /\ ClassSelectionsValid(d)
  BY RaceSelectionsFit, ClassSelectionsFit
<1>4. QED BY <1>2, <1>3 DEF RuleChoicesValid

LEMMA ManualPartsHold ==
  ASSUME NEW d, WithinOffer(d), FieldsComplete(d), ~CastsWithout(d)
  PROVE  ManualPartsFit(d)
<1>1. d \in DraftType /\ GainsOffered(d) /\ SpellsOffered(d)
  BY OfferParts
<1>2. d.race = "manual" => d.mode = "imported" /\ "speed" \in d.overrides
  BY DEF FieldsComplete
<1>3. ASSUME d.class = "manual"
      PROVE  "maximum" \in d.overrides /\ d.gains = <<>> /\ d.spells.mode = "none" /\ ~d.spellAttack
  <2>1. "maximum" \in d.overrides
    BY <1>3 DEF FieldsComplete
  <2>2. ~IsSrdClass(d)
    BY <1>3, NotInTables DEF IsSrdClass
  <2>3. d.spells.mode = "none"
    BY <1>1, <2>2 DEF SpellsOffered, SpellMode
  <2>4. d.gains = <<>>
    <3>1. DOMAIN d.gains = {}
      BY <1>1, <2>2 DEF GainsOffered
    <3>2. d.gains \in Partial(Level, Nat)
      BY <1>1, DraftFields
    <3>3. d.gains = [l \in DOMAIN d.gains |-> d.gains[l]]
      BY <3>2, PartialElim
    <3> DEFINE g == d.gains
    <3>4. DOMAIN g = {} /\ g = [l \in DOMAIN g |-> g[l]]
      BY <3>1, <3>3
    <3> HIDE DEF g
    <3>5. g = <<>>
      BY <3>4
    <3>6. QED BY <3>5 DEF g
  <2>5. ~d.spellAttack
    BY <2>3 DEF CastsWithout
  <2>6. QED BY <2>1, <2>3, <2>4, <2>5
<1>4. QED BY <1>2, <1>3 DEF ManualPartsFit

LEMMA GainsHold ==
  ASSUME NEW d, WithinOffer(d), ~RollAboveDie(d)
  PROVE  GainsFit(d)
<1>1. d \in DraftType /\ GainsOffered(d)
  BY OfferParts
<1>2. IsSrdClass(d) => DOMAIN d.gains = 2 .. d.level
  BY <1>1 DEF GainsOffered
<1>3. ASSUME NEW l \in DOMAIN d.gains, d.gains[l] # 0
      PROVE  d.gains[l] \in 1 .. (IF IsSrdClass(d) THEN Classes[d.class].hitDie ELSE 20)
  <2>1. IsSrdClass(d)
    BY <1>1 DEF GainsOffered
  <2>2. d.gains[l] \in Nat
    BY <1>1, DraftFields, PartialElim
  <2>3. Classes[d.class].hitDie \in 6 .. 12
    BY <2>1, ClassAssumption DEF IsSrdClass
  <2>4. ~ (d.gains[l] > Classes[d.class].hitDie)
    BY <2>1 DEF RollAboveDie
  <2> DEFINE gain == d.gains[l]
             die == Classes[d.class].hitDie
  <2>5. gain \in Nat /\ gain # 0 /\ die \in 6 .. 12 /\ ~ (gain > die)
    BY <1>3, <2>2, <2>3, <2>4
  <2> HIDE DEF gain, die
  <2>6. gain \in 1 .. die
    BY <2>5
  <2>7. QED BY <2>1, <2>6 DEF gain, die
<1>4. QED BY <1>2, <1>3 DEF GainsFit

LEMMA AttacksHold ==
  ASSUME NEW d, WithinOffer(d), ~CastsWithout(d)
  PROVE  SpellAttackFits(d)
<1>1. SpellsOffered(d)
  BY OfferParts
<1>2. ASSUME d.spellAttack PROVE IsSrdClass(d) /\ Casts(d.class, d.level)
  <2>1. SpellMode(d) # "none"
    BY <1>1, <1>2 DEF CastsWithout, SpellsOffered
  <2>2. QED BY <2>1, SpellModeTyped DEF IsSrdClass
<1>3. QED BY <1>2 DEF SpellAttackFits

LEMMA FormulasAre ==
  ASSUME NEW d, NEW formula, AllowsFormula(d, formula)
  PROVE  /\ formula \in {"standard-unarmored", "barbarian-unarmored-defense", "monk-unarmored-defense",
                         "draconic-resilience"}
         /\ formula = "barbarian-unarmored-defense" => d.class = "barbarian"
         /\ formula = "monk-unarmored-defense" => d.class = "monk"
         /\ formula = "draconic-resilience" => d.class = "sorcerer" /\ d.subclass = "srd"
<1>1. DOMAIN FormulaOf = {"barbarian", "monk", "sorcerer"}
  BY DEF FormulaOf
<1>2. /\ FormulaOf["barbarian"] = "barbarian-unarmored-defense"
      /\ FormulaOf["monk"] = "monk-unarmored-defense"
      /\ FormulaOf["sorcerer"] = "draconic-resilience"
  BY DEF FormulaOf
<1>3. \/ formula = "standard-unarmored"
      \/ /\ d.class \in {"barbarian", "monk", "sorcerer"} /\ formula = FormulaOf[d.class]
         /\ d.class = "sorcerer" => d.subclass = "srd"
  BY <1>1 DEF AllowsFormula
<1>4. QED BY <1>2, <1>3

LEMMA DefenseHolds ==
  ASSUME NEW d, WithinOffer(d), FieldsComplete(d)
  PROVE  DefenseFits(d)
<1>1. d \in DraftType /\ DefenseOffered(d)
  BY OfferParts
<1>2. /\ d.defense.armor \in Armors \cup {"none"} /\ d.defense.shield \in {Shield, "none"}
  BY <1>1, DefenseFields
<1>3. \A item \in {d.defense.armor, d.defense.shield} \ {"none"} : Worn(d, item)
  BY <1>1 DEF DefenseOffered
<1>4. d.defense.shield # "none" => Worn(d, d.defense.shield)
  BY <1>3
<1>5. d.defense.mode = "armor" => d.defense.armor \in Armors /\ Worn(d, d.defense.armor)
  <2>1. d.defense.mode = "armor" => d.defense.armor # "none"
    BY DEF FieldsComplete
  <2>2. QED BY <2>1, <1>2, <1>3
<1>6. ASSUME d.defense.mode = "unarmored"
      PROVE  /\ \A armor \in Armors : ~Worn(d, armor)
             /\ d.defense.formula = "monk-unarmored-defense" => d.class = "monk" /\ d.defense.shield = "none"
             /\ d.defense.formula = "barbarian-unarmored-defense" => d.class = "barbarian"
             /\ d.defense.formula = "draconic-resilience" => d.class = "sorcerer" /\ d.subclass = "srd"
  <2>1. d.defense.armor = "none"
    BY <1>1, <1>6 DEF DefenseOffered
  <2>2. ASSUME NEW armor \in Armors, Worn(d, armor) PROVE FALSE
    <3>1. armor \in Items
      BY NoneIsNoItem
    <3>2. armor \in {d.defense.armor, d.defense.shield}
      BY <3>1, <2>2, <1>1 DEF DefenseOffered
    <3>3. QED BY <3>1, <3>2, <2>1, <1>2, NoneIsNoItem
  <2>3. d.defense.formula = "monk-unarmored-defense" => d.defense.shield = "none"
    BY <1>1, <1>6 DEF DefenseOffered
  <2>4. AllowsFormula(d, d.defense.formula)
    BY <1>1 DEF DefenseOffered
  <2>5. QED BY <2>2, <2>3, <2>4, FormulasAre
<1>7. QED BY <1>4, <1>5, <1>6 DEF DefenseFits

LEMMA SpellsHold ==
  ASSUME NEW d, WithinOffer(d), FieldsComplete(d), IsSrdClass(d), ~WrongPreparedCount(d), ~SpellTwice(d),
         NEW scores \in {ScoresOfRace(d), FinalScores(d)}
  PROVE  SpellsResolve(d, scores)
<1>1. d \in DraftType /\ SpellsOffered(d)
  BY OfferParts
<1>2. d.spells.mode = SpellMode(d)
  BY <1>1 DEF SpellsOffered
<1>3. ASSUME d.spells.mode # "none"
      PROVE  /\ d.spells.cantrips = CantripsKnown(d.class, d.level)
             /\ \A l \in LearningLevels(d) : d.spells.learned[l] = WantedLearned(d, l)
             /\ d.spells.mode = "spellbook-prepared" => d.spells.prepared <= Learned(d.spells)
             /\ PreparesExactly(d, scores)
             /\ d.spells.expanded => OffersExpanded(d)
             /\ ~d.spells.repeated /\ CantripsDistinct(d)
             /\ ~(d.spells.listed /\ AlwaysPrepares(d))
  <2>1. SpellFieldsComplete(d)
    BY DEF FieldsComplete
  <2>2. /\ d.spells.cantrips = CantripsKnown(d.class, d.level)
        /\ \A l \in LearningLevels(d) : d.spells.learned[l] = WantedLearned(d, l)
    BY <2>1, <1>3 DEF SpellFieldsComplete, WantedCantrips
  <2>3. PreparesExactly(d, scores)
    <3>1. PreparesSpells(d.class) => PreparesExactly(d, scores)
      BY DEF WrongPreparedCount
    <3>2. ~PreparesSpells(d.class) => PreparesExactly(d, scores)
      BY DEF PreparesExactly
    <3>3. QED BY <3>1, <3>2
  <2>4. ~d.spells.repeated /\ CantripsDistinct(d)
    BY <1>3 DEF SpellTwice
  <2>5. ~(d.spells.listed /\ AlwaysPrepares(d))
    BY <1>1 DEF SpellsOffered, OffersListed
  <2>6. (d.spells.expanded => OffersExpanded(d))
        /\ (d.spells.mode = "spellbook-prepared" => d.spells.prepared <= Learned(d.spells))
    BY <1>1 DEF SpellsOffered
  <2>7. QED BY <2>2, <2>3, <2>4, <2>5, <2>6
<1>4. QED BY <1>2, <1>3 DEF SpellsResolve

(* A draft within the offer whose fields are filled in is refused by the   *)
(* contract only for the reasons that are left to the user.                *)
LEMMA FilledInIsAccepted ==
  ASSUME NEW d, WithinOffer(d), FieldsComplete(d), ~Reasons(d)
  PROVE  ContractAccepts(d)
<1>1. /\ ~WrongPreparedCount(d) /\ ~SpellTwice(d) /\ ~LanguageKnown(d)
      /\ ~RollAboveDie(d) /\ ~ScoreOutOfBounds(d) /\ ~CastsWithout(d)
  BY DEF Reasons
<1>2. ScoresInBounds(TypedScores(d)) /\ ScoresInBounds(FinalScores(d))
  BY <1>1 DEF ScoreOutOfBounds
<1>3. SelectionsResolve(d) /\ RuleChoicesComplete(d) /\ RuleChoicesValid(d)
  BY <1>1, IdentityResolves, ChoicesAreComplete, RuleChoicesFit
<1>4. ManualPartsFit(d) /\ GainsFit(d) /\ SpellAttackFits(d) /\ DefenseFits(d)
  BY <1>1, ManualPartsHold, GainsHold, AttacksHold, DefenseHolds
<1>5. IsSrdClass(d) => SpellsResolve(d, ScoresOfRace(d)) /\ SpellsResolve(d, FinalScores(d))
  BY <1>1, SpellsHold
<1>6. ~IsSrdClass(d) => d.spells.mode = "none"
  BY OfferParts DEF SpellsOffered, SpellMode
<1>7. RequestValid(d)
  BY <1>2, <1>3, <1>4, <1>5, <1>6 DEF RequestValid
<1>8. SheetBuilds(d)
  BY <1>2, <1>5 DEF SheetBuilds
<1>9. QED BY <1>7, <1>8 DEF ContractAccepts

(* The form's message: none before the form is opened, and one that names  *)
(* no field stays on the screen of a page whose form is not edited only    *)
(* with its reason.                                                        *)
MessageInv ==
  /\ PageInv
  /\ view = "page" => outcome = "none"
  /\ scope.asks /\ outcome = "puzzled" => Reasons(draft)

LEMMA ReviewExplained ==
  ASSUME PageInv, Review, outcome' = "puzzled"
  PROVE  Reasons(draft) /\ draft' = draft
<1>1. draft' = draft /\ FieldsComplete(draft) /\ ~ContractAccepts(draft)
  BY DEF Review
<1>2. WithinOffer(draft)
  BY DEF PageInv
<1>3. QED BY <1>1, <1>2, FilledInIsAccepted

LEMMA MessageInvNext ==
  ASSUME MessageInv, [Next]_vars
  PROVE  MessageInv'
<1>1. PageInv'
  BY PageInvNext DEF MessageInv
<1>2. PageInv /\ (view = "page" => outcome = "none") /\ (scope.asks /\ outcome = "puzzled" => Reasons(draft))
  BY DEF MessageInv
<1> SUFFICES /\ view' = "page" => outcome' = "none"
             /\ (scope.asks)' /\ outcome' = "puzzled" => Reasons(draft')
  BY <1>1 DEF MessageInv, Reasons, WrongPreparedCount, SpellTwice, LanguageKnown, RollAboveDie,
              ScoreOutOfBounds, CastsWithout
<1>3. CASE PickMode \/ PickBuild
  <2>1. view = "page" /\ outcome' = outcome
    BY <1>3 DEF PickMode, PickBuild
  <2>2. QED BY <1>2, <2>1
<1>4. CASE Answer \/ Advance \/ StepBack
  <2>1. view' = view /\ outcome' = outcome /\ scope' = scope /\ draft' = draft
    BY <1>4 DEF Answer, Advance, StepBack
  <2>2. QED BY <1>2, <2>1
<1>5. CASE Leave
  BY <1>5 DEF Leave
<1>6. CASE \/ SetRace \/ SetClass \/ SetLevel \/ SetSubclass
           \/ SetMode \/ SetScore \/ ResetToCalculated \/ Choose \/ WriteNote
           \/ SetGain \/ ToggleOverride \/ ToggleSpellAttack
           \/ SetDefenseMode \/ SetArmor \/ SetShield \/ SetFormula
           \/ AddEquipment \/ ToggleEquipped \/ RemoveEquipment
           \/ EditCantrips \/ EditLearned \/ EditPrepared
  <2>1. view = "form" /\ view' = view /\ scope' = scope /\ ~scope.asks
    BY <1>6, EditFrame
  <2>2. QED BY <2>1
<1>7. CASE Review
  <2>1. view' \in {"form", "review"}
    BY <1>7 DEF Review
  <2>2. outcome' = "puzzled" => Reasons(draft')
    BY <1>2, <1>7, ReviewExplained
  <2>3. QED BY <2>1, <2>2
<1>8. CASE BackToEdit \/ Save
  <2>1. view' \in {"form", "review", "opened"} /\ outcome' \in {"none", "refused"}
    BY <1>8 DEF BackToEdit, Save
  <2>2. QED BY <2>1
<1>9. CASE UNCHANGED vars
  BY <1>2, <1>9 DEF vars
<1>10. QED BY <1>3, <1>4, <1>5, <1>6, <1>7, <1>8, <1>9 DEF Next

(* No sequence of edits leaves the draft with anything that the contract   *)
(* refuses without a reason the user can find, although the form shows     *)
(* none: filled-in fields and a refused review imply one of six reasons.   *)
THEOREM RefusedReviewsHaveReasons == Spec => RefusalsAreExplained
<1>1. Init => MessageInv
  BY PageInvInitially DEF Init, MessageInv
<1>2. MessageInv /\ [Next]_vars => MessageInv'
  BY MessageInvNext
<1>3. MessageInv /\ [Next]_vars =>
        [outcome' = "puzzled" /\ draft' = draft =>
           \/ WrongPreparedCount(draft) \/ SpellTwice(draft) \/ LanguageKnown(draft)
           \/ RollAboveDie(draft) \/ ScoreOutOfBounds(draft) \/ CastsWithout(draft)]_vars
  <2> SUFFICES ASSUME MessageInv, Next, outcome' = "puzzled", draft' = draft, ~ UNCHANGED vars
               PROVE  Reasons(draft)
    BY DEF Reasons
  <2>1. PageInv /\ (view = "page" => outcome = "none") /\ (scope.asks /\ outcome = "puzzled" => Reasons(draft))
    BY DEF MessageInv
  <2>2. CASE PickMode \/ PickBuild
    BY <2>1, <2>2 DEF PickMode, PickBuild
  <2>3. CASE Answer \/ Advance
    BY <2>1, <2>3 DEF Answer, Advance
  <2>4. CASE StepBack
    <3>1. outcome' = outcome /\ (view = "page" \/ scope.asks)
      BY <2>4 DEF StepBack
    <3>2. QED BY <2>1, <3>1
  <2>5. CASE Leave
    BY <2>5 DEF Leave
  <2>6. CASE \/ SetRace \/ SetClass \/ SetLevel \/ SetSubclass
             \/ SetMode \/ SetScore \/ ResetToCalculated \/ Choose \/ WriteNote
             \/ SetGain \/ ToggleOverride \/ ToggleSpellAttack
             \/ SetDefenseMode \/ SetArmor \/ SetShield \/ SetFormula
             \/ AddEquipment \/ ToggleEquipped \/ RemoveEquipment
             \/ EditCantrips \/ EditLearned \/ EditPrepared
    <3>1. view' = view /\ scope' = scope /\ quiz' = quiz /\ outcome' = outcome
      BY <2>6, EditFrame
    <3>2. UNCHANGED vars
      BY <3>1 DEF vars
    <3>3. QED BY <3>2
  <2>7. CASE Review
    BY <2>1, <2>7, ReviewExplained
  <2>8. CASE BackToEdit \/ Save
    BY <2>8 DEF BackToEdit, Save
  <2>9. QED BY <2>2, <2>3, <2>4, <2>5, <2>6, <2>7, <2>8 DEF Next
<1>4. QED BY <1>1, <1>2, <1>3, PTL DEF Spec, RefusalsAreExplained

------------------------------------------------------------------------------
(* THE SERVER'S ANSWER TO A REVIEWED DRAFT                                 *)

(* Both sides read the same race and class of a draft.                     *)
LEMMA SameTables ==
  ASSUME NEW d \in DraftType
  PROVE  /\ FromSrd(d.race) <=> IsSrdRace(d)
         /\ FromSrd(d.class) <=> IsSrdClass(d)
         /\ RaceRules(d) = RaceChoicesOf(d.race) /\ ClassRulesFor(d) = ClassChoicesOf(d.class)
<1>1. d.race \in DOMAIN Races \cup {"none", "manual"} /\ d.class \in DOMAIN Classes \cup {"none", "manual"}
  BY DraftFields
<1>2. FromSrd(d.race) <=> IsSrdRace(d)
  BY <1>1, NotInTables DEF FromSrd, IsSrdRace
<1>3. FromSrd(d.class) <=> IsSrdClass(d)
  BY <1>1, NotInTables DEF FromSrd, IsSrdClass
<1>4. RaceRules(d) = RaceChoicesOf(d.race)
  BY <1>2 DEF RaceRules, RaceChoicesOf, IsSrdRace
<1>5. ClassRulesFor(d) = ClassChoicesOf(d.class)
  BY <1>3 DEF ClassRulesFor, ClassChoicesOf, IsSrdClass
<1>6. QED BY <1>2, <1>3, <1>4, <1>5

LEMMA NoNamelessClass == "" \notin DOMAIN Classes
  BY DEF Classes

LEMMA SubclassIs ==
  ASSUME NEW d, IsSrdClass(d)
  PROVE  /\ SubclassIndex(d) = d.class <=> d.subclass = "srd"
         /\ SubclassIndex(d) = "sorcerer" <=> d.class = "sorcerer" /\ d.subclass = "srd"
  BY NoNamelessClass DEF SubclassIndex, IsSrdClass

LEMMA ElementsAt ==
  ASSUME NEW S, NEW s \in Seq(S)
  PROVE  /\ \A i \in DOMAIN s : s[i] \in ToSet(s)
         /\ \A x \in ToSet(s) : Contains(s, x)
         /\ \A x : Contains(s, x) => x \in ToSet(s)
<1>1. DOMAIN s = 1 .. Len(s)
  BY LenProperties
<1>2. QED BY <1>1 DEF ToSet, Contains

(* What the client's check of an answer says is what the server asks.      *)
LEMMA SameAnswer ==
  ASSUME NEW d \in DraftType, NEW id \in DOMAIN d.choices, NEW n, NEW options \in Seq(Option), NEW manual \in BOOLEAN,
         SelectionValid(d, id, n, options, manual)
  PROVE  AnswersChoice(d, id, n, options, manual)
<1>1. Options(d, id) = d.choices[id] /\ d.choices[id] \in Seq(Option)
  BY SelectionsAreSequences DEF Options
<1>2. CASE options = <<>> /\ manual
  BY <1>1, <1>2 DEF SelectionValid, AnswersChoice
<1>3. CASE ~(options = <<>> /\ manual)
  <2>1. Len(d.choices[id]) = n /\ ToSet(d.choices[id]) \subseteq ToSet(options) /\ (id \in d.notes => manual)
    BY <1>3 DEF SelectionValid
  <2>2. \A i \in DOMAIN d.choices[id] : Contains(options, d.choices[id][i])
    BY <2>1, <1>1, ElementsAt
  <2>3. QED BY <2>1, <2>2, <1>1, <1>3 DEF AnswersChoice
<1>4. QED BY <1>2, <1>3

LEMMA SameOptions == \A d : AllOptions(d) = SelectedIn(d, DOMAIN d.choices)
  BY DEF AllOptions, SelectedIn

LEMMA ServerTakesChoices ==
  ASSUME NEW d, WithinOffer(d), RequestValid(d)
  PROVE  ValidRuleChoices(d)
<1>1. d \in DraftType
  BY OfferParts
<1>2. RuleChoicesComplete(d) /\ RaceSelectionsValid(d) /\ ClassSelectionsValid(d)
      /\ DOMAIN d.choices \subseteq { choice.id : choice \in RaceChoicesOf(d.race) }
                                    \cup { choice.id : choice \in ClassChoicesOf(d.class) }
  BY DEF RequestValid, RuleChoicesValid
<1>3. RaceRules(d) = RaceChoicesOf(d.race) /\ ClassRulesFor(d) = ClassChoicesOf(d.class)
  BY <1>1, SameTables
<1>4. ASSUME NEW x \in RaceChoicesOf(d.race)
      PROVE  /\ Options(d, x.id) # <<>>
             /\ AnswersChoice(d, x.id, x.count, x.options, FALSE)
             /\ x.id = HighElfLanguage =>
                  \A i \in DOMAIN Options(d, x.id) : Options(d, x.id)[i] \notin Races[d.race].languages
  <2>1. x.id \in DOMAIN d.choices
    BY <1>2 DEF RuleChoicesComplete
  <2>2. SelectionValid(d, x.id, x.count, x.options, FALSE) /\ AddsLanguage(d, x.id)
    BY <1>2, <2>1 DEF RaceSelectionsValid
  <2>3. Options(d, x.id) = d.choices[x.id] /\ d.choices[x.id] \in Seq(Option)
    BY <1>1, <2>1, SelectionsAreSequences DEF Options
  <2>4. d.race \in DOMAIN Races /\ x \in Races[d.race].choices
    BY DEF RaceChoicesOf
  <2>5. x.count \in 1 .. 2 /\ x.options \in Seq(Option)
    BY <2>4, RaceAssumption
  <2>6. Len(d.choices[x.id]) = x.count
    BY <2>2 DEF SelectionValid
  <2>7. d.choices[x.id] # <<>>
    BY <2>5, <2>6, EmptySeq
  <2>8. AnswersChoice(d, x.id, x.count, x.options, FALSE)
    BY <1>1, <2>1, <2>2, <2>5, SameAnswer
  <2>9. x.id = HighElfLanguage => \A i \in DOMAIN d.choices[x.id] : d.choices[x.id][i] \notin Races[d.race].languages
    BY <2>2, <2>3, ElementsAt DEF AddsLanguage
  <2>10. QED BY <2>3, <2>7, <2>8, <2>9
<1>5. NothingMissing(d)
  <2>1. ASSUME NEW x \in ClassChoicesOf(d.class), Available(d, x) PROVE x.id \in DOMAIN d.choices
    <3>1. IsSrdClass(d)
      BY DEF ClassChoicesOf, IsSrdClass
    <3>2. Requires(d, x)
      BY <2>1, <3>1, SubclassIs DEF Available, Requires
    <3>3. QED BY <3>2, <1>2 DEF RuleChoicesComplete
  <2>2. QED BY <2>1, <1>3, <1>4 DEF NothingMissing
<1>6. RaceAnswers(d)
  BY <1>3, <1>4 DEF RaceAnswers
<1>7. ClassAnswers(d)
  <2>1. ASSUME NEW x \in ClassChoicesOf(d.class), x.id \in DOMAIN d.choices
        PROVE  /\ Available(d, x)
               /\ AnswersChoice(d, x.id, x.counts[d.level], x.options, x.manual)
               /\ \A option \in ToSet(Options(d, x.id)) :
                    /\ Prerequisite(x, option).level <= d.level
                    /\ Prerequisite(x, option).options \subseteq AllOptions(d)
    <3>1. IsSrdClass(d) /\ d.class \in DOMAIN Classes /\ x \in CreationChoices[d.class]
      BY DEF ClassChoicesOf, IsSrdClass
    <3>2. /\ d.level >= x.from /\ (x.subclass => d.subclass = "srd")
          /\ SelectionValid(d, x.id, x.counts[d.level], x.options, x.manual)
          /\ PrerequisitesMet(d, x)
      BY <1>2, <2>1 DEF ClassSelectionsValid
    <3>3. d.level \in Level /\ x.from \in Level
      BY <1>1, <3>1, DraftFields, CreationAssumption
    <3>4. x.counts[d.level] > 0
      BY <3>1, <3>2, <3>3, CreationAssumption DEF Level
    <3>5. Available(d, x)
      BY <3>1, <3>2, <3>4, SubclassIs DEF Available
    <3>6. x.options \in Seq(Option) /\ x.manual \in BOOLEAN
      BY <3>1, CreationAssumption
    <3>7. AnswersChoice(d, x.id, x.counts[d.level], x.options, x.manual)
      BY <1>1, <2>1, <3>2, <3>6, SameAnswer
    <3>8. Options(d, x.id) = d.choices[x.id]
      BY <2>1 DEF Options
    <3>9. ASSUME NEW option \in ToSet(d.choices[x.id])
          PROVE  /\ Prerequisite(x, option).level <= d.level
                 /\ Prerequisite(x, option).options \subseteq AllOptions(d)
      <4>1. /\ d.level >= Prerequisite(x, option).level
            /\ Prerequisite(x, option).options \subseteq SelectedIn(d, DOMAIN d.choices)
        BY <3>2 DEF PrerequisitesMet
      <4>2. option \in ToSet(x.options)
        <5>1. ToSet(d.choices[x.id]) \subseteq ToSet(x.options)
          <6>1. CASE x.options = <<>> /\ x.manual
            <7>1. d.choices[x.id] = <<>>
              BY <6>1, <3>2 DEF SelectionValid
            <7>2. ToSet(d.choices[x.id]) = {}
              BY <7>1 DEF ToSet
            <7>3. QED BY <7>2
          <6>2. CASE ~(x.options = <<>> /\ x.manual)
            BY <6>2, <3>2 DEF SelectionValid
          <6>3. QED BY <6>1, <6>2
        <5>2. QED BY <5>1
      <4>3. Prerequisite(x, option).level \in Level
        BY <3>1, <4>2, PrerequisiteAssumption
      <4>4. Prerequisite(x, option).level <= d.level
        BY <4>1, <4>3, <3>3 DEF Level
      <4>5. QED BY <4>1, <4>4, SameOptions
    <3>10. QED BY <3>5, <3>7, <3>8, <3>9
  <2>2. QED BY <2>1, <1>3 DEF ClassAnswers
<1>8. NothingForeign(d)
  BY <1>2, <1>3 DEF NothingForeign
<1>9. QED BY <1>5, <1>6, <1>7, <1>8 DEF ValidRuleChoices

LEMMA ServerTakesIdentity ==
  ASSUME NEW d, WithinOffer(d), RequestValid(d)
  PROVE  ValidIdentity(d)
<1>1. d \in DraftType
  BY OfferParts
<1>2. SelectionsResolve(d)
  BY DEF RequestValid
<1>3. (FromSrd(d.race) <=> IsSrdRace(d)) /\ (FromSrd(d.class) <=> IsSrdClass(d))
  BY <1>1, SameTables
<1>4. d.race # "none" /\ d.class # "none"
  BY <1>2, NotInTables DEF SelectionsResolve, IsSrdRace, IsSrdClass
<1>5. IsSrdRace(d) => ~Races[d.race].subraces
  BY <1>2, NotInTables DEF SelectionsResolve, IsSrdRace
<1>6. IsSrdClass(d) => (d.level >= Classes[d.class].subclassDecisionLevel <=> d.subclass # "none")
  BY <1>2 DEF SelectionsResolve, DecidesSubclass
<1>7. d.subclass = "srd" => IsSrdClass(d)
  BY <1>2 DEF SelectionsResolve
<1>8. QED BY <1>3, <1>4, <1>5, <1>6, <1>7 DEF ValidIdentity

LEMMA ServerTakesScores ==
  ASSUME NEW d, WithinOffer(d), RequestValid(d)
  PROVE  ValidScoreInput(d)
<1>1. d.mode \in {"calculated", "imported"}
  BY OfferParts, DraftFields
<1>2. ScoresInBounds(TypedScores(d))
  BY DEF RequestValid
<1>3. TypedScores(d) = IF d.mode = "imported" THEN d.imported ELSE d.base
  BY <1>1 DEF TypedScores
<1>4. ValidAbilityScores(TypedScores(d))
  <2>1. \A a \in Abilities : TypedScores(d)[a] \in 1 .. 30
    BY <1>2 DEF ScoresInBounds
  <2>2. \A n \in 1 .. 30 : 1 <= n /\ n <= 30
    OBVIOUS
  <2>3. QED BY <2>1, <2>2 DEF ValidAbilityScores
<1>5. d.race = "manual" => d.mode = "imported"
  BY DEF RequestValid, ManualPartsFit
<1>6. QED BY <1>3, <1>4, <1>5 DEF ValidScoreInput

LEMMA ServerTakesHitPoints ==
  ASSUME NEW d, WithinOffer(d), RequestValid(d)
  PROVE  ValidHitPoints(d)
<1>1. d \in DraftType
  BY OfferParts
<1>2. GainsFit(d)
  BY DEF RequestValid
<1>3. FromSrd(d.class) <=> IsSrdClass(d)
  BY <1>1, SameTables
<1>4. ASSUME NEW l \in DOMAIN d.gains
      PROVE  d.gains[l] \in 0 .. 20 /\ (IsSrdClass(d) => d.gains[l] <= Classes[d.class].hitDie)
  <2> DEFINE gain == d.gains[l]
             die == Classes[d.class].hitDie
             bound == IF IsSrdClass(d) THEN die ELSE 20
  <2>1. gain # 0 => gain \in 1 .. bound
    BY <1>2 DEF GainsFit
  <2>2. IsSrdClass(d) => die \in 6 .. 12
    BY ClassAssumption DEF IsSrdClass
  <2> HIDE DEF gain, die
  <2>3. CASE gain = 0
    BY <2>2, <2>3 DEF gain, die
  <2>4. CASE gain # 0 /\ IsSrdClass(d)
    <3>1. gain \in 1 .. die /\ die \in 6 .. 12
      BY <2>1, <2>2, <2>4
    <3>2. gain \in 0 .. 20 /\ gain <= die
      BY <3>1
    <3>3. QED BY <3>2 DEF gain, die
  <2>5. CASE gain # 0 /\ ~IsSrdClass(d)
    <3>1. gain \in 1 .. 20
      BY <2>1, <2>5
    <3>2. gain \in 0 .. 20
      BY <3>1
    <3>3. QED BY <3>2, <2>5 DEF gain, die
  <2>6. QED BY <2>3, <2>4, <2>5
<1>5. IsSrdClass(d) => DOMAIN d.gains = 2 .. d.level
  BY <1>2 DEF GainsFit
<1>6. QED BY <1>3, <1>4, <1>5 DEF ValidHitPoints

LEMMA ServerTakesManualParts ==
  ASSUME NEW d, WithinOffer(d), RequestValid(d)
  PROVE  ValidManualParts(d) /\ ValidAttacks(d)
<1>1. d \in DraftType
  BY OfferParts
<1>2. ManualPartsFit(d) /\ SpellAttackFits(d)
  BY DEF RequestValid
<1>3. d.class = "manual" => DOMAIN d.gains = {}
  <2>1. d.class = "manual" => ~IsSrdClass(d)
    BY NotInTables DEF IsSrdClass
  <2>2. QED BY <2>1, OfferParts DEF GainsOffered
<1>4. d.class = "manual" => d.defense.formula = "standard-unarmored"
  <2>1. AllowsFormula(d, d.defense.formula)
    BY OfferParts DEF DefenseOffered
  <2>2. QED BY <2>1, FormulasAre
<1>5. ValidManualParts(d)
  BY <1>2, <1>3, <1>4 DEF ValidManualParts, ManualPartsFit
<1>6. ValidAttacks(d)
  BY <1>1, <1>2, SameTables DEF ValidAttacks, SpellAttackFits
<1>7. QED BY <1>5, <1>6

LEMMA ServerTakesDefense ==
  ASSUME NEW d, WithinOffer(d), RequestValid(d)
  PROVE  ValidDefense(d)
<1>1. d \in DraftType /\ DefenseOffered(d)
  BY OfferParts
<1>2. DefenseFits(d) /\ SelectionsResolve(d)
  BY DEF RequestValid
<1>3. \A item : IsWorn(d, item) <=> Worn(d, item)
  BY DEF IsWorn, Worn
<1>4. d.defense.mode \in {"armor", "unarmored", "manual"} /\ d.defense.shield \in {Shield, "none"}
  BY <1>1, DefenseFields
<1>5. d.defense.shield = Shield => IsWorn(d, Shield)
  BY <1>2, <1>3, NoneIsNoItem DEF DefenseFits
<1>6. CASE d.defense.mode = "manual"
  <2>1. d.defense.armor = "none" /\ d.defense.shield = "none"
    BY <1>1, <1>6 DEF DefenseOffered
  <2>2. QED BY <2>1, <1>6 DEF ValidDefense
<1>7. CASE d.defense.mode = "armor"
  <2>1. d.defense.armor \in Armors /\ IsWorn(d, d.defense.armor)
    BY <1>2, <1>3, <1>7 DEF DefenseFits
  <2>2. QED BY <2>1, <1>4, <1>5, <1>7 DEF ValidDefense
<1>8. CASE d.defense.mode = "unarmored"
  <2>1. /\ \A armor \in Armors : ~IsWorn(d, armor)
        /\ d.defense.formula = "monk-unarmored-defense" => d.class = "monk" /\ d.defense.shield = "none"
        /\ d.defense.formula = "barbarian-unarmored-defense" => d.class = "barbarian"
        /\ d.defense.formula = "draconic-resilience" => d.class = "sorcerer" /\ d.subclass = "srd"
    BY <1>2, <1>3, <1>8 DEF DefenseFits
  <2>2. d.defense.formula = "draconic-resilience" => SubclassIndex(d) = "sorcerer"
    BY <2>1 DEF SubclassIndex
  <2>3. QED BY <2>1, <2>2, <1>4, <1>5, <1>8 DEF ValidDefense
<1>9. QED BY <1>4, <1>6, <1>7, <1>8

(* The same scores: the server adds a Half-Elf's bonus once to a selected  *)
(* ability, the client as often as it is selected; none is selected twice. *)
LEMMA SameBonus ==
  ASSUME NEW d, d \in DraftType, Distinct(d), IsSrdRace(d), NEW a \in Abilities
  PROVE  BonusTo(d, a) = Races[d.race].bonuses[a] + (IF <<a>> \in ToSet(Options(d, HalfElfAbilities)) THEN 1 ELSE 0)
<1> DEFINE s == Selections(d, HalfElfAbilities)
           T == { i \in DOMAIN s : s[i] = <<a>> }
<1>1. s \in Seq(Option) /\ s = Options(d, HalfElfAbilities)
  BY SelectionsTyped
<1>2. IsInjective(s)
  <2>1. CASE HalfElfAbilities \in DOMAIN d.choices
    BY <2>1 DEF Selections, Distinct
  <2>2. CASE HalfElfAbilities \notin DOMAIN d.choices
    BY <2>2 DEF Selections, IsInjective
  <2>3. QED BY <2>1, <2>2
<1>3. BonusTo(d, a) = Races[d.race].bonuses[a] + Cardinality(T)
  BY DEF BonusTo
<1> HIDE DEF s
<1>4. CASE <<a>> \in ToSet(s)
  <2>1. PICK i \in DOMAIN s : s[i] = <<a>>
    BY <1>4 DEF ToSet
  <2>2. T = {i}
    BY <2>1, <1>2 DEF IsInjective
  <2>3. Cardinality(T) = 1
    BY <2>2, FS_Singleton
  <2>4. QED BY <2>3, <1>1, <1>3, <1>4
<1>5. CASE <<a>> \notin ToSet(s)
  <2>1. T = {}
    BY <1>5 DEF ToSet
  <2>2. Cardinality(T) = 0
    BY <2>1, FS_EmptySet
  <2>3. QED BY <2>2, <1>1, <1>3, <1>5
<1>6. QED BY <1>4, <1>5

LEMMA SameScores ==
  ASSUME NEW d, WithinOffer(d)
  PROVE  ResolvedScores(d) = FinalScores(d) /\ ExpectedScores(d) = ScoresOfRace(d)
<1>1. d \in DraftType /\ Distinct(d)
  BY OfferParts
<1>2. d.base \in AbilityScores /\ d.mode \in {"calculated", "imported"}
  BY <1>1, DraftFields
<1>3. CASE d.mode = "imported"
  BY <1>3 DEF ResolvedScores, FinalScores, ExpectedScores, ScoresOfRace
<1>4. CASE d.mode # "imported"
  <2>1. ScoresOfRace(d) = [a \in Abilities |-> d.base[a] + BonusTo(d, a)]
    BY <1>4 DEF ScoresOfRace
  <2>2. RaceScores(d) = ScoresOfRace(d)
    <3>1. CASE IsSrdRace(d)
      <4>1. FromSrd(d.race)
        BY <3>1, <1>1, SameTables
      <4>2. RaceScores(d) = [a \in Abilities |-> d.base[a] + Races[d.race].bonuses[a]
                               + (IF <<a>> \in ToSet(Options(d, HalfElfAbilities)) THEN 1 ELSE 0)]
        BY <4>1 DEF RaceScores
      <4>3. ASSUME NEW a \in Abilities
            PROVE  d.base[a] + Races[d.race].bonuses[a]
                     + (IF <<a>> \in ToSet(Options(d, HalfElfAbilities)) THEN 1 ELSE 0)
                   = d.base[a] + BonusTo(d, a)
        <5> DEFINE own == d.base[a]
                   race == Races[d.race].bonuses[a]
                   more == IF <<a>> \in ToSet(Options(d, HalfElfAbilities)) THEN 1 ELSE 0
                   bonus == BonusTo(d, a)
        <5>1. own \in Int /\ race \in 0 .. 2 /\ more \in Nat
          BY <1>2, <3>1, RaceAssumption DEF AbilityScores, IsSrdRace
        <5>2. bonus = race + more
          BY <1>1, <3>1, SameBonus
        <5> HIDE DEF own, race, more, bonus
        <5>3. own + race + more = own + bonus
          BY <5>1, <5>2
        <5>4. QED BY <5>3 DEF own, race, more, bonus
      <4>4. QED BY <2>1, <4>2, <4>3
    <3>2. CASE ~IsSrdRace(d)
      <4>1. ~FromSrd(d.race)
        BY <3>2, <1>1, SameTables
      <4>2. RaceScores(d) = d.base
        BY <4>1 DEF RaceScores
      <4>3. ASSUME NEW a \in Abilities PROVE d.base[a] + BonusTo(d, a) = d.base[a]
        <5>1. BonusTo(d, a) = 0
          BY <3>2 DEF BonusTo
        <5>2. d.base[a] \in Int
          BY <1>2 DEF AbilityScores
        <5>3. QED BY <5>1, <5>2
      <4>4. d.base = [a \in Abilities |-> d.base[a]]
        BY <1>2 DEF AbilityScores
      <4>5. QED BY <2>1, <4>2, <4>3, <4>4
    <3>3. QED BY <3>1, <3>2
  <2>3. ExpectedScores(d) = ScoresOfRace(d)
    BY <1>4, <2>2 DEF ExpectedScores
  <2> DEFINE options == IF FromSrd(d.class) THEN Options(d, ImprovementId[d.class]) ELSE <<>>
             Bonus(a) == IF options = <<>> THEN 0 ELSE RaisedBy(options[1], a)
  <2>4. options = ImprovementsOf(d)
    BY <1>1, SameTables, SelectionsTyped DEF ImprovementsOf
  <2>5. ASSUME NEW a \in Abilities
        PROVE  Capped(RaceScores(d)[a], Bonus(a)) = FinalScores(d)[a]
    <3>1. Bonus(a) = Improvement(d, a)
      BY <2>4 DEF Improvement
    <3>2. FinalScores(d)[a] = IF Improvement(d, a) = 0 THEN ScoresOfRace(d)[a]
                              ELSE AtMost(20, ScoresOfRace(d)[a] + Improvement(d, a))
      BY <1>4 DEF FinalScores
    <3> DEFINE score == ScoresOfRace(d)[a]
               bonus == Improvement(d, a)
    <3>3. score \in Int /\ bonus \in Nat
      BY <1>1, FinalScoresTyped, ImprovementTyped DEF AbilityScores
    <3> HIDE DEF score, bonus
    <3>4. Capped(score, bonus) = IF bonus = 0 THEN score ELSE AtMost(20, score + bonus)
      BY <3>3 DEF Capped, AtMost
    <3>5. QED BY <3>1, <3>2, <3>4, <2>2 DEF score, bonus
  <2>6. ResolvedScores(d) = [a \in Abilities |-> Capped(RaceScores(d)[a], Bonus(a))]
    BY <1>4 DEF ResolvedScores
  <2>7. FinalScores(d) = [a \in Abilities |-> FinalScores(d)[a]]
    BY <1>1, FinalScoresTyped DEF AbilityScores
  <2> HIDE DEF Bonus
  <2>8. ResolvedScores(d) = FinalScores(d)
    BY <2>5, <2>6, <2>7
  <2>9. QED BY <2>3, <2>8
<1>5. QED BY <1>3, <1>4

(* A cantrip is granted at most once by the race and once by the circle.   *)
LEMMA GrantedOnce ==
  ASSUME NEW d, WithinOffer(d), NEW id \in {HighElfCantrip, LandCantrip}
  PROVE  Len(Selections(d, id)) <= 1
<1>1. d \in DraftType /\ AnswersOffered(d)
  BY OfferParts
<1>2. CASE id \notin DOMAIN d.choices
  <2>1. Selections(d, id) = <<>>
    BY <1>2 DEF Selections
  <2>2. Len(<<>>) = 0
    BY EmptySeq
  <2>3. QED BY <2>1, <2>2
<1>3. CASE id \in DOMAIN d.choices
  <2>1. PICK z \in AvailableChoices(d) : z.id = id
    BY <1>1, <1>3 DEF AnswersOffered
  <2>2. Len(d.choices[id]) <= z.count /\ Len(d.choices[id]) \in Nat
    BY <1>1, <1>3, <2>1, SelectionsAreSequences DEF AnswersOffered
  <2>3. z.count \in Nat
    BY <1>1, <2>1, OffersTyped
  <2>4. z.count <= 1
    <3>1. CASE \E x \in RaceChoicesOf(d.race) : z = RaceOffer(x)
      <4>1. PICK x \in RaceChoicesOf(d.race) : z = RaceOffer(x)
        BY <3>1
      <4>2. d.race \in DOMAIN Races /\ x \in Races[d.race].choices
        BY <4>1 DEF RaceChoicesOf
      <4>3. x.id = id /\ x.count = z.count
        BY <2>1, <4>1 DEF RaceOffer
      <4>4. x.id = HighElfCantrip
        BY <4>2, <4>3, RaceAssumption
      <4>5. x.count = 1
        BY <4>2, <4>4, RaceAssumption
      <4>6. QED BY <4>3, <4>5
    <3>2. CASE \E x \in ClassChoicesFor(d) : z = ClassOffer(d, x)
      <4>1. PICK x \in ClassChoicesFor(d) : z = ClassOffer(d, x)
        BY <3>2
      <4>2. d.class \in DOMAIN Classes /\ x \in CreationChoices[d.class]
        BY <4>1, ClassChoicesAre
      <4>3. x.id = id /\ x.counts[d.level] = z.count
        BY <2>1, <4>1 DEF ClassOffer
      <4>4. x.id = LandCantrip
        BY <4>2, <4>3, CreationAssumption
      <4>5. d.level \in Level
        BY <1>1, DraftFields
      <4>6. x.counts[d.level] <= 1
        BY <4>2, <4>4, <4>5, CreationAssumption
      <4>7. QED BY <4>3, <4>6
    <3>3. QED BY <2>1, <3>1, <3>2, AvailableIs
  <2>5. Selections(d, id) = d.choices[id]
    BY <1>3 DEF Selections
  <2>6. QED BY <2>2, <2>3, <2>4, <2>5
<1>4. QED BY <1>2, <1>3

(* Where a sequence of two parts of at most one element holds m.           *)
LEMMA HeldIn ==
  ASSUME NEW S, NEW s \in Seq(S), NEW t \in Seq(S), Len(s) <= 1, Len(t) <= 1, NEW m \in S,
         NEW i \in DOMAIN (s \o t), (s \o t)[i] = m
  PROVE  (s = <<m>> /\ i = 1) \/ (t = <<m>> /\ i = Len(s) + 1)
<1>1. Len(s) \in Nat /\ Len(t) \in Nat /\ DOMAIN s = 1 .. Len(s) /\ DOMAIN t = 1 .. Len(t)
      /\ s \in [1 .. Len(s) -> S] /\ t \in [1 .. Len(t) -> S]
  BY LenProperties
<1>2. /\ s \o t \in Seq(S) /\ Len(s \o t) = Len(s) + Len(t)
      /\ \A k \in 1 .. Len(s) + Len(t) : (s \o t)[k] = IF k <= Len(s) THEN s[k] ELSE t[k - Len(s)]
  BY ConcatProperties
<1>3. i \in 1 .. Len(s) + Len(t)
  <2>1. DOMAIN (s \o t) = 1 .. Len(s \o t)
    BY <1>2, LenProperties
  <2>2. QED BY <2>1, <1>2
<1>4. CASE i <= Len(s)
  <2>1. Len(s) = 1 /\ i = 1
    BY <1>1, <1>3, <1>4
  <2>2. s[1] = m
    BY <2>1, <1>2, <1>3, <1>4
  <2>3. s = <<m>>
    <3>1. s \in [1 .. 1 -> S]
      BY <1>1, <2>1
    <3>2. <<m>> \in [1 .. 1 -> S] /\ <<m>>[1] = m
      OBVIOUS
    <3>3. \A k \in 1 .. 1 : k = 1
      OBVIOUS
    <3>4. QED BY <3>1, <3>2, <3>3, <2>2
  <2>4. QED BY <2>1, <2>3
<1>5. CASE ~(i <= Len(s))
  <2>1. Len(t) = 1 /\ i = Len(s) + 1 /\ i - Len(s) = 1
    BY <1>1, <1>3, <1>5
  <2>2. t[1] = m
    BY <2>1, <1>2, <1>3, <1>5
  <2>3. t = <<m>>
    <3>1. t \in [1 .. 1 -> S]
      BY <1>1, <2>1
    <3>2. <<m>> \in [1 .. 1 -> S] /\ <<m>>[1] = m
      OBVIOUS
    <3>3. \A k \in 1 .. 1 : k = 1
      OBVIOUS
    <3>4. QED BY <3>1, <3>2, <3>3, <2>2
  <2>4. QED BY <2>1, <2>3
<1>6. QED BY <1>4, <1>5

(* No cantrip is granted twice: the client counts the sources whose answer *)
(* is the cantrip, the server the places of the cantrip in the list.       *)
Mending == <<"mending">>

LEMMA GrantedAre ==
  ASSUME NEW d, WithinOffer(d)
  PROVE  /\ Selections(d, HighElfCantrip) \in Seq(Option) /\ Len(Selections(d, HighElfCantrip)) <= 1
         /\ Selections(d, LandCantrip) \in Seq(Option) /\ Len(Selections(d, LandCantrip)) <= 1
         /\ Granted(d) = Selections(d, HighElfCantrip) \o Selections(d, LandCantrip)
         /\ Granted(d) \in Seq(Option)
<1>1. d \in DraftType
  BY OfferParts
<1>2. /\ Selections(d, HighElfCantrip) \in Seq(Option) /\ Selections(d, LandCantrip) \in Seq(Option)
      /\ Selections(d, HighElfCantrip) = Options(d, HighElfCantrip)
      /\ Selections(d, LandCantrip) = Options(d, LandCantrip)
  BY <1>1, SelectionsTyped
<1>3. Granted(d) = Selections(d, HighElfCantrip) \o Selections(d, LandCantrip)
  BY <1>2 DEF Granted
<1>4. Granted(d) \in Seq(Option)
  BY <1>2, <1>3, ConcatProperties
<1>5. QED BY <1>2, <1>3, <1>4, GrantedOnce

LEMMA AtMostOne ==
  ASSUME NEW T, NEW k, T \subseteq {k}
  PROVE  Cardinality(T) \in Nat /\ Cardinality(T) <= 1
<1>1. IsFiniteSet({k}) /\ Cardinality({k}) = 1
  BY FS_Singleton
<1>2. IsFiniteSet(T) /\ Cardinality(T) <= Cardinality({k})
  BY <1>1, FS_Subset
<1>3. QED BY <1>1, <1>2, FS_CardinalityType

LEMMA MendingOnce ==
  ASSUME NEW d, WithinOffer(d), CantripsDistinct(d)
  PROVE  Cardinality({ i \in DOMAIN Granted(d) : Granted(d)[i] = Mending })
           + (IF d.spells.mending THEN 1 ELSE 0) < 2
<1> DEFINE s == Selections(d, HighElfCantrip)
           t == Selections(d, LandCantrip)
           T == { i \in DOMAIN (s \o t) : (s \o t)[i] = Mending }
           sources == { id \in GrantedIds(d) : Selections(d, id) = << Mending >> }
           own == IF d.spells.mending THEN 1 ELSE 0
<1>1. /\ s \in Seq(Option) /\ Len(s) <= 1 /\ t \in Seq(Option) /\ Len(t) <= 1
      /\ Granted(d) = s \o t
  BY GrantedAre
<1>2. Cardinality(sources) + own <= 1
  BY DEF CantripsDistinct, Mending
<1>3. own \in {0, 1}
  OBVIOUS
<1>4. HighElfCantrip # LandCantrip
  BY DEF HighElfCantrip, LandCantrip
<1>5. << Mending >> # <<>>
  OBVIOUS
<1>6. /\ HighElfCantrip \in sources <=> s = << Mending >>
      /\ LandCantrip \in sources <=> t = << Mending >>
      /\ sources \subseteq {HighElfCantrip, LandCantrip}
  BY <1>5 DEF GrantedIds
<1> HIDE DEF s, t, sources, own
<1>7. ASSUME NEW i \in T
      PROVE  (s = << Mending >> /\ i = 1) \/ (t = << Mending >> /\ i = Len(s) + 1)
  <2>1. i \in DOMAIN (s \o t) /\ (s \o t)[i] = Mending
    OBVIOUS
  <2>2. s \o t \in Seq(Option)
    BY <1>1, ConcatProperties
  <2>3. Mending \in Option
    BY <2>1, <2>2, ElementOfSeq, LenProperties
  <2>4. QED BY <1>1, <2>1, <2>3, HeldIn
<1>8. CASE s = << Mending >> /\ t = << Mending >>
  <2>1. sources = {HighElfCantrip, LandCantrip}
    BY <1>6, <1>8
  <2>2. Cardinality(sources) = 2
    <3>1. IsFiniteSet({HighElfCantrip}) /\ Cardinality({HighElfCantrip}) = 1
      BY FS_Singleton
    <3>2. Cardinality({HighElfCantrip} \cup {LandCantrip}) = 1 + 1
      BY <3>1, <1>4, FS_AddElement
    <3>3. {HighElfCantrip} \cup {LandCantrip} = sources
      BY <2>1
    <3>4. QED BY <3>2, <3>3
  <2>3. QED BY <2>2, <1>2, <1>3
<1>9. CASE s = << Mending >> /\ t # << Mending >>
  <2>1. sources = {HighElfCantrip}
    BY <1>6, <1>9
  <2>2. Cardinality(sources) = 1
    BY <2>1, FS_Singleton
  <2>3. own = 0
    BY <2>2, <1>2, <1>3
  <2>4. T \subseteq {1}
    BY <1>7, <1>9
  <2> HIDE DEF T
  <2>5. Cardinality(T) \in Nat /\ Cardinality(T) <= 1
    BY <2>4, AtMostOne
  <2>6. Cardinality(T) + own < 2
    BY <2>3, <2>5
  <2>7. QED BY <2>6, <1>1 DEF T, own
<1>10. CASE s # << Mending >> /\ t = << Mending >>
  <2>1. sources = {LandCantrip}
    BY <1>6, <1>10
  <2>2. Cardinality(sources) = 1
    BY <2>1, FS_Singleton
  <2>3. own = 0
    BY <2>2, <1>2, <1>3
  <2>4. T \subseteq {Len(s) + 1}
    BY <1>7, <1>10
  <2> HIDE DEF T
  <2>5. Cardinality(T) \in Nat /\ Cardinality(T) <= 1
    BY <2>4, AtMostOne
  <2>6. Cardinality(T) + own < 2
    BY <2>3, <2>5
  <2>7. QED BY <2>6, <1>1 DEF T, own
<1>11. CASE s # << Mending >> /\ t # << Mending >>
  <2>1. T = {}
    BY <1>7, <1>11
  <2>2. Cardinality(T) = 0
    BY <2>1, FS_EmptySet
  <2> HIDE DEF T
  <2>3. Cardinality(T) + own < 2
    BY <2>2, <1>3
  <2>4. QED BY <2>3, <1>1 DEF T, own
<1>12. QED BY <1>8, <1>9, <1>10, <1>11

(* What the server prepares always, the client does.                       *)
LEMMA AlwaysTheSame ==
  ASSUME NEW d, WithinOffer(d), IsSrdClass(d), Automatic(d)
  PROVE  AlwaysPrepares(d)
<1>1. d \in DraftType /\ AnswersOffered(d)
  BY OfferParts
<1>2. d.subclass = "srd" /\ d.level >= Classes[d.class].alwaysFrom
  BY SubclassIs DEF Automatic
<1>3. ASSUME d.class = "druid" PROVE ForestLand \in ToSet(SelectedFor(d, LandCircle))
  <2>1. ForestLand \in AllOptions(d)
    BY <1>3 DEF Automatic, ForestLand
  <2>2. PICK id \in DOMAIN d.choices : ForestLand \in ToSet(d.choices[id])
    BY <2>1 DEF AllOptions
  <2>3. PICK z \in AvailableChoices(d) : z.id = id
    BY <1>1 DEF AnswersOffered
  <2>4. ForestLand \in ToSet(z.options)
    BY <1>1, <2>2, <2>3 DEF AnswersOffered
  <2>5. z.id = LandCircle
    <3>1. CASE \E x \in RaceChoicesOf(d.race) : z = RaceOffer(x)
      <4>1. PICK x \in RaceChoicesOf(d.race) : z = RaceOffer(x)
        BY <3>1
      <4>2. d.race \in DOMAIN Races /\ x \in Races[d.race].choices
        BY <4>1 DEF RaceChoicesOf
      <4>3. ForestLand \in ToSet(x.options)
        BY <2>4, <4>1 DEF RaceOffer
      <4>4. ForestLand \notin ToSet(x.options)
        BY <4>2, RaceAssumption
      <4>5. QED BY <4>3, <4>4
    <3>2. CASE \E x \in ClassChoicesFor(d) : z = ClassOffer(d, x)
      <4>1. PICK x \in ClassChoicesFor(d) : z = ClassOffer(d, x)
        BY <3>2
      <4>2. d.class \in DOMAIN Classes /\ x \in CreationChoices[d.class]
        BY <4>1, ClassChoicesAre
      <4>3. x.id = z.id /\ ForestLand \in ToSet(ClassOptions(d, x))
        BY <2>4, <4>1 DEF ClassOffer
      <4>4. ForestLand \in ToSet(x.options)
        BY <4>2, <4>3, ClassOptionsAre
      <4>5. QED BY <4>2, <4>3, <4>4, CreationAssumption
    <3>3. QED BY <3>1, <3>2, AvailableIs
  <2>6. QED BY <2>2, <2>3, <2>5 DEF SelectedFor
<1>4. QED BY <1>2, <1>3 DEF AlwaysPrepares, HasSubclassFrom, ForestLand

(* Both sides agree on who casts.                                          *)
LEMMA SameCasters ==
  ASSUME NEW d \in DraftType
  PROVE  /\ IsCaster(d) <=> IsSrdClass(d) /\ Casts(d.class, d.level)
         /\ IsCaster(d) => SpellMode(d) = CastingOf(d).mode /\ SpellMode(d) # "none"
         /\ ~IsCaster(d) => SpellMode(d) = "none"
<1>1. IsCaster(d) <=> IsSrdClass(d) /\ Casts(d.class, d.level)
  BY SameTables DEF IsCaster, CastingOf, Casts
<1>2. ASSUME IsCaster(d) PROVE SpellMode(d) = CastingOf(d).mode /\ SpellMode(d) # "none"
  <2>1. SpellMode(d) = CastingOf(d).mode
    BY <1>1, <1>2 DEF SpellMode, CastingOf
  <2>2. ASSUME CastingOf(d).mode = "none" PROVE FALSE
    <3>1. Classes[d.class].spellcasting.since = 6
      BY <2>2, <1>1, <1>2, ClassAssumption DEF CastingOf, IsSrdClass
    <3>2. d.level >= 6 /\ d.level \in 1 .. 5
      BY <3>1, <1>1, <1>2, DraftFields DEF Casts, Level
    <3>3. QED BY <3>2
  <2>3. QED BY <2>1, <2>2
<1>3. ~IsCaster(d) => SpellMode(d) = "none"
  BY <1>1 DEF SpellMode
<1>4. QED BY <1>1, <1>2, <1>3

(* At a level without spells nothing is learned, which is what the server  *)
(* expects there too.                                                      *)
LEMMA ServerTakesKnown ==
  ASSUME NEW d, WithinOffer(d), IsCaster(d), SpellsResolve(d, FinalScores(d)),
         d.spells.mode \in {"known", "pact-known"}
  PROVE  KnownCounts(d)
<1>1. d \in DraftType /\ SpellsOffered(d)
  BY OfferParts
<1>2. d.class \in DOMAIN Classes /\ d.level \in Level
  BY <1>1, SameCasters, DraftFields DEF IsSrdClass
<1>3. Classes[d.class].spellcasting \in Spellcasting
  BY <1>2, ClassAssumption
<1>4. \A l \in LearningLevels(d) : d.spells.learned[l] = WantedLearned(d, l)
  BY DEF SpellsResolve
<1>5. ASSUME NEW l \in 1 .. d.level
      PROVE  d.spells.learned[l]
               = AtLeast(0, CountAt(CastingOf(d).spellsKnown, l)
                              - IF l = 1 THEN 0 ELSE CountAt(CastingOf(d).spellsKnown, l - 1))
  <2> DEFINE now == CountAt(CastingOf(d).spellsKnown, l)
             before == IF l = 1 THEN 0 ELSE CountAt(CastingOf(d).spellsKnown, l - 1)
  <2>1. l \in Level /\ l <= d.level /\ (l # 1 => l - 1 \in Level)
    BY <1>2 DEF Level
  <2>2. now = SpellsKnown(d.class, l) /\ before = IF l = 1 THEN 0 ELSE SpellsKnown(d.class, l - 1)
    BY DEF SpellsKnown, CastingOf
  <2>3. CASE Casts(d.class, l)
    <3>1. l \in LearningLevels(d)
      BY <2>1, <2>3 DEF LearningLevels
    <3>2. d.spells.learned[l] = WantedLearned(d, l)
      BY <3>1, <1>4
    <3>3. WantedLearned(d, l) = AtLeast(0, SpellsKnown(d.class, l) - IF l = 1 THEN 0 ELSE SpellsKnown(d.class, l - 1))
      BY DEF WantedLearned
    <3>4. QED BY <3>2, <3>3, <2>2
  <2>4. CASE ~Casts(d.class, l)
    <3>1. l \notin LearningLevels(d)
      BY <2>4 DEF LearningLevels
    <3>2. d.spells.learned \in [Level -> Nat]
      BY <1>1, DraftFields, SpellFields
    <3>3. d.spells.learned[l] = 0
      <4>1. ~(d.spells.learned[l] > 0)
        BY <3>1, <2>1, <1>1 DEF SpellsOffered, LearnedAt
      <4>2. d.spells.learned[l] \in Nat
        BY <2>1, <3>2
      <4>3. QED BY <4>1, <4>2
    <3>4. now = 0
      BY <1>2, <2>1, <2>2, <2>4, CastingAssumption
    <3>5. before \in Nat
      <4>1. CastingOf(d).spellsKnown \in [Level -> Nat \cup {Null}]
        BY <1>3 DEF CastingOf, Spellcasting
      <4>2. QED BY <4>1, <2>1, CountsTyped
    <3> HIDE DEF now, before
    <3>6. AtLeast(0, now - before) = 0
      BY <3>4, <3>5 DEF AtLeast
    <3>7. QED BY <3>3, <3>6 DEF now, before
  <2>5. QED BY <2>3, <2>4
<1>6. QED BY <1>5 DEF KnownCounts

(* A spellbook holds six spells and two for each level gained.             *)
LEMMA ServerTakesBook ==
  ASSUME NEW d, WithinOffer(d), IsCaster(d), SpellsResolve(d, FinalScores(d)),
         d.spells.mode = "spellbook-prepared"
  PROVE  BookCounts(d)
<1>1. d \in DraftType /\ SpellsOffered(d)
  BY OfferParts
<1>2. d.class \in DOMAIN Classes /\ d.level \in Level
  BY <1>1, SameCasters, DraftFields DEF IsSrdClass
<1>3. /\ \A l \in LearningLevels(d) : d.spells.learned[l] = WantedLearned(d, l)
      /\ d.spells.prepared <= Learned(d.spells)
      /\ d.spells.mode = SpellMode(d)
  BY DEF SpellsResolve
<1>4. d.class = "wizard" /\ Casts(d.class, 1) /\ Classes[d.class].spellcasting.since \in 1 .. 6
  <2>1. Classes[d.class].spellcasting.mode = "spellbook-prepared"
    BY <1>3, SpellModeTyped
  <2>2. Classes[d.class].spellcasting \in Spellcasting
    BY <1>2, ClassAssumption
  <2>3. QED BY <2>1, <2>2, <1>2, ClassAssumption DEF Spellcasting
<1>5. \A l \in Level : Casts(d.class, l)
  BY <1>4 DEF Casts, Level
<1>6. LearningLevels(d) = 1 .. d.level
  <2>1. LearningLevels(d) = { l \in Level : l <= d.level /\ Casts(d.class, l) }
    BY DEF LearningLevels
  <2>2. { l \in Level : l <= d.level } = 1 .. d.level
    BY <1>2 DEF Level
  <2>3. QED BY <2>1, <2>2, <1>5
<1>7. ASSUME NEW l \in 1 .. d.level PROVE d.spells.learned[l] = IF l = 1 THEN 6 ELSE 2
  <2>1. WantedLearned(d, l) = IF l = 1 THEN SpellbookSize(1) ELSE SpellbookAdditions
    BY DEF WantedLearned
  <2>2. SpellbookSize(1) = 6 /\ SpellbookAdditions = 2
    BY DEF SpellbookSize, SpellbookAdditions
  <2>3. QED BY <2>1, <2>2, <1>3, <1>6
<1>8. \A l \in Level : l > d.level => d.spells.learned[l] = 0
  <2>1. d.spells.learned \in [Level -> Nat]
    BY <1>1, DraftFields, SpellFields
  <2>2. ASSUME NEW l \in Level, l > d.level PROVE d.spells.learned[l] = 0
    <3>1. l \notin 1 .. d.level
      BY <2>2, <1>2 DEF Level
    <3>2. ~(d.spells.learned[l] > 0)
      BY <3>1, <1>1, <1>6 DEF SpellsOffered, LearnedAt
    <3>3. d.spells.learned[l] \in Nat
      BY <2>1
    <3>4. QED BY <3>2, <3>3
  <2>3. QED BY <2>2
<1>9. Learned(d.spells) = SpellbookSize(d.level)
  <2> DEFINE f == d.spells.learned
             n == d.level
  <2>1. /\ n \in 1 .. 5
        /\ \A l \in 1 .. n : f[l] = IF l = 1 THEN 6 ELSE 2
        /\ \A l \in 1 .. 5 : l > n => f[l] = 0
    BY <1>2, <1>7, <1>8 DEF Level
  <2>2. Learned(d.spells) = f[1] + f[2] + f[3] + f[4] + f[5]
    BY DEF Learned, SumOverLevels
  <2> HIDE DEF f, n
  <2>3. /\ f[1] = 6 /\ f[2] = (IF n >= 2 THEN 2 ELSE 0) /\ f[3] = (IF n >= 3 THEN 2 ELSE 0)
        /\ f[4] = (IF n >= 4 THEN 2 ELSE 0) /\ f[5] = (IF n >= 5 THEN 2 ELSE 0)
    BY <2>1
  <2>4. f[1] + f[2] + f[3] + f[4] + f[5] = 6 + 2 * (n - 1)
    BY <2>1, <2>3
  <2>5. QED BY <2>2, <2>4 DEF SpellbookSize, n
<1>10. d.spells.learned[1] = 6
  BY <1>2, <1>7 DEF Level
<1>11. \A l \in 2 .. d.level : d.spells.learned[l] = 2
  <2>1. \A l \in 2 .. d.level : l \in 1 .. d.level /\ l # 1
    BY <1>2 DEF Level
  <2>2. QED BY <2>1, <1>7
<1>12. QED BY <1>3, <1>9, <1>10, <1>11 DEF BookCounts

LEMMA SamePreparedLimit ==
  ASSUME NEW d, WithinOffer(d), IsCaster(d)
  PROVE  PreparedLimit(d) = PreparedSpellCount(d.class, FinalScores(d)[CastingAbility[d.class]], d.level)
  BY SameScores DEF PreparedLimit, PreparedSpellCount, CastingOf

LEMMA ServerTakesSpells ==
  ASSUME NEW d, WithinOffer(d), ContractAccepts(d)
  PROVE  ValidSpells(d)
<1>1. d \in DraftType
  BY OfferParts
<1>2. IsSrdClass(d) => SpellsResolve(d, FinalScores(d))
  BY DEF ContractAccepts, SheetBuilds
<1>3. CASE ~IsCaster(d)
  <2>1. SpellMode(d) = "none"
    BY <1>1, <1>3, SameCasters
  <2>2. d.spells.mode = SpellMode(d)
    BY OfferParts DEF SpellsOffered
  <2>3. QED BY <2>1, <2>2, <1>3 DEF ValidSpells
<1>4. CASE IsCaster(d)
  <2>1. IsSrdClass(d) /\ SpellsResolve(d, FinalScores(d))
    BY <1>1, <1>2, <1>4, SameCasters
  <2>2. d.spells.mode = CastingOf(d).mode /\ d.spells.mode # "none"
        /\ d.spells.mode \in {"known", "pact-known", "prepared", "spellbook-prepared"}
    BY <1>1, <1>4, <2>1, SameCasters, SpellModeTyped DEF SpellsResolve
  <2>3. /\ d.spells.cantrips = CantripsKnown(d.class, d.level)
        /\ PreparesExactly(d, FinalScores(d))
        /\ d.spells.expanded => OffersExpanded(d)
        /\ ~d.spells.repeated /\ CantripsDistinct(d)
        /\ ~(d.spells.listed /\ AlwaysPrepares(d))
    BY <2>1, <2>2 DEF SpellsResolve
  <2>4. d.spells.cantrips = CountAt(CastingOf(d).cantripsKnown, d.level)
    BY <2>3 DEF CantripsKnown, CastingOf
  <2>5. d.spells.mode \in {"prepared", "spellbook-prepared"} => d.spells.prepared = PreparedLimit(d)
    <3>1. d.spells.mode \in {"prepared", "spellbook-prepared"} => PreparesSpells(d.class)
      BY <2>2 DEF PreparesSpells, CastingOf
    <3>2. QED BY <3>1, <2>3, <1>4, SamePreparedLimit DEF PreparesExactly
  <2>6. d.spells.expanded => SubclassIndex(d) = d.class /\ d.level >= Classes[d.class].expandedFrom
    BY <2>1, <2>3, SubclassIs DEF OffersExpanded, HasSubclassFrom
  <2>7. ~(d.spells.listed /\ Automatic(d))
    BY <2>1, <2>3, AlwaysTheSame
  <2>8. NoDuplicates(d)
    BY <2>3, <2>7, MendingOnce DEF NoDuplicates, Mending
  <2>9. CASE d.spells.mode \in {"known", "pact-known"}
    <3>1. KnownCounts(d)
      BY <1>4, <2>1, <2>9, ServerTakesKnown
    <3>2. QED BY <3>1, <1>4, <2>2, <2>4, <2>6, <2>8, <2>9 DEF ValidSpells
  <2>10. CASE d.spells.mode = "spellbook-prepared"
    <3>1. BookCounts(d) /\ d.spells.prepared = PreparedLimit(d)
      BY <1>4, <2>1, <2>5, <2>10, ServerTakesBook
    <3>2. QED BY <3>1, <1>4, <2>2, <2>4, <2>6, <2>8, <2>10 DEF ValidSpells
  <2>11. CASE d.spells.mode = "prepared"
    <3>1. d.spells.prepared = PreparedLimit(d)
      BY <2>5, <2>11
    <3>2. QED BY <3>1, <1>4, <2>2, <2>4, <2>6, <2>8, <2>11 DEF ValidSpells
  <2>12. QED BY <2>2, <2>9, <2>10, <2>11
<1>5. QED BY <1>3, <1>4

(* The server refuses what the contract accepts in three cases only.       *)
Disagrees(d) ==
  \/ d.mode = "calculated" /\ FinalScores(d) # ScoresOfRace(d)
  \/ d.spells.mode = "none" /\ GrantedIds(d) # {}
  \/ d.class = "manual" /\ ~ScoresInBounds(FinalScores(d))

LEMMA ServerTakesTheRest ==
  ASSUME NEW d, WithinOffer(d), ContractAccepts(d), ~Disagrees(d)
  PROVE  ServerAccepts(d)
<1>1. d \in DraftType /\ RequestValid(d) /\ SheetBuilds(d)
  BY OfferParts DEF ContractAccepts
<1>2. ResolvedScores(d) = FinalScores(d) /\ ExpectedScores(d) = ScoresOfRace(d)
  BY SameScores
<1>3. ValidRequest(d)
  BY <1>1, ServerTakesIdentity, ServerTakesScores, ServerTakesChoices, ServerTakesHitPoints,
     ServerTakesManualParts, ServerTakesDefense, ServerTakesSpells DEF ValidRequest
<1>4. ValidAbilityScores(ResolvedScores(d))
  <2>1. ScoresInBounds(FinalScores(d))
    <3>1. d.class = "manual" \/ IsSrdClass(d)
      BY <1>1 DEF RequestValid, SelectionsResolve
    <3>2. QED BY <3>1, <1>1 DEF SheetBuilds, Disagrees
  <2>2. \A n \in 1 .. 30 : 1 <= n /\ n <= 30
    OBVIOUS
  <2>3. \A a \in Abilities : FinalScores(d)[a] \in 1 .. 30
    BY <2>1 DEF ScoresInBounds
  <2>4. QED BY <2>2, <2>3, <1>2 DEF ValidAbilityScores
<1>5. ResolvedScores(d) = ExpectedScores(d)
  <2>1. d.mode \in {"calculated", "imported"}
    BY <1>1, DraftFields
  <2>2. d.mode = "imported" => FinalScores(d) = ScoresOfRace(d)
    BY DEF FinalScores, ScoresOfRace
  <2>3. QED BY <2>1, <2>2, <1>2 DEF Disagrees
<1>6. ValidResolvedSpells(d)
  <2> SUFFICES ASSUME d.spells.mode = "none" PROVE Granted(d) = <<>>
    BY DEF ValidResolvedSpells
  <2>1. GrantedIds(d) = {}
    BY DEF Disagrees
  <2>2. Selections(d, HighElfCantrip) = <<>> /\ Selections(d, LandCantrip) = <<>>
    BY <2>1 DEF GrantedIds
  <2>3. Granted(d) = <<>> \o <<>>
    BY <2>2, GrantedAre
  <2>4. <<>> \o <<>> = <<>>
    OBVIOUS
  <2>5. QED BY <2>3, <2>4
<1>7. QED BY <1>3, <1>4, <1>5, <1>6 DEF ServerAccepts, BuildsSheet, ConsistentScores

------------------------------------------------------------------------------
(* THE SAVED SHEET                                                         *)

LEMMA ModifierTyped == \A n \in Int : AbilityModifier(n) \in Int
  BY DEF AbilityModifier

LEMMA SameModifiers ==
  ASSUME NEW d, WithinOffer(d), NEW a \in Abilities
  PROVE  Modifiers(d)[a] = ShownModifier(d, a) /\ ShownModifier(d, a) \in Int
<1>1. d \in DraftType
  BY OfferParts
<1>2. FinalScores(d)[a] \in Int
  BY <1>1, FinalScoresTyped DEF AbilityScores
<1>3. QED BY <1>2, SameScores, ModifierTyped DEF Modifiers, ShownModifier

LEMMA SameProficiency ==
  ASSUME NEW d \in DraftType
  PROVE  ClassProficiency(d) = ShownProficiency(d) /\ ShownProficiency(d) \in 2 .. 3
<1> DEFINE n == d.level
<1>1. n \in 1 .. 5
  BY DraftFields DEF Level
<1> HIDE DEF n
<1>2. 2 + n \div 5 = IF n = 5 THEN 3 ELSE 2
  BY <1>1
<1>3. QED BY <1>2 DEF ClassProficiency, ShownProficiency, n

LEMMA SameClassNames ==
  ASSUME NEW d, NEW c \in {"bard", "barbarian", "monk", "fighter", "paladin", "ranger"}
  PROVE  CalculationClass(d) = c <=> d.class = c
  BY DEF CalculationClass, FromSrd

LEMMA SameInitiative ==
  ASSUME NEW d, WithinOffer(d)
  PROVE  SavedSheet(d).initiative = ShownInitiative(d)
<1>1. d \in DraftType /\ "dexterity" \in Abilities
  BY OfferParts, AbilitiesAre
<1>2. SavedSheet(d).initiative
        = Modifiers(d)["dexterity"]
            + (IF CalculationClass(d) = "bard" /\ d.level >= 2 THEN ClassProficiency(d) \div 2 ELSE 0)
  BY DEF SavedSheet
<1>3. Modifiers(d)["dexterity"] = ShownModifier(d, "dexterity") /\ ClassProficiency(d) = ShownProficiency(d)
  BY <1>1, SameModifiers, SameProficiency
<1>4. CalculationClass(d) = "bard" <=> d.class = "bard"
  BY SameClassNames
<1>5. QED BY <1>2, <1>3, <1>4 DEF ShownInitiative

(* What both sides find worn.                                              *)
LEMMA SameArmor ==
  ASSUME NEW d, WithinOffer(d)
  PROVE  /\ ArmorOn(d) = d.defense.armor /\ d.defense.armor \in Armors \cup {"none"}
         /\ d.defense.armor \in Armors => ArmorState(d).armor = <<ArmorRule[d.defense.armor]>>
         /\ ArmorState(d).armor = <<>> <=> ArmorOn(d) = "none"
         /\ ArmorState(d).heavy <=> WearsHeavy(d)
         /\ ArmorState(d).shield <=> ShieldOn(d)
         /\ ShieldOn(d) => d.defense.shield # "none"
<1>1. d \in DraftType /\ DefenseOffered(d)
  BY OfferParts
<1>2. /\ d.defense.mode \in {"armor", "unarmored", "manual"}
      /\ d.defense.armor \in Armors \cup {"none"} /\ d.defense.shield \in {Shield, "none"}
  BY <1>1, DefenseFields
<1>3. \A item : IsWorn(d, item) <=> Worn(d, item)
  BY DEF IsWorn, Worn
<1>4. "none" \notin Armors /\ Shield # "none" /\ ~Worn(d, "none")
  BY NoneIsNoItem DEF Worn
<1>5. /\ d.defense.armor # "none" => Worn(d, d.defense.armor)
      /\ d.defense.shield # "none" => Worn(d, d.defense.shield)
      /\ d.defense.mode # "armor" => d.defense.armor = "none"
      /\ d.defense.mode = "manual" => d.defense.shield = "none"
  BY <1>1 DEF DefenseOffered
<1>6. ArmorOn(d) = d.defense.armor
  BY <1>2, <1>4, <1>5 DEF ArmorOn
<1>7. d.defense.armor \in Armors => IsWorn(d, d.defense.armor)
  BY <1>3, <1>4, <1>5
<1>8. /\ ArmorState(d).armor = IF d.defense.armor \in Armors THEN <<ArmorRule[d.defense.armor]>> ELSE <<>>
      /\ ArmorState(d).heavy <=> d.defense.armor \in Armors /\ ArmorRule[d.defense.armor].category = "Heavy"
      /\ ArmorState(d).shield <=> d.defense.shield = Shield /\ IsWorn(d, Shield)
  BY <1>7 DEF ArmorState
<1>9. ShieldOn(d) <=> d.defense.shield = Shield /\ Worn(d, Shield)
  BY <1>2, <1>4, <1>5 DEF ShieldOn
<1>10. WearsHeavy(d) <=> d.defense.armor \in Armors /\ ArmorRule[d.defense.armor].category = "Heavy"
  BY <1>2, <1>4, <1>6 DEF WearsHeavy
<1>11. \A x : <<x>> # <<>>
  OBVIOUS
<1>12. ArmorState(d).armor = <<>> <=> ArmorOn(d) = "none"
  BY <1>2, <1>4, <1>6, <1>8, <1>11
<1>13. QED BY <1>2, <1>3, <1>4, <1>6, <1>8, <1>9, <1>10, <1>12

LEMMA SameSpeed ==
  ASSUME NEW d, WithinOffer(d), ContractAccepts(d)
  PROVE  SavedSheet(d).speed = ShownSpeed(d)
<1>1. d \in DraftType /\ RequestValid(d)
  BY OfferParts DEF ContractAccepts
<1>2. SavedSheet(d).speed = IF "speed" \in d.overrides THEN Typed.speed ELSE SavedSpeed(d, ArmorState(d))
  BY DEF SavedSheet
<1>3. CASE "speed" \in d.overrides
  BY <1>2, <1>3 DEF ShownSpeed
<1>4. CASE "speed" \notin d.overrides
  <2> DEFINE state == ArmorState(d)
             strong == FinalScores(d)["strength"]
             burdenedSaved == /\ state.heavy /\ ResolvedScores(d)["strength"] < state.armor[1].strengthMinimum
                              /\ ~IgnoresHeavyArmor(CalculationRace(d))
             fastSaved == CalculationClass(d) = "barbarian" /\ d.level >= 5 /\ ~state.heavy
             lightSaved == CalculationClass(d) = "monk" /\ d.level >= 2 /\ state.armor = <<>> /\ ~state.shield
             burdened == /\ WearsHeavy(d) /\ FinalScores(d)["strength"] < ArmorRule[ArmorOn(d)].strengthMinimum
                         /\ ~IgnoresHeavyArmor(d.race)
             fast == d.class = "barbarian" /\ d.level >= 5 /\ ~WearsHeavy(d)
             light == d.class = "monk" /\ d.level >= 2 /\ ArmorOn(d) = "none" /\ ~ShieldOn(d)
             own == SpeedFt(d.race)
  <2>1. CalculationRace(d) = d.race
    <3>1. d.race = "manual" \/ IsSrdRace(d)
      BY <1>1 DEF RequestValid, SelectionsResolve
    <3>2. d.race # "manual"
      BY <1>1, <1>4 DEF RequestValid, ManualPartsFit
    <3>3. FromSrd(d.race)
      BY <3>1, <3>2, <1>1, SameTables
    <3>4. QED BY <3>3 DEF CalculationRace
  <2>2. burdenedSaved <=> burdened
    <3>1. state.heavy => state.armor[1] = ArmorRule[ArmorOn(d)]
      <4>1. ASSUME WearsHeavy(d) PROVE state.armor = <<ArmorRule[ArmorOn(d)]>>
        BY <4>1, SameArmor DEF WearsHeavy
      <4>2. \A x : <<x>>[1] = x
        OBVIOUS
      <4>3. QED BY <4>1, <4>2, SameArmor
    <3>2. QED BY <3>1, <2>1, SameArmor, SameScores
  <2>3. fastSaved <=> fast
    BY SameArmor, SameClassNames
  <2>4. lightSaved <=> light
    BY SameArmor, SameClassNames
  <2>5. SavedSpeed(d, state) = own + (IF burdenedSaved THEN -10 ELSE 0)
                                 + (IF fastSaved THEN FeatureModifier.fastMovement ELSE 0)
                                 + (IF lightSaved THEN FeatureModifier.unarmoredMovement ELSE 0)
    BY <2>1 DEF SavedSpeed
  <2>6. ShownSpeed(d) = own - (IF burdened THEN 10 ELSE 0)
                          + (IF fast THEN FeatureModifier.fastMovement ELSE 0)
                          + (IF light THEN FeatureModifier.unarmoredMovement ELSE 0)
    BY <1>4 DEF ShownSpeed
  <2>7. own \in {25, 30}
    BY DEF SpeedFt
  <2>8. FeatureModifier.fastMovement = 10 /\ FeatureModifier.unarmoredMovement = 10
    BY DEF FeatureModifier
  <2> HIDE DEF burdenedSaved, fastSaved, lightSaved, burdened, fast, light, own
  <2>9. own + (IF burdened THEN -10 ELSE 0) = own - (IF burdened THEN 10 ELSE 0)
    BY <2>7
  <2>10. SavedSpeed(d, state) = ShownSpeed(d)
    BY <2>2, <2>3, <2>4, <2>5, <2>6, <2>9
  <2>11. QED BY <2>10, <1>2, <1>4
<1>5. QED BY <1>3, <1>4

(* The hit points, level by level.                                         *)
LEMMA SumsAgree ==
  ASSUME NEW f \in [Level -> Int], NEW g \in [Level -> Int], NEW n \in Int, n = f[1], g[1] = 0,
         \A l \in 2 .. 5 : f[l] = g[l]
  PROVE  SumOverLevels(f) = n + SumOverLevels(g) /\ SumOverLevels(f) \in Int
<1>1. \A l \in {1, 2, 3, 4, 5} : f[l] \in Int /\ g[l] \in Int
  BY DEF Level
<1>2. f[2] = g[2] /\ f[3] = g[3] /\ f[4] = g[4] /\ f[5] = g[5]
  OBVIOUS
<1>3. f[1] + f[2] + f[3] + f[4] + f[5] = n + (g[1] + g[2] + g[3] + g[4] + g[5])
  BY <1>1, <1>2
<1>4. f[1] + f[2] + f[3] + f[4] + f[5] \in Int
  BY <1>1
<1>5. QED BY <1>3, <1>4 DEF SumOverLevels

LEMMA AtLeastTyped == \A n \in Int : AtLeast(1, n) \in Int
  BY DEF AtLeast

LEMMA SameMaximum ==
  ASSUME NEW d, WithinOffer(d), ContractAccepts(d)
  PROVE  SavedSheet(d).maximum = ShownMaximum(d)
<1>1. d \in DraftType /\ RequestValid(d)
  BY OfferParts DEF ContractAccepts
<1>2. SavedSheet(d).maximum = IF "maximum" \in d.overrides THEN Typed.maximum ELSE SavedMaximum(d)
  BY DEF SavedSheet
<1>3. CASE "maximum" \in d.overrides
  BY <1>2, <1>3 DEF ShownMaximum
<1>4. CASE "maximum" \notin d.overrides
  <2>1. IsSrdClass(d)
    <3>1. d.class = "manual" \/ IsSrdClass(d)
      BY <1>1 DEF RequestValid, SelectionsResolve
    <3>2. QED BY <3>1, <1>1, <1>4 DEF RequestValid, ManualPartsFit
  <2> DEFINE con == ShownModifier(d, "constitution")
             die == Classes[d.class].hitDie
             average == Classes[d.class].fixedAverageHp
             n == d.level
             Rolled(l) == IF d.gains[l] > 0 THEN d.gains[l] ELSE average
             f == [l \in Level |-> IF l <= n THEN GainAt(d, l) ELSE 0]
             g == [l \in Level |-> IF l \in 2 .. n THEN AtLeast(1, Rolled(l) + con) ELSE 0]
             hill == d.race = "hill_dwarf"
             dragon == d.class = "sorcerer" /\ d.subclass = "srd"
             first == AtLeast(1, die + con)
             tough == (IF hill THEN FeatureModifier.dwarvenToughness ELSE 0)
                        + (IF dragon THEN FeatureModifier.draconicResilience ELSE 0)
  <2>2. con \in Int /\ Modifiers(d)["constitution"] = con
    BY SameModifiers, AbilitiesAre
  <2>3. die \in Int /\ average \in Int /\ n \in 1 .. 5
    <3>1. d.class \in DOMAIN Classes /\ d.level \in Level
      BY <1>1, <2>1, DraftFields DEF IsSrdClass
    <3>2. Classes[d.class].hitDie \in 6 .. 12 /\ Classes[d.class].fixedAverageHp \in 1 .. Classes[d.class].hitDie
      BY <3>1, ClassAssumption
    <3>3. QED BY <3>1, <3>2 DEF Level
  <2>4. SavedMaximum(d) = first + SumOverLevels(g) + tough * n
    BY <2>1, <2>2, SubclassIs DEF SavedMaximum
  <2>5. ShownMaximum(d) = SumOverLevels(f) + (IF hill THEN n * FeatureModifier.dwarvenToughness ELSE 0)
                            + (IF dragon THEN n * FeatureModifier.draconicResilience ELSE 0)
    BY <1>4 DEF ShownMaximum
  <2>6. \A l \in 2 .. n : d.gains[l] \in Nat
    <3>1. DOMAIN d.gains = 2 .. n
      BY <2>1, OfferParts DEF GainsOffered
    <3>2. QED BY <3>1, <1>1, DraftFields, PartialElim
  <2>7. first \in Int /\ GainAt(d, 1) = first
    <3>1. GainAt(d, 1) = AtLeast(1, con + die)
      BY DEF GainAt
    <3> HIDE DEF con, die
    <3>2. con + die = die + con /\ die + con \in Int
      BY <2>2, <2>3
    <3>3. QED BY <3>1, <3>2, AtLeastTyped
  <2>8. ASSUME NEW l \in 2 .. n
        PROVE  GainAt(d, l) = AtLeast(1, Rolled(l) + con) /\ AtLeast(1, Rolled(l) + con) \in Int
    <3> DEFINE gain == d.gains[l]
    <3>1. gain \in Nat /\ l # 1
      BY <2>3, <2>6
    <3>2. GainAt(d, l) = AtLeast(1, con + IF l = 1 THEN die ELSE IF gain = 0 THEN average ELSE gain)
      BY DEF GainAt
    <3> HIDE DEF con, die, average, gain
    <3>3. con + (IF l = 1 THEN die ELSE IF gain = 0 THEN average ELSE gain) = (IF gain > 0 THEN gain ELSE average) + con
      BY <3>1, <2>2, <2>3
    <3>4. (IF gain > 0 THEN gain ELSE average) + con \in Int
      BY <3>1, <2>2, <2>3
    <3>5. QED BY <3>2, <3>3, <3>4, AtLeastTyped DEF gain
  <2> HIDE DEF con, die, average, Rolled, first
  <2>9. f \in [Level -> Int] /\ f[1] = first
    <3>1. ASSUME NEW l \in Level PROVE (IF l <= n THEN GainAt(d, l) ELSE 0) \in Int
      <4>1. CASE l = 1
        BY <4>1, <2>7
      <4>2. CASE l # 1 /\ l <= n
        <5>1. l \in 2 .. n
          BY <4>2, <2>3 DEF Level
        <5>2. QED BY <5>1, <2>8
      <4>3. CASE l # 1 /\ ~(l <= n)
        BY <4>3
      <4>4. QED BY <4>1, <4>2, <4>3
    <3>2. 1 <= n /\ 1 \in Level
      BY <2>3 DEF Level
    <3>3. QED BY <3>1, <3>2, <2>7
  <2>10. g \in [Level -> Int] /\ g[1] = 0
    <3>1. \A l \in Level : (IF l \in 2 .. n THEN AtLeast(1, Rolled(l) + con) ELSE 0) \in Int
      BY <2>8
    <3>2. 1 \notin 2 .. n /\ 1 \in Level
      BY <2>3 DEF Level
    <3>3. QED BY <3>1, <3>2
  <2>11. \A l \in 2 .. 5 : f[l] = g[l]
    <3>1. ASSUME NEW l \in 2 .. 5 PROVE f[l] = g[l]
      <4>1. l \in Level /\ (l <= n <=> l \in 2 .. n)
        BY <2>3 DEF Level
      <4>2. QED BY <4>1, <2>8
    <3>2. QED BY <3>1
  <2> HIDE DEF f, g
  <2>12. SumOverLevels(f) = first + SumOverLevels(g) /\ SumOverLevels(f) \in Int
    BY <2>7, <2>9, <2>10, <2>11, SumsAgree
  <2>13. FeatureModifier.dwarvenToughness = 1 /\ FeatureModifier.draconicResilience = 1
    BY DEF FeatureModifier
  <2> DEFINE total == SumOverLevels(f)
  <2> HIDE DEF hill, dragon, n, total
  <2>14. total \in Int
    BY <2>12 DEF total
  <2>15. total + ((IF hill THEN 1 ELSE 0) + (IF dragon THEN 1 ELSE 0)) * n
           = total + (IF hill THEN n * 1 ELSE 0) + (IF dragon THEN n * 1 ELSE 0)
    <3>1. CASE hill /\ dragon
      BY <3>1, <2>3, <2>14
    <3>2. CASE hill /\ ~dragon
      BY <3>2, <2>3, <2>14
    <3>3. CASE ~hill /\ dragon
      BY <3>3, <2>3, <2>14
    <3>4. CASE ~hill /\ ~dragon
      BY <3>4, <2>3, <2>14
    <3>5. QED BY <3>1, <3>2, <3>3, <3>4
  <2>16. SavedMaximum(d) = total + ((IF hill THEN 1 ELSE 0) + (IF dragon THEN 1 ELSE 0)) * n
    BY <2>4, <2>12, <2>13 DEF total
  <2>17. ShownMaximum(d) = total + (IF hill THEN n * 1 ELSE 0) + (IF dragon THEN n * 1 ELSE 0)
    BY <2>5, <2>13 DEF total
  <2>18. QED BY <1>2, <1>4, <2>15, <2>16, <2>17
<1>5. QED BY <1>3, <1>4

LEMMA SameArmorClass ==
  ASSUME NEW d, WithinOffer(d), ContractAccepts(d)
  PROVE  SavedSheet(d).armorClass = ShownArmorClass(d)
<1> DEFINE state == ArmorState(d)
           dex == ShownModifier(d, "dexterity")
           con == ShownModifier(d, "constitution")
           wis == ShownModifier(d, "wisdom")
           shield == IF ShieldOn(d) THEN 2 ELSE 0
<1>1. d \in DraftType /\ DefenseFits(d) /\ DefenseOffered(d)
  BY OfferParts DEF ContractAccepts, RequestValid
<1>2. SavedSheet(d).armorClass = SavedArmorClass(d, state)
  BY DEF SavedSheet
<1>3. /\ Modifiers(d)["dexterity"] = dex /\ Modifiers(d)["constitution"] = con /\ Modifiers(d)["wisdom"] = wis
      /\ dex \in Int /\ con \in Int /\ wis \in Int
  BY SameModifiers, AbilitiesAre
<1>4. (IF state.shield THEN 2 ELSE 0) = shield /\ shield \in {0, 2}
  BY SameArmor
<1>5. d.defense.mode \in {"armor", "unarmored", "manual"}
  BY <1>1, DefenseFields
<1>6. CASE d.defense.mode = "manual"
  BY <1>2, <1>6 DEF SavedArmorClass, ShownArmorClass
<1>7. CASE d.defense.mode = "armor"
  <2> DEFINE rule == ArmorRule[ArmorOn(d)]
             style == CalculationClass(d) \in StyledClasses /\ <<"defense">> \in AllOptions(d)
  <2>1. state.armor[1] = rule
    <3>1. d.defense.armor \in Armors
      BY <1>1, <1>7 DEF DefenseFits
    <3>2. state.armor = <<rule>>
      BY <3>1, SameArmor
    <3>3. \A x : <<x>>[1] = x
      OBVIOUS
    <3>4. QED BY <3>2, <3>3
  <2>2. style <=> DefendsInStyle(d)
    <3>1. CalculationClass(d) \in StyledClasses <=> d.class \in StyledClasses
      BY SameClassNames DEF StyledClasses
    <3>2. QED BY <3>1 DEF DefendsInStyle, AllOptions
  <2>3. SavedArmorClass(d, state)
          = state.armor[1].base + (IF state.armor[1].dexterity THEN Modifiers(d)["dexterity"] ELSE 0)
              + (IF state.shield THEN 2 ELSE 0) + (IF style THEN FeatureModifier.defenseStyle ELSE 0)
    BY <1>7 DEF SavedArmorClass
  <2>4. ShownArmorClass(d)
          = rule.base + (IF rule.dexterity THEN dex ELSE 0) + shield
              + (IF DefendsInStyle(d) THEN FeatureModifier.defenseStyle ELSE 0)
    BY <1>7 DEF ShownArmorClass
  <2>5. QED BY <1>2, <1>3, <1>4, <2>1, <2>2, <2>3, <2>4
<1>8. CASE d.defense.mode = "unarmored"
  <2> DEFINE formula == d.defense.formula
  <2>1. formula \in {"standard-unarmored", "barbarian-unarmored-defense", "monk-unarmored-defense",
                     "draconic-resilience"}
    BY <1>1, FormulasAre DEF DefenseOffered
  <2>2. SavedArmorClass(d, state)
          = CASE formula = "barbarian-unarmored-defense" ->
                   10 + Modifiers(d)["dexterity"] + Modifiers(d)["constitution"] + (IF state.shield THEN 2 ELSE 0)
              [] formula = "monk-unarmored-defense" -> 10 + Modifiers(d)["dexterity"] + Modifiers(d)["wisdom"]
              [] formula = "draconic-resilience" -> 13 + Modifiers(d)["dexterity"] + (IF state.shield THEN 2 ELSE 0)
              [] OTHER -> 10 + Modifiers(d)["dexterity"] + (IF state.shield THEN 2 ELSE 0)
    BY <1>8, <2>1 DEF SavedArmorClass
  <2>3. ShownArmorClass(d) = 10 + dex + FormulaBonus(d) + shield
    BY <1>8 DEF ShownArmorClass
  <2>4. formula = "monk-unarmored-defense" => shield = 0
    <3>1. formula = "monk-unarmored-defense" => d.defense.shield = "none"
      BY <1>1, <1>8 DEF DefenseFits
    <3>2. QED BY <3>1, SameArmor
  <2>5. /\ formula = "barbarian-unarmored-defense" => FormulaBonus(d) = con
        /\ formula = "monk-unarmored-defense" => FormulaBonus(d) = wis
        /\ formula = "draconic-resilience" => FormulaBonus(d) = 3
        /\ formula = "standard-unarmored" => FormulaBonus(d) = 0
    BY DEF FormulaBonus
  <2>6. /\ formula = "barbarian-unarmored-defense" => SavedArmorClass(d, state) = 10 + dex + con + shield
        /\ formula = "monk-unarmored-defense" => SavedArmorClass(d, state) = 10 + dex + wis
        /\ formula = "draconic-resilience" => SavedArmorClass(d, state) = 13 + dex + shield
        /\ formula = "standard-unarmored" => SavedArmorClass(d, state) = 10 + dex + shield
    BY <1>3, <1>4, <2>2
  <2> DEFINE bonus == FormulaBonus(d)
             saved == SavedArmorClass(d, state)
  <2> HIDE DEF state, dex, con, wis, shield, formula, bonus, saved
  <2>7. saved = 10 + dex + bonus + shield
    <3>1. CASE formula = "barbarian-unarmored-defense"
      BY <3>1, <2>5, <2>6 DEF bonus, saved
    <3>2. CASE formula = "monk-unarmored-defense"
      <4>1. saved = 10 + dex + wis /\ bonus = wis /\ shield = 0
        BY <3>2, <2>4, <2>5, <2>6 DEF bonus, saved
      <4>2. QED BY <4>1, <1>3
    <3>3. CASE formula = "draconic-resilience"
      <4>1. saved = 13 + dex + shield /\ bonus = 3
        BY <3>3, <2>5, <2>6 DEF bonus, saved
      <4>2. QED BY <4>1, <1>3, <1>4
    <3>4. CASE formula = "standard-unarmored"
      <4>1. saved = 10 + dex + shield /\ bonus = 0
        BY <3>4, <2>5, <2>6 DEF bonus, saved
      <4>2. QED BY <4>1, <1>3, <1>4
    <3>5. QED BY <2>1, <3>1, <3>2, <3>3, <3>4
  <2>8. QED BY <1>2, <2>3, <2>7 DEF bonus, saved
<1>9. QED BY <1>5, <1>6, <1>7, <1>8

(* The numbers of the row are those of the review.                         *)
LEMMA SavedIsShown ==
  ASSUME NEW d, WithinOffer(d), ContractAccepts(d)
  PROVE  SavedSheet(d) = ShownSheet(d)
<1>1. d \in DraftType /\ SpellAttackFits(d)
  BY OfferParts DEF ContractAccepts, RequestValid
<1> DEFINE cast == IF IsCaster(d) THEN CastingAbility[d.class] ELSE "none"
<1>2. IsCaster(d) <=> CastsSpells(d)
  BY <1>1, SameCasters DEF CastsSpells
<1>3. IsCaster(d) => CastingAbility[d.class] \in Abilities
  <2>1. ASSUME IsCaster(d) PROVE CastingAbility[d.class] \in Abilities
    <3>1. d.class \in DOMAIN Classes /\ CastingOf(d).mode # "none"
      BY <1>1, <2>1, SameCasters DEF IsSrdClass
    <3>2. QED BY <3>1, CastingAssumption DEF CastingOf
  <2>2. QED BY <2>1
<1>4. "none" \notin Abilities /\ "strength" \in Abilities
  BY AbilitiesAre
<1>5. cast = "none" <=> ~IsCaster(d)
  BY <1>3, <1>4
<1>6. ClassProficiency(d) = ShownProficiency(d) /\ ShownProficiency(d) \in 2 .. 3
  BY <1>1, SameProficiency
<1>7. (IF cast = "none" THEN Null ELSE 8 + ClassProficiency(d) + Modifiers(d)[cast])
        = IF CastsSpells(d) THEN 8 + ShownProficiency(d) + ShownModifier(d, CastingAbility[d.class]) ELSE Null
  <2>1. CASE IsCaster(d)
    <3>1. cast = CastingAbility[d.class] /\ Modifiers(d)[cast] = ShownModifier(d, CastingAbility[d.class])
      BY <2>1, <1>3, SameModifiers
    <3>2. QED BY <2>1, <3>1, <1>2, <1>5, <1>6
  <2>2. CASE ~IsCaster(d)
    BY <2>2, <1>2, <1>5
  <2>3. QED BY <2>1, <2>2
<1>8. ClassProficiency(d) + Modifiers(d)[IF d.spellAttack THEN cast ELSE "strength"]
        = ShownModifier(d, AttackAbility(d)) + ShownProficiency(d)
  <2> DEFINE ability == IF d.spellAttack THEN cast ELSE "strength"
             modifier == ShownModifier(d, AttackAbility(d))
             proficiency == ShownProficiency(d)
  <2>1. d.spellAttack => IsCaster(d)
    BY <1>1, SameCasters DEF SpellAttackFits
  <2>2. ability = AttackAbility(d) /\ ability \in Abilities
    BY <2>1, <1>3, <1>4 DEF AttackAbility
  <2>3. Modifiers(d)[ability] = modifier /\ modifier \in Int
    BY <2>2, SameModifiers
  <2>4. proficiency \in Int
    BY <1>6
  <2> HIDE DEF modifier, proficiency
  <2>5. proficiency + modifier = modifier + proficiency
    BY <2>3, <2>4
  <2>6. QED BY <2>3, <2>5, <1>6 DEF modifier, proficiency
<1>9. SavedSheet(d)
        = [scores |-> ResolvedScores(d), proficiency |-> ClassProficiency(d),
           initiative |-> SavedSheet(d).initiative, speed |-> SavedSheet(d).speed,
           maximum |-> SavedSheet(d).maximum, armorClass |-> SavedSheet(d).armorClass,
           saveDC |-> IF cast = "none" THEN Null ELSE 8 + ClassProficiency(d) + Modifiers(d)[cast],
           attack |-> ClassProficiency(d) + Modifiers(d)[IF d.spellAttack THEN cast ELSE "strength"]]
  BY DEF SavedSheet
<1>10. /\ ResolvedScores(d) = FinalScores(d) /\ SavedSheet(d).initiative = ShownInitiative(d)
       /\ SavedSheet(d).speed = ShownSpeed(d) /\ SavedSheet(d).maximum = ShownMaximum(d)
       /\ SavedSheet(d).armorClass = ShownArmorClass(d)
  BY SameScores, SameInitiative, SameSpeed, SameMaximum, SameArmorClass
<1>11. QED BY <1>6, <1>7, <1>8, <1>9, <1>10 DEF ShownSheet

(* The draft of a review is one the contract accepts, the draft of an      *)
(* opened character one the server accepts; the server's error is shown    *)
(* only beside the review it refused.                                      *)
SaveInv ==
  /\ PageInv
  /\ view \in {"review", "opened"} => ContractAccepts(draft)
  /\ outcome = "refused" => view = "review" /\ ~ServerAccepts(draft)

LEMMA SaveInvNext ==
  ASSUME SaveInv, [Next]_vars
  PROVE  SaveInv'
<1>1. PageInv'
  BY PageInvNext DEF SaveInv
<1>2. /\ PageInv
      /\ view \in {"review", "opened"} => ContractAccepts(draft)
      /\ outcome = "refused" => view = "review" /\ ~ServerAccepts(draft)
  BY DEF SaveInv
<1> DEFINE Reviewed == view' \in {"review", "opened"} => draft' = draft /\ ContractAccepts(draft)
           Told == outcome' = "refused" => view' = "review" /\ draft' = draft /\ ~ServerAccepts(draft)
<1>3. SUFFICES Reviewed /\ Told
  <2>1. ASSUME draft' = draft, ContractAccepts(draft) PROVE ContractAccepts(draft')
    BY <2>1
  <2>2. ASSUME draft' = draft, ~ServerAccepts(draft) PROVE ~ServerAccepts(draft')
    BY <2>2
  <2>3. ASSUME Reviewed, Told
        PROVE  /\ view' \in {"review", "opened"} => ContractAccepts(draft')
               /\ outcome' = "refused" => view' = "review" /\ ~ServerAccepts(draft')
    BY <2>1, <2>2, <2>3
  <2>4. QED BY <2>3, <1>1 DEF SaveInv
<1>4. CASE PickMode \/ PickBuild
  <2>1. view = "page" /\ outcome' = outcome /\ view' \in {"page", "form"}
    BY <1>4 DEF PickMode, PickBuild, OpenForm
  <2>2. QED BY <1>2, <2>1
<1>5. CASE Answer \/ Advance \/ StepBack
  <2>1. view' = view /\ outcome' = outcome /\ draft' = draft
    BY <1>5 DEF Answer, Advance, StepBack
  <2>2. QED BY <1>2, <2>1
<1>6. CASE Leave
  BY <1>6 DEF Leave
<1>7. CASE \/ SetRace \/ SetClass \/ SetLevel \/ SetSubclass
           \/ SetMode \/ SetScore \/ ResetToCalculated \/ Choose \/ WriteNote
           \/ SetGain \/ ToggleOverride \/ ToggleSpellAttack
           \/ SetDefenseMode \/ SetArmor \/ SetShield \/ SetFormula
           \/ AddEquipment \/ ToggleEquipped \/ RemoveEquipment
           \/ EditCantrips \/ EditLearned \/ EditPrepared
  <2>1. view = "form" /\ view' = view /\ outcome' \in {outcome, "none"}
    BY <1>7, EditFrame
  <2>2. QED BY <1>2, <2>1
<1>8. CASE Review
  BY <1>2, <1>8 DEF Review
<1>9. CASE BackToEdit
  BY <1>9 DEF BackToEdit
<1>10. CASE Save
  BY <1>2, <1>10 DEF Save
<1>11. CASE UNCHANGED vars
  BY <1>2, <1>11 DEF vars
<1>12. QED BY <1>4, <1>5, <1>6, <1>7, <1>8, <1>9, <1>10, <1>11 DEF Next

(* Whatever was edited before, a character that is saved has the numbers   *)
(* of its review, and a review that is refused is one of three cases.      *)
THEOREM ReviewedNumbersAreSaved == Spec => []SavesWhatWasReviewed
<1>1. Init => SaveInv
  BY PageInvInitially DEF Init, SaveInv
<1>2. SaveInv /\ [Next]_vars => SaveInv'
  BY SaveInvNext
<1>3. SaveInv => SavesWhatWasReviewed
  <2> SUFFICES ASSUME SaveInv PROVE SavesWhatWasReviewed
    OBVIOUS
  <2>1. WithinOffer(draft)
    BY DEF SaveInv, PageInv
  <2>2. view = "opened" => SavedSheet(draft) = ShownSheet(draft)
    BY <2>1, SavedIsShown DEF SaveInv
  <2>3. outcome = "refused" => Disagrees(draft)
    BY <2>1, ServerTakesTheRest DEF SaveInv
  <2>4. QED BY <2>2, <2>3 DEF SavesWhatWasReviewed, Disagrees
<1>4. QED BY <1>1, <1>2, <1>3, PTL DEF Spec

------------------------------------------------------------------------------
(* THE RECOMMENDATION                                                      *)

(* Five questions with four answers each; every answer counts for one      *)
(* bucket and falls back on one build.                                     *)
LEMMA QuestionsAre ==
  /\ Question = 1 .. 5 /\ LastQuestion = 5
  /\ \A q \in Question : /\ DOMAIN QuizQuestions[q] = 1 .. 4
                         /\ \A a \in 1 .. 4 : /\ QuizQuestions[q][a].bucket \in Buckets
                                              /\ QuizQuestions[q][a].build \in Builds
<1> DEFINE Melee   == [bucket |-> "strengthMelee", build |-> Strength]
           Archery == [bucket |-> "dexterityArcher", build |-> Dexterity]
           Magic   == [bucket |-> "futureMagic", build |-> Dexterity]
           Healing == [bucket |-> "futureHealingSupport", build |-> Strength]
           Stealth == [bucket |-> "futureStealthTrickery", build |-> Dexterity]
           Social  == [bucket |-> "futureSocialCleverChaos", build |-> Dexterity]
           Listed  == {Melee, Archery, Magic, Healing, Stealth, Social}
<1>1. QuizQuestions = << <<Melee, Archery, Magic, Healing>>, <<Melee, Archery, Stealth, Social>>,
                         <<Melee, Archery, Healing, Stealth>>, <<Melee, Archery, Magic, Social>>,
                         <<Melee, Archery, Magic, Social>> >>
  BY DEF QuizQuestions
<1>2. ToSet(FutureBuckets) = {"futureMagic", "futureHealingSupport", "futureStealthTrickery",
                              "futureSocialCleverChaos"}
  BY DEF ToSet, FutureBuckets
<1>3. \A x \in Listed : x.bucket \in Buckets /\ x.build \in Builds
  BY <1>2 DEF Buckets, Builds
<1> HIDE DEF Melee, Archery, Magic, Healing, Stealth, Social
<1>4. DOMAIN QuizQuestions = 1 .. 5 /\ Len(QuizQuestions) = 5
  BY <1>1
<1>5. ASSUME NEW q \in 1 .. 5
      PROVE  DOMAIN QuizQuestions[q] = 1 .. 4 /\ \A a \in 1 .. 4 : QuizQuestions[q][a] \in Listed
  <2>1. CASE q = 1
    BY <1>1, <2>1
  <2>2. CASE q = 2
    BY <1>1, <2>2
  <2>3. CASE q = 3
    BY <1>1, <2>3
  <2>4. CASE q = 4
    BY <1>1, <2>4
  <2>5. CASE q = 5
    BY <1>1, <2>5
  <2>6. QED BY <2>1, <2>2, <2>3, <2>4, <2>5
<1>6. QED BY <1>3, <1>4, <1>5 DEF Question, LastQuestion

Answers == [Question -> 0 .. 4]

LEMMA ScoresAre ==
  ASSUME NEW answers
  PROVE  /\ \A bucket : BucketScore(answers, bucket)
                          = Cardinality({ q \in Answered(answers) : Selected(answers, q).bucket = bucket })
         /\ \A build : FallbackScore(answers, build)
                         = Cardinality({ q \in Answered(answers) : Selected(answers, q).build = build })
  BY DEF BucketScore, FallbackScore, Quantify

LEMMA SelectedTyped ==
  ASSUME NEW answers \in Answers, NEW q \in Answered(answers)
  PROVE  Selected(answers, q).bucket \in Buckets /\ Selected(answers, q).build \in Builds
<1>1. q \in Question /\ answers[q] \in 1 .. 4
  <2>1. q \in Question /\ answers[q] # 0 /\ answers[q] \in 0 .. 4
    BY DEF Answered, Answers
  <2>2. QED BY <2>1
<1>2. QED BY <1>1, QuestionsAre DEF Selected

LEMMA FiveQuestions == IsFiniteSet(Question) /\ Cardinality(Question) = 5
<1> DEFINE n == 5
<1>1. n = 5 /\ n \in Int /\ 1 \in Int
  OBVIOUS
<1> HIDE DEF n
<1>2. IsFiniteSet(1 .. n) /\ Cardinality(1 .. n) = IF 1 > n THEN 0 ELSE n - 1 + 1
  BY <1>1, FS_Interval
<1>3. Cardinality(1 .. n) = 5
  BY <1>1, <1>2
<1>4. QED BY <1>1, <1>2, <1>3, QuestionsAre

LEMMA SomeQuestions ==
  ASSUME NEW T \in SUBSET Question
  PROVE  IsFiniteSet(T) /\ Cardinality(T) \in 0 .. 5 /\ (T # {} => Cardinality(T) > 0)
<1>1. IsFiniteSet(T) /\ Cardinality(T) <= Cardinality(Question)
  BY FiveQuestions, FS_Subset
<1>2. Cardinality(T) \in Nat
  BY <1>1, FS_CardinalityType
<1>3. Cardinality(T) = 0 <=> T = {}
  BY <1>1, FS_EmptySet
<1>4. QED BY <1>1, <1>2, <1>3, FiveQuestions

LEMMA BucketScoreTyped ==
  ASSUME NEW answers, NEW bucket
  PROVE  BucketScore(answers, bucket) \in 0 .. 5
<1> DEFINE T == { q \in Answered(answers) : Selected(answers, q).bucket = bucket }
<1>1. T \in SUBSET Question
  BY DEF Answered
<1>2. BucketScore(answers, bucket) = Cardinality(T)
  BY ScoresAre
<1> HIDE DEF T
<1>3. QED BY <1>1, <1>2, SomeQuestions

(* Of five answers, at least three fall back on the recommended build: two *)
(* builds share five answers, so that the first comparison decides.        *)
LEMMA ThreeOfFive ==
  ASSUME NEW answers \in Answers, Answered(answers) = Question
  PROVE  /\ GetRecommendedBuild(answers) \in Builds
         /\ Cardinality({ q \in Question : Selected(answers, q).build = GetRecommendedBuild(answers) }) >= 3
<1> DEFINE For(build) == { q \in Question : Selected(answers, q).build = build }
           melee == Cardinality(For(Strength))
           archer == Cardinality(For(Dexterity))
<1>1. FallbackScore(answers, Strength) = melee /\ FallbackScore(answers, Dexterity) = archer
  BY ScoresAre
<1>2. Strength # Dexterity /\ Builds = {Strength, Dexterity}
  BY DEF Strength, Dexterity, Builds
<1>3. For(Strength) \cup For(Dexterity) = Question
  BY <1>2, SelectedTyped
<1>4. For(Strength) \cap For(Dexterity) = {}
  BY <1>2
<1>5. For(Strength) \in SUBSET Question /\ For(Dexterity) \in SUBSET Question
  OBVIOUS
<1> HIDE DEF For
<1>6. melee \in 0 .. 5 /\ archer \in 0 .. 5
  BY <1>5, SomeQuestions
<1>7. melee + archer = 5
  <2>1. IsFiniteSet(For(Strength)) /\ IsFiniteSet(For(Dexterity))
    BY <1>5, SomeQuestions
  <2>2. Cardinality(For(Strength) \cup For(Dexterity))
          = melee + archer - Cardinality(For(Strength) \cap For(Dexterity))
    BY <2>1, FS_Union
  <2>3. Cardinality({}) = 0
    BY FS_EmptySet
  <2>4. 5 = melee + archer - 0
    BY <2>2, <2>3, <1>3, <1>4, FiveQuestions
  <2> HIDE DEF melee, archer
  <2>5. QED BY <2>4, <1>6
<1> HIDE DEF melee, archer
<1>8. melee # archer /\ (melee > archer => melee >= 3) /\ (~(melee > archer) => archer >= 3)
  BY <1>6, <1>7
<1>9. GetRecommendedBuild(answers) = IF melee > archer THEN Strength ELSE Dexterity
  BY <1>1, <1>8 DEF GetRecommendedBuild
<1>10. CASE melee > archer
  <2>1. Cardinality(For(Strength)) >= 3
    BY <1>8, <1>10 DEF melee
  <2>2. QED BY <2>1, <1>2, <1>9, <1>10 DEF For
<1>11. CASE ~(melee > archer)
  <2>1. Cardinality(For(Dexterity)) >= 3
    BY <1>8, <1>11 DEF archer
  <2>2. QED BY <2>1, <1>2, <1>9, <1>11 DEF For
<1>12. QED BY <1>10, <1>11

(* A set of scores has a greatest one.                                     *)
LEMMA GreatestScore ==
  ASSUME NEW T \in SUBSET (0 .. 5), T # {}
  PROVE  Max(T) \in T /\ \A x \in T : x <= Max(T)
<1> DEFINE Below == { 5 - x : x \in T }
<1>1. Below \in SUBSET Nat /\ Below # {}
  OBVIOUS
<1>2. PICK least \in Below : \A y \in Below : least <= y
  BY <1>1, LeastNumber
<1>3. PICK top \in T : least = 5 - top
  BY <1>2
<1>4. ASSUME NEW x \in T PROVE top >= x
  <2>1. 5 - top <= 5 - x
    BY <1>2, <1>3
  <2>2. top \in 0 .. 5 /\ x \in 0 .. 5
    OBVIOUS
  <2>3. QED BY <2>1, <2>2
<1>5. \E m \in T : \A y \in T : m >= y
  BY <1>4
<1>6. Max(T) \in T /\ \A y \in T : Max(T) >= y
  BY <1>5 DEF Max
<1>7. \A x, y \in 0 .. 5 : x >= y => y <= x
  OBVIOUS
<1>8. QED BY <1>6, <1>7

LEMMA TheSmaller ==
  ASSUME NEW n \in Nat
  PROVE  Min({2, n}) = IF n < 2 THEN n ELSE 2
<1> DEFINE least == IF n < 2 THEN n ELSE 2
<1>1. least \in {2, n} /\ \A y \in {2, n} : least =< y
  OBVIOUS
<1>2. \A m \in {2, n} : (\A y \in {2, n} : m =< y) => m = least
  OBVIOUS
<1> HIDE DEF least
<1>3. Min({2, n}) = least
  BY <1>1, <1>2 DEF Min
<1>4. QED BY <1>3 DEF least

Future == ToSet(FutureBuckets)
HighestScore(answers) == Max({ BucketScore(answers, bucket) : bucket \in Buckets })
HighestOnes(answers) == { bucket \in Buckets : BucketScore(answers, bucket) = HighestScore(answers) }
Tied(answers) == IF HighestScore(answers) = 0 THEN <<>> ELSE Filter(FutureBuckets, HighestOnes(answers))

LEMMA FutureBucketsAre == FutureBuckets \in Seq(Future) /\ Future \subseteq Buckets
<1>1. Future = {"futureMagic", "futureHealingSupport", "futureStealthTrickery", "futureSocialCleverChaos"}
  BY DEF Future, ToSet, FutureBuckets
<1>2. QED BY <1>1 DEF FutureBuckets, Buckets, Future

(* The first two of a list.                                                *)
LEMMA FirstTwo ==
  ASSUME NEW S, NEW s \in Seq(S)
  PROVE  LET two == SubSeq(s, 1, Min({2, Len(s)})) IN
         /\ two \in Seq(S) /\ ToSet(two) \subseteq ToSet(s) /\ Len(two) <= 2
         /\ Len(two) < 2 => two = s
<1> DEFINE n == Len(s)
           k == IF n < 2 THEN n ELSE 2
           two == SubSeq(s, 1, k)
<1>1. n \in Nat /\ DOMAIN s = 1 .. n /\ s \in [1 .. n -> S]
  BY LenProperties
<1>2. Min({2, n}) = k
  BY <1>1, TheSmaller
<1> HIDE DEF n
<1>3. k \in Int /\ 1 \in Int /\ k \in 0 .. n /\ k <= 2
  BY <1>1
<1>4. \A i \in 1 .. k : s[i] \in S
  BY <1>1, <1>3
<1> HIDE DEF k
<1>5. /\ two \in Seq(S) /\ Len(two) = IF 1 <= k THEN k - 1 + 1 ELSE 0
      /\ \A i \in 1 .. k - 1 + 1 : two[i] = s[1 + i - 1]
  BY <1>3, <1>4, SubSeqProperties
<1>6. Len(two) = k /\ \A i \in 1 .. k : two[i] = s[i]
  BY <1>3, <1>5
<1> HIDE DEF two
<1>7. DOMAIN two = 1 .. k /\ two \in [1 .. k -> S]
  BY <1>5, <1>6, LenProperties
<1>8. ToSet(two) \subseteq ToSet(s)
  <2>1. \A i \in 1 .. k : i \in 1 .. n
    BY <1>1, <1>3
  <2>2. QED BY <2>1, <1>1, <1>6, <1>7 DEF ToSet
<1>9. Len(two) < 2 => two = s
  <2> SUFFICES ASSUME k < 2 PROVE two = s
    BY <1>6
  <2>1. k = n
    BY <1>1 DEF k
  <2>2. QED BY <2>1, <1>1, <1>6, <1>7
<1>10. QED BY <1>2, <1>3, <1>5, <1>6, <1>8, <1>9 DEF two, n

LEMMA HighestIs ==
  ASSUME NEW answers
  PROVE  /\ HighestScore(answers) \in 0 .. 5
         /\ \A bucket \in Buckets : BucketScore(answers, bucket) <= HighestScore(answers)
         /\ \A bucket \in Buckets : bucket \in HighestOnes(answers)
              <=> \A other \in Buckets : BucketScore(answers, other) <= BucketScore(answers, bucket)
<1> DEFINE T == { BucketScore(answers, bucket) : bucket \in Buckets }
           highest == HighestScore(answers)
<1>1. T \in SUBSET (0 .. 5) /\ T # {}
  BY BucketScoreTyped DEF Buckets
<1>2. highest = Max(T)
  BY DEF HighestScore
<1>3. highest \in T /\ \A x \in T : x <= highest
  <2> HIDE DEF T
  <2>1. Max(T) \in T /\ \A x \in T : x <= Max(T)
    BY <1>1, GreatestScore
  <2>2. QED BY <2>1, <1>2
<1>4. PICK top \in Buckets : highest = BucketScore(answers, top)
  BY <1>3
<1>5. \A bucket \in Buckets : BucketScore(answers, bucket) <= highest /\ BucketScore(answers, bucket) \in T
  BY <1>3
<1>6. highest \in 0 .. 5
  BY <1>1, <1>3
<1> HIDE DEF highest, T
<1>7. ASSUME NEW bucket \in Buckets
      PROVE  BucketScore(answers, bucket) = highest
               <=> \A other \in Buckets : BucketScore(answers, other) <= BucketScore(answers, bucket)
  <2>1. ASSUME \A other \in Buckets : BucketScore(answers, other) <= BucketScore(answers, bucket)
        PROVE  BucketScore(answers, bucket) = highest
    <3> DEFINE score == BucketScore(answers, bucket)
    <3>1. highest <= score /\ score <= highest /\ score \in 0 .. 5
      BY <2>1, <1>4, <1>5, BucketScoreTyped
    <3> HIDE DEF score
    <3>2. score = highest
      BY <3>1, <1>6
    <3>3. QED BY <3>2 DEF score
  <2>2. QED BY <2>1, <1>5
<1>8. QED BY <1>5, <1>6, <1>7 DEF HighestOnes, highest

LEMMA TiedAre ==
  ASSUME NEW answers
  PROVE  /\ GetUnsupportedFantasyBuckets(answers) = SubSeq(Tied(answers), 1, Min({2, Len(Tied(answers))}))
         /\ Tied(answers) \in Seq(Future)
         /\ HighestScore(answers) # 0 => ToSet(Tied(answers)) = Future \cap HighestOnes(answers)
<1>1. GetUnsupportedFantasyBuckets(answers) = SubSeq(Tied(answers), 1, Min({2, Len(Tied(answers))}))
  BY DEF GetUnsupportedFantasyBuckets, Tied, HighestOnes, HighestScore
<1>2. /\ Filter(FutureBuckets, HighestOnes(answers)) \in Seq(Future)
      /\ ToSet(Filter(FutureBuckets, HighestOnes(answers))) = Future \cap HighestOnes(answers)
  BY FutureBucketsAre, FilterProperties DEF Future
<1>3. <<>> \in Seq(Future)
  OBVIOUS
<1>4. QED BY <1>1, <1>2, <1>3 DEF Tied

(* With all questions answered, the paths named are as strong as any       *)
(* bucket, at most two, and none is left out while there is room.          *)
LEMMA NamedPaths ==
  ASSUME NEW answers \in Answers, Answered(answers) = Question
  PROVE  LET unsupported == GetUnsupportedFantasyBuckets(answers)
             strongest == { bucket \in Future : \A other \in Buckets :
                              BucketScore(answers, other) <= BucketScore(answers, bucket) }
         IN /\ ToSet(unsupported) \subseteq strongest /\ Len(unsupported) <= 2
            /\ Len(unsupported) < 2 => strongest \subseteq ToSet(unsupported)
<1> DEFINE tied == Tied(answers)
           unsupported == GetUnsupportedFantasyBuckets(answers)
           strongest == { bucket \in Future : \A other \in Buckets :
                            BucketScore(answers, other) <= BucketScore(answers, bucket) }
<1>1. HighestScore(answers) # 0
  <2>1. 1 \in Answered(answers)
    BY QuestionsAre
  <2> DEFINE bucket == Selected(answers, 1).bucket
             T == { q \in Answered(answers) : Selected(answers, q).bucket = bucket }
  <2>2. bucket \in Buckets
    BY <2>1, SelectedTyped
  <2>3. T \in SUBSET Question /\ T # {} /\ BucketScore(answers, bucket) = Cardinality(T)
    BY <2>1, ScoresAre
  <2> HIDE DEF bucket, T
  <2>4. BucketScore(answers, bucket) > 0 /\ BucketScore(answers, bucket) \in 0 .. 5
    BY <2>3, SomeQuestions
  <2>5. BucketScore(answers, bucket) <= HighestScore(answers) /\ HighestScore(answers) \in 0 .. 5
    BY <2>2, HighestIs
  <2>6. QED BY <2>4, <2>5
<1>2. strongest = Future \cap HighestOnes(answers)
  BY FutureBucketsAre, HighestIs
<1>3. tied \in Seq(Future) /\ ToSet(tied) = strongest /\ unsupported = SubSeq(tied, 1, Min({2, Len(tied)}))
  BY <1>1, <1>2, TiedAre
<1> HIDE DEF tied, unsupported, strongest
<1>4. ToSet(unsupported) \subseteq ToSet(tied) /\ Len(unsupported) <= 2 /\ (Len(unsupported) < 2 => unsupported = tied)
  BY <1>3, FirstTwo
<1>5. QED BY <1>3, <1>4 DEF unsupported, strongest

(* The state of the questionnaire: what it recommends is what its answers  *)
(* give, whichever of them was changed last.                               *)
QuizType ==
  [mode : {"none", "manual", "guided"}, answers : Answers, index : Question, recommending : BOOLEAN,
   reviewing : BOOLEAN, recommended : Builds \cup {"none"}, unsupported : Seq(Future),
   selected : Builds \cup {"none"}, overridden : BOOLEAN]
QuizFits(q) ==
  /\ q \in QuizType
  /\ q.recommended = GetRecommendedBuild(q.answers)
  /\ q.unsupported = GetUnsupportedFantasyBuckets(q.answers)
  /\ q.overridden <=> "none" \notin {q.selected, q.recommended} /\ q.selected # q.recommended

LEMMA RecommendedTyped ==
  ASSUME NEW answers \in Answers
  PROVE  /\ GetRecommendedBuild(answers) \in Builds \cup {"none"}
         /\ GetUnsupportedFantasyBuckets(answers) \in Seq(Future)
<1>1. Answered(answers) # Question => GetRecommendedBuild(answers) = "none"
  BY DEF GetRecommendedBuild
<1>2. GetRecommendedBuild(answers) \in Builds \cup {"none"}
  BY <1>1, ThreeOfFive
<1>3. GetUnsupportedFantasyBuckets(answers) \in Seq(Future)
  <2> DEFINE tied == Tied(answers)
  <2>1. tied \in Seq(Future) /\ GetUnsupportedFantasyBuckets(answers) = SubSeq(tied, 1, Min({2, Len(tied)}))
    BY TiedAre
  <2> HIDE DEF tied
  <2>2. QED BY <2>1, FirstTwo
<1>4. QED BY <1>2, <1>3

LEMMA NoBuildIsNone == "none" \notin Builds
  BY DEF Builds, Strength, Dexterity

LEMMA ScoredFits ==
  ASSUME NEW q \in QuizType
  PROVE  QuizFits(Scored(q)) /\ Scored(q).index = q.index
<1> DEFINE recommended == GetRecommendedBuild(q.answers)
           unsupported == GetUnsupportedFantasyBuckets(q.answers)
           overridden == recommended # "none" /\ q.selected \notin {"none", recommended}
           s == [q EXCEPT !.recommended = recommended, !.unsupported = unsupported, !.overridden = overridden]
<1>1. q.answers \in Answers
  BY DEF QuizType
<1>2. recommended \in Builds \cup {"none"} /\ unsupported \in Seq(Future)
  BY <1>1, RecommendedTyped
<1>3. overridden \in BOOLEAN
  OBVIOUS
<1>4. Scored(q) = s
  BY DEF Scored
<1> HIDE DEF recommended, unsupported
<1>5. /\ s.answers = q.answers /\ s.recommended = recommended /\ s.unsupported = unsupported
      /\ s.selected = q.selected /\ s.index = q.index
  BY DEF QuizType
<1>6. s.overridden <=> overridden
  BY DEF QuizType
<1>7. s \in QuizType
  <2> HIDE DEF overridden
  <2>1. [q EXCEPT !.recommended = recommended] \in QuizType
    BY <1>2 DEF QuizType
  <2>2. \A r \in QuizType : [r EXCEPT !.unsupported = unsupported] \in QuizType
    BY <1>2 DEF QuizType
  <2>3. \A r \in QuizType : [r EXCEPT !.overridden = overridden] \in QuizType
    BY <1>3 DEF QuizType
  <2>4. QED BY <2>1, <2>2, <2>3
<1> HIDE DEF s
<1>8. QuizFits(s)
  BY <1>5, <1>6, <1>7 DEF QuizFits, recommended, unsupported
<1>9. QED BY <1>4, <1>5, <1>8

(* Where the page is does not matter to what it recommends.                *)
LEMMA PageMovesFit ==
  ASSUME NEW q, QuizFits(q)
  PROVE  /\ \A mode \in {"none", "manual", "guided"} : QuizFits([q EXCEPT !.mode = mode])
         /\ \A i \in Question : QuizFits([q EXCEPT !.index = i])
         /\ \A b \in BOOLEAN : QuizFits([q EXCEPT !.recommending = b])
         /\ \A b \in BOOLEAN : QuizFits([q EXCEPT !.reviewing = b])
<1>1. ASSUME NEW mode \in {"none", "manual", "guided"} PROVE QuizFits([q EXCEPT !.mode = mode])
  BY DEF QuizFits, QuizType
<1>2. ASSUME NEW i \in Question PROVE QuizFits([q EXCEPT !.index = i])
  BY DEF QuizFits, QuizType
<1>3. ASSUME NEW b \in BOOLEAN PROVE QuizFits([q EXCEPT !.recommending = b])
  BY DEF QuizFits, QuizType
<1>4. ASSUME NEW b \in BOOLEAN PROVE QuizFits([q EXCEPT !.reviewing = b])
  BY DEF QuizFits, QuizType
<1>5. QED BY <1>1, <1>2, <1>3, <1>4

LEMMA FirstQuizFits == QuizFits(FirstQuiz)
<1> DEFINE answers == [q \in Question |-> 0]
<1>1. 1 \in Question /\ \A q \in Question : answers[q] = 0
  BY QuestionsAre
<1>2. answers \in Answers
  BY DEF Answers
<1>3. Answered(answers) = {}
  BY <1>1 DEF Answered
<1> HIDE DEF answers
<1>4. GetRecommendedBuild(answers) = "none"
  BY <1>1, <1>3 DEF GetRecommendedBuild
<1>5. \A bucket : BucketScore(answers, bucket) = 0
  <2>1. ASSUME NEW bucket PROVE BucketScore(answers, bucket) = 0
    <3>1. BucketScore(answers, bucket) = Cardinality({ q \in Answered(answers) : Selected(answers, q).bucket = bucket })
      BY ScoresAre
    <3>2. { q \in Answered(answers) : Selected(answers, q).bucket = bucket } = {}
      BY <1>3
    <3>3. QED BY <3>1, <3>2, FS_EmptySet
  <2>2. QED BY <2>1
<1>6. HighestScore(answers) = 0
  <2>1. { BucketScore(answers, bucket) : bucket \in Buckets } = {0}
    BY <1>5 DEF Buckets
  <2>2. Max({0}) = 0
    BY DEF Max
  <2>3. QED BY <2>1, <2>2 DEF HighestScore
<1>7. GetUnsupportedFantasyBuckets(answers) = <<>>
  <2>1. Tied(answers) = <<>>
    BY <1>6 DEF Tied
  <2>2. <<>> \in Seq(Future) /\ Len(<<>>) = 0
    OBVIOUS
  <2>3. GetUnsupportedFantasyBuckets(answers) = SubSeq(<<>>, 1, Min({2, Len(<<>>)}))
    BY <2>1, TiedAre
  <2>4. Len(SubSeq(<<>>, 1, Min({2, Len(<<>>)}))) < 2 => SubSeq(<<>>, 1, Min({2, Len(<<>>)})) = <<>>
    BY <2>2, FirstTwo
  <2>5. Min({2, 0}) = 0
    BY TheSmaller
  <2>6. SubSeq(<<>>, 1, 0) = <<>>
    BY SubSeqEmpty
  <2>7. QED BY <2>2, <2>3, <2>5, <2>6
<1>8. FirstQuiz = [mode |-> "none", answers |-> answers, index |-> 1, recommending |-> FALSE,
                   reviewing |-> FALSE, recommended |-> "none", unsupported |-> <<>>, selected |-> "none",
                   overridden |-> FALSE]
  BY DEF FirstQuiz, answers
<1>9. <<>> \in Seq(Future)
  OBVIOUS
<1>10. FirstQuiz \in QuizType
  BY <1>1, <1>2, <1>8, <1>9 DEF QuizType
<1>11. QED BY <1>4, <1>7, <1>8, <1>10 DEF QuizFits

LEMMA QuizLeadingToFits ==
  ASSUME NEW build \in Builds
  PROVE  QuizFits(QuizLeadingTo(build))
<1> DEFINE q == [FirstQuiz EXCEPT !.mode = "guided", !.answers = [n \in Question |-> 1], !.selected = build]
           s == Scored(q)
<1>1. FirstQuiz \in QuizType
  BY FirstQuizFits DEF QuizFits
<1>2. [n \in Question |-> 1] \in Answers
  BY DEF Answers
<1>3. q \in QuizType
  BY <1>1, <1>2 DEF QuizType
<1> HIDE DEF q
<1>4. QuizFits(s)
  BY <1>3, ScoredFits
<1>5. QuizLeadingTo(build) = [s EXCEPT !.index = LastQuestion, !.recommending = TRUE, !.reviewing = TRUE]
  BY DEF QuizLeadingTo, q
<1> HIDE DEF s
<1>6. LastQuestion \in Question
  BY QuestionsAre
<1>7. QuizFits([s EXCEPT !.index = LastQuestion])
  BY <1>4, <1>6, PageMovesFit
<1>8. QuizFits([[s EXCEPT !.index = LastQuestion] EXCEPT !.recommending = TRUE])
  BY <1>7, PageMovesFit
<1>9. QuizFits([[[s EXCEPT !.index = LastQuestion] EXCEPT !.recommending = TRUE] EXCEPT !.reviewing = TRUE])
  BY <1>8, PageMovesFit
<1>10. QED BY <1>5, <1>9

QuizInv == scope \in Scopes /\ QuizFits(quiz)

LEMMA QuizFields ==
  ASSUME QuizFits(quiz)
  PROVE  /\ quiz \in QuizType /\ quiz.index \in Question /\ quiz.answers \in Answers
         /\ quiz.recommended \in Builds \cup {"none"}
  BY DEF QuizFits, QuizType

LEMMA ModeFits ==
  ASSUME QuizFits(quiz), NEW mode \in {"manual", "guided"}, ChooseMode(mode)
  PROVE  QuizFits(quiz')
<1>1. 1 \in Question
  BY QuestionsAre
<1>2. QuizFits([quiz EXCEPT !.mode = mode])
  BY PageMovesFit
<1>3. QuizFits([[quiz EXCEPT !.mode = mode] EXCEPT !.index = 1])
  BY <1>1, <1>2, PageMovesFit
<1>4. QuizFits([[[quiz EXCEPT !.mode = mode] EXCEPT !.index = 1] EXCEPT !.recommending = FALSE])
  BY <1>3, PageMovesFit
<1>5. QuizFits([quiz EXCEPT !.mode = mode, !.index = 1, !.recommending = FALSE, !.reviewing = FALSE])
  BY <1>4, PageMovesFit
<1>6. QED BY <1>2, <1>5 DEF ChooseMode

LEMMA AnswerFits ==
  ASSUME QuizFits(quiz), AnswerQuestion
  PROVE  QuizFits(quiz')
<1>1. PICK a \in DOMAIN QuizQuestions[quiz.index] : quiz' = Scored([quiz EXCEPT !.answers[quiz.index] = a])
  BY DEF AnswerQuestion
<1>2. a \in 1 .. 4 /\ quiz.index \in Question /\ quiz.answers \in Answers
  BY <1>1, QuizFields, QuestionsAre
<1>3. [quiz.answers EXCEPT ![quiz.index] = a] \in Answers
  BY <1>2 DEF Answers
<1>4. [quiz EXCEPT !.answers[quiz.index] = a] \in QuizType
  BY <1>3, QuizFields DEF QuizType
<1>5. QED BY <1>1, <1>4, ScoredFits

LEMMA NextQuestionFits ==
  ASSUME QuizFits(quiz), GoNext
  PROVE  QuizFits(quiz')
<1>1. quiz' = IF quiz.index = LastQuestion THEN [Scored(quiz) EXCEPT !.recommending = TRUE]
                                           ELSE [quiz EXCEPT !.index = quiz.index + 1]
  BY DEF GoNext
<1>2. QuizFits(Scored(quiz))
  BY QuizFields, ScoredFits
<1>3. QuizFits([Scored(quiz) EXCEPT !.recommending = TRUE])
  BY <1>2, PageMovesFit
<1>4. ASSUME quiz.index # LastQuestion PROVE QuizFits([quiz EXCEPT !.index = quiz.index + 1])
  <2>1. quiz.index + 1 \in Question
    <3> DEFINE i == quiz.index
    <3>1. i \in 1 .. 5 /\ i # 5
      BY <1>4, QuizFields, QuestionsAre
    <3> HIDE DEF i
    <3>2. i + 1 \in 1 .. 5
      BY <3>1
    <3>3. QED BY <3>2, QuestionsAre DEF i
  <2>2. QED BY <2>1, PageMovesFit
<1>5. QED BY <1>1, <1>3, <1>4

LEMMA BackFits ==
  ASSUME QuizFits(quiz), GoBack
  PROVE  QuizFits(quiz')
<1> DEFINE i == quiz.index
           before == Max({i - 1, 1})
<1>1. \/ quiz' = [quiz EXCEPT !.reviewing = FALSE, !.recommending = TRUE]
      \/ quiz' = [quiz EXCEPT !.recommending = FALSE, !.index = LastQuestion]
      \/ quiz' = [quiz EXCEPT !.index = before]
  BY DEF GoBack
<1>2. QuizFits([quiz EXCEPT !.reviewing = FALSE]) /\ QuizFits([quiz EXCEPT !.recommending = FALSE])
  BY PageMovesFit
<1>3. QuizFits([quiz EXCEPT !.reviewing = FALSE, !.recommending = TRUE])
  BY <1>2, PageMovesFit
<1>4. QuizFits([quiz EXCEPT !.recommending = FALSE, !.index = LastQuestion])
  <2>1. LastQuestion \in Question
    BY QuestionsAre
  <2>2. QED BY <1>2, <2>1, PageMovesFit
<1>5. QuizFits([quiz EXCEPT !.index = before])
  <2>1. i \in 1 .. 5
    BY QuizFields, QuestionsAre
  <2> HIDE DEF i
  <2>2. {i - 1, 1} \in SUBSET (0 .. 5) /\ {i - 1, 1} # {}
    BY <2>1
  <2>3. before \in {i - 1, 1} /\ \A x \in {i - 1, 1} : x <= before
    BY <2>2, GreatestScore
  <2> HIDE DEF before
  <2>4. before \in 1 .. 5
    BY <2>1, <2>3
  <2>5. QED BY <2>4, PageMovesFit, QuestionsAre
<1>6. QED BY <1>1, <1>3, <1>4, <1>5

(* A build is chosen from the recommendation, so that it is overridden     *)
(* exactly when it is another one.                                         *)
LEMMA BuildFits ==
  ASSUME QuizFits(quiz), NEW build \in Builds, ChooseBuild(build)
  PROVE  QuizFits(quiz')
<1> DEFINE overridden == quiz.recommended \notin {"none", build}
           chosen == [quiz EXCEPT !.selected = build, !.reviewing = TRUE, !.overridden = overridden]
<1>1. quiz' = chosen
  BY DEF ChooseBuild
<1>2. overridden \in BOOLEAN
  OBVIOUS
<1>3. overridden <=> "none" \notin {build, quiz.recommended} /\ build # quiz.recommended
  BY NoBuildIsNone
<1> HIDE DEF overridden
<1>4. /\ chosen.answers = quiz.answers /\ chosen.recommended = quiz.recommended
      /\ chosen.unsupported = quiz.unsupported /\ chosen.selected = build
  BY QuizFields DEF QuizType
<1>5. chosen.overridden <=> overridden
  BY QuizFields DEF QuizType
<1>6. chosen \in QuizType
  <2>1. [quiz EXCEPT !.selected = build] \in QuizType
    BY QuizFields DEF QuizType
  <2>2. \A r \in QuizType : [r EXCEPT !.reviewing = TRUE] \in QuizType
    BY DEF QuizType
  <2>3. \A r \in QuizType : [r EXCEPT !.overridden = overridden] \in QuizType
    BY <1>2 DEF QuizType
  <2>4. QED BY <2>1, <2>2, <2>3
<1> HIDE DEF chosen
<1>7. QuizFits(chosen)
  BY <1>3, <1>4, <1>5, <1>6 DEF QuizFits
<1>8. QED BY <1>1, <1>7

LEMMA QuizInvNext ==
  ASSUME QuizInv, [Next]_vars
  PROVE  QuizInv'
<1>1. scope \in Scopes /\ QuizFits(quiz)
  BY DEF QuizInv
<1>2. SUFFICES scope' = scope /\ QuizFits(quiz')
  <2>1. ASSUME scope' = scope, QuizFits(quiz') PROVE QuizInv'
    BY <1>1, <2>1 DEF QuizInv, QuizFits
  <2>2. QED BY <2>1
<1>3. CASE PickMode
  BY <1>1, <1>3, ModeFits DEF PickMode
<1>4. CASE Answer
  BY <1>1, <1>4, AnswerFits DEF Answer
<1>5. CASE Advance
  BY <1>1, <1>5, NextQuestionFits DEF Advance
<1>6. CASE StepBack
  BY <1>1, <1>6, BackFits DEF StepBack
<1>7. CASE PickBuild
  BY <1>1, <1>7, BuildFits DEF PickBuild
<1>8. CASE Leave
  BY <1>8, FirstQuizFits DEF Leave
<1>9. CASE \/ SetRace \/ SetClass \/ SetLevel \/ SetSubclass
           \/ SetMode \/ SetScore \/ ResetToCalculated \/ Choose \/ WriteNote
           \/ SetGain \/ ToggleOverride \/ ToggleSpellAttack
           \/ SetDefenseMode \/ SetArmor \/ SetShield \/ SetFormula
           \/ AddEquipment \/ ToggleEquipped \/ RemoveEquipment
           \/ EditCantrips \/ EditLearned \/ EditPrepared
  <2>1. scope' = scope /\ quiz' = quiz
    BY <1>9, EditFrame
  <2>2. QED BY <1>1, <2>1
<1>10. CASE Review \/ BackToEdit \/ Save
  BY <1>1, <1>10 DEF Review, BackToEdit, Save
<1>11. CASE UNCHANGED vars
  BY <1>1, <1>11 DEF vars
<1>12. QED BY <1>3, <1>4, <1>5, <1>6, <1>7, <1>8, <1>9, <1>10, <1>11 DEF Next

(* The recommendation on the screen is the one that the answers give as    *)
(* they are now: three of five fall back on it, and the future paths named *)
(* are the strongest; an override is another build than the recommended.   *)
THEOREM RecommendationsFit == Spec => []RecommendationFitsTheAnswers
<1>1. Init => QuizInv
  <2> SUFFICES ASSUME Init PROVE QuizInv
    OBVIOUS
  <2>1. scope \in Scopes
    BY DEF Init
  <2>2. QuizFits(QuizLeadingTo(scope.build))
    BY <2>1, ScopesAssumption, QuizLeadingToFits
  <2>3. QuizFits([FirstQuiz EXCEPT !.mode = "manual"])
    BY FirstQuizFits, PageMovesFit
  <2>4. QuizFits(quiz)
    BY <2>2, <2>3, FirstQuizFits DEF Init
  <2>5. QED BY <2>1, <2>4 DEF QuizInv
<1>2. QuizInv /\ [Next]_vars => QuizInv'
  BY QuizInvNext
<1>3. QuizInv => RecommendationFitsTheAnswers
  <2> SUFFICES ASSUME QuizInv PROVE RecommendationFitsTheAnswers
    OBVIOUS
  <2>1. QuizFits(quiz) /\ quiz.answers \in Answers
    BY QuizFields DEF QuizInv
  <2>2. quiz.overridden <=> "none" \notin {quiz.selected, quiz.recommended} /\ quiz.selected # quiz.recommended
    BY <2>1 DEF QuizFits
  <2>3. ASSUME Screen = "recommendation"
        PROVE  /\ Cardinality({ q \in Question : Favours(quiz.recommended, q) }) >= 3
               /\ ToSet(quiz.unsupported) \subseteq { bucket \in ToSet(FutureBuckets) : Strongest(bucket) }
               /\ Len(quiz.unsupported) <= 2
               /\ Len(quiz.unsupported) < 2 =>
                    { bucket \in ToSet(FutureBuckets) : Strongest(bucket) } \subseteq ToSet(quiz.unsupported)
    <3>1. Answered(quiz.answers) = Question
      <4>1. GetRecommendedBuild(quiz.answers) # "none"
        BY <2>3 DEF Screen
      <4>2. QED BY <4>1 DEF GetRecommendedBuild
    <3>2. Cardinality({ q \in Question : Favours(quiz.recommended, q) }) >= 3
      BY <2>1, <3>1, ThreeOfFive DEF QuizFits, Favours
    <3>3. { bucket \in ToSet(FutureBuckets) : Strongest(bucket) }
            = { bucket \in Future : \A other \in Buckets :
                  BucketScore(quiz.answers, other) <= BucketScore(quiz.answers, bucket) }
      BY DEF Strongest, Future
    <3>4. QED BY <2>1, <3>1, <3>2, <3>3, NamedPaths DEF QuizFits
  <2>4. QED BY <2>2, <2>3 DEF RecommendationFitsTheAnswers
<1>4. QED BY <1>1, <1>2, <1>3, PTL DEF Spec
=============================================================================
