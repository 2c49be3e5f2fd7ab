------------------------ MODULE CreationQuestionnaire -------------------------
(***************************************************************************)
(* "Help me choose": the page before the creation form                     *)
(* (character-creation/CharacterCreationPage.tsx). Five questions with     *)
(* four answers each recommend one of two Fighters; the user takes the     *)
(* recommended one or the other. What an answer says is abstracted to its  *)
(* fantasy bucket and to the build it falls back on; the bucket scores,    *)
(* which the page keeps but never shows, are calculated when needed.       *)
(***************************************************************************)
EXTENDS ArrayFilter, Integers, SequencesExt, FiniteSetsExt

VARIABLE quiz   \* the page's state: see FirstQuiz

Strength  == "strength-melee-fighter"
Dexterity == "dexterity-archer-fighter"
Builds    == {Strength, Dexterity}

FutureBuckets == <<"futureMagic", "futureHealingSupport", "futureStealthTrickery", "futureSocialCleverChaos">>
Buckets == {"strengthMelee", "dexterityArcher"} \cup ToSet(FutureBuckets)

QuizQuestions ==
  LET Melee   == [bucket |-> "strengthMelee", build |-> Strength]
      Archery == [bucket |-> "dexterityArcher", build |-> Dexterity]
      Magic   == [bucket |-> "futureMagic", build |-> Dexterity]
      Healing == [bucket |-> "futureHealingSupport", build |-> Strength]
      Stealth == [bucket |-> "futureStealthTrickery", build |-> Dexterity]
      Social  == [bucket |-> "futureSocialCleverChaos", build |-> Dexterity]
  IN << <<Melee, Archery, Magic, Healing>>, <<Melee, Archery, Stealth, Social>>,
        <<Melee, Archery, Healing, Stealth>>, <<Melee, Archery, Magic, Social>>,
        <<Melee, Archery, Magic, Social>> >>

Question == DOMAIN QuizQuestions
LastQuestion == Len(QuizQuestions)

(* The questions answered, with 0 for no answer, and what was answered.    *)
Answered(answers) == { q \in Question : answers[q] # 0 }
Selected(answers, q) == QuizQuestions[q][answers[q]]

BucketScore(answers, bucket) == Quantify(Answered(answers), LAMBDA q : Selected(answers, q).bucket = bucket)
FallbackScore(answers, build) == Quantify(Answered(answers), LAMBDA q : Selected(answers, q).build = build)

(* The future buckets no other bucket exceeds, the first two of them.      *)
GetUnsupportedFantasyBuckets(answers) ==
  LET highest == Max({ BucketScore(answers, bucket) : bucket \in Buckets })
      highestOnes == { bucket \in Buckets : BucketScore(answers, bucket) = highest }
      tied == IF highest = 0 THEN <<>> ELSE Filter(FutureBuckets, highestOnes)
  IN SubSeq(tied, 1, Min({2, Len(tied)}))

(* The fallbacks decide, then the supported buckets, then the last answer. *)
GetRecommendedBuild(answers) ==
  LET melee  == FallbackScore(answers, Strength)
      archer == FallbackScore(answers, Dexterity)
      front  == BucketScore(answers, "strengthMelee")
      shot   == BucketScore(answers, "dexterityArcher")
  IN IF Answered(answers) # Question THEN "none"
     ELSE IF melee # archer THEN IF melee > archer THEN Strength ELSE Dexterity
     ELSE IF front # shot THEN IF front > shot THEN Strength ELSE Dexterity
     ELSE Selected(answers, LastQuestion).build

------------------------------------------------------------------------------
FirstQuiz ==
  [mode |-> "none", answers |-> [q \in Question |-> 0], index |-> 1, recommending |-> FALSE,
   reviewing |-> FALSE, recommended |-> "none", unsupported |-> <<>>, selected |-> "none",
   overridden |-> FALSE]

(* What the page renders as long as no form has been opened.               *)
Screen ==
  CASE quiz.mode = "none"                                                                -> "modes"
    [] quiz.mode = "manual" \/ quiz.reviewing                                            -> "form"
    [] quiz.recommending /\ ~quiz.reviewing /\ GetRecommendedBuild(quiz.answers) # "none" -> "recommendation"
    [] OTHER                                                                             -> "quiz"

(* Mutant: the recommendation is calculated once.                          *)
ScoredOnce(q) ==
  LET recommended == IF q.recommended = "none" THEN GetRecommendedBuild(q.answers) ELSE q.recommended IN
  [q EXCEPT !.recommended = recommended, !.unsupported = GetUnsupportedFantasyBuckets(q.answers),
            !.overridden = recommended # "none" /\ q.selected \notin {"none", recommended}]

Scored(q) ==
  LET recommended == GetRecommendedBuild(q.answers) IN
  [q EXCEPT !.recommended = recommended, !.unsupported = GetUnsupportedFantasyBuckets(q.answers),
            !.overridden = recommended # "none" /\ q.selected \notin {"none", recommended}]

ChooseMode(mode) ==
  /\ Screen = "modes"
  /\ quiz' = IF mode = "guided"
             THEN [quiz EXCEPT !.mode = mode, !.index = 1, !.recommending = FALSE, !.reviewing = FALSE]
             ELSE [quiz EXCEPT !.mode = mode]

AnswerQuestion ==
  /\ Screen = "quiz"
  /\ \E a \in DOMAIN QuizQuestions[quiz.index] : quiz' = Scored([quiz EXCEPT !.answers[quiz.index] = a])

GoNext ==
  /\ Screen = "quiz" /\ quiz.answers[quiz.index] # 0
  /\ quiz' = IF quiz.index = LastQuestion THEN [Scored(quiz) EXCEPT !.recommending = TRUE]
                                          ELSE [quiz EXCEPT !.index = @ + 1]

(* The form's Back is this one too, whatever the form shows.               *)
GoBack ==
  quiz' = CASE quiz.reviewing -> [quiz EXCEPT !.reviewing = FALSE, !.recommending = TRUE]
            [] quiz.recommending /\ ~quiz.reviewing -> [quiz EXCEPT !.recommending = FALSE, !.index = LastQuestion]
            [] OTHER -> [quiz EXCEPT !.index = Max({@ - 1, 1})]

ChooseBuild(build) ==
  /\ Screen = "recommendation"
  /\ quiz' = [quiz EXCEPT !.selected = build, !.reviewing = TRUE,
                          !.overridden = quiz.recommended \notin {"none", build}]

(* A user who chose the build after answering the first way throughout.    *)
QuizLeadingTo(build) ==
  [Scored([FirstQuiz EXCEPT !.mode = "guided", !.answers = [q \in Question |-> 1], !.selected = build])
     EXCEPT !.index = LastQuestion, !.recommending = TRUE, !.reviewing = TRUE]
=============================================================================
