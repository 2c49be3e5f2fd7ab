SPECIFICATION Spec
CONSTANT Scopes <- MCScopes
INVARIANTS DraftHoldsOnlyWhatIsOffered  RecommendationFitsTheAnswers
PROPERTY RefusalsAreExplained
CHECK_DEADLOCK FALSE
