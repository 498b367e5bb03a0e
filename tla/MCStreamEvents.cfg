SPECIFICATION Spec
CONSTANTS
  MaxTokens = 4
  MaxUpdates = 4
INVARIANTS TypeOK TokensOnce ScreenShowsAnswer EndTellsOutcome
PROPERTY StreamEnds
CHECK_DEADLOCK FALSE
