SPECIFICATION FairSpec
CONSTANTS
  Tools <- MCTools
  Registered <- MCRegistered
  ParallelSafe <- MCParallelSafe
  Destructive <- MCDestructive
  FileCreating <- MCFileCreating
  FilePatch = "patch"
  Paths = {"f"}
  MaxSteps = 12
  GroupLimit = 2
  MaxParallelTools = 2
  Plans <- MCPlans
  Decisions = {"advance", "retry_step", "replan", "complete", "fatal"}
  NoTool = NoTool
  ParallelExecution = ParallelExecution
  RequirePlanReview = TRUE
  Turns = 2
  StepRetries = 2
  Fallbacks = 2
  AttemptsCap = 2
  MaxRuns = 2
INVARIANTS
  TypeOK
  DecisionObeyedOnce
  SelectedToolIsCurrent
  GroupRunWhole
  AnswerAfterAllSteps
  RetriedAtMostOnce
  NothingRunsUnapproved
  ReviewShowsWhatRuns
  BudgetKept
  EndsComplete
PROPERTIES
  RunEnds
  ImplementsLifecycle
CHECK_DEADLOCK FALSE
