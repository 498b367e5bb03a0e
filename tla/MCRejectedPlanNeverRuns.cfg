SPECIFICATION Spec
CONSTANTS
  Tools <- MCTools
  Registered <- MCRegistered
  ParallelSafe <- MCParallelSafe
  Destructive <- MCDestructive
  FileCreating <- MCFileCreating
  FilePatch = "patch"
  Paths = {"f"}
  MaxSteps = 16
  GroupLimit = 2
  MaxParallelTools = 2
  Plans <- MCPlans
  Decisions = {"advance", "retry_step", "replan", "complete", "fatal"}
  NoTool = NoTool
  ParallelExecution = ParallelExecution
  RequirePlanReview = TRUE
  Turns = 3
  StepRetries = 3
  Fallbacks = 3
  AttemptsCap = 2
  MaxRuns = 1
INVARIANT RejectedPlanNeverRuns
CHECK_DEADLOCK FALSE
