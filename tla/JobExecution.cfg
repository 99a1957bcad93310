SPECIFICATION FairSpec
CONSTANTS
  NStages = 2
  NPipelines = 4
  StageOf <- TwoStages
  RunMode <- Modes2
  StepCount <- Counts
  FailurePolicy <- Policies
  MaxAttempts = 2
  MaxFaults = 2
CHECK_DEADLOCK FALSE
INVARIANTS TypeOK PageNeedsEveryStep StageBarrier NothingLeftRunning TraceTellsOutcome FatalOnlyAfterLostSave UsageFollowsPages
PROPERTIES KeepsPromise ExecutionEnds
