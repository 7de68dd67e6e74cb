CONSTANTS
  Specs <- MCSpecs
  MaxShardCount = 4
  MaxItems = 4
  DefaultMaxParallel = 2
  AutoApprove = 2
SPECIFICATION FairSpec
INVARIANTS
  SummaryIsHonest
  SuccessIsComplete
PROPERTIES
  EngineReturns
