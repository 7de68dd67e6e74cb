CONSTANTS
  Plans <- AllPlans
  MaxStatusErrors = 2
  ArtifactAttempts = 2
  CleanupTries = 2
  StoreFaults = FALSE
SPECIFICATION Spec
INVARIANTS
  ActiveRunIsOnRecord
  SupervisedHandleIsOnRecord
  ExitedRecordIsCurrent
PROPERTIES
  OutputsOutliveMachine
  ImplementsLifecycle
