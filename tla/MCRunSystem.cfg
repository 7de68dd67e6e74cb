CONSTANTS
  Plans <- AllPlans
  MaxStatusErrors = 1
  ArtifactAttempts = 1
  CleanupTries = 1
  StoreFaults = TRUE
  Invocations <- AllInvocations
SPECIFICATION SysSpec

  
  
PROPERTIES
  GcSparesRecordedRun
CONSTRAINTS
  GcComesLast
