CONSTANTS
  Plans <- PatientJobs
  MaxStatusErrors = 2
  ArtifactAttempts = 1
  CleanupTries = 1
  StoreFaults = FALSE
SPECIFICATION FairSpec

  
PROPERTIES
  ExecuteReturns
