SPECIFICATION Spec
CONSTANTS
  r1 = r1
  r2 = r2
  Runs = {r1, r2}
  Providers = {"aws", "azure", "gcp", "hetzner", "oci", "lambda", "lima", "firecracker", "kubernetes"}
  MaxFaults = 1
  MaxTries = 2
INVARIANTS OneMachinePerRun CleanedMeansGone 
  
SYMMETRY Symmetry
CONSTRAINTS OneRunUnlessNamed UntilRobbed TwoAtWork
CHECK_DEADLOCK FALSE
