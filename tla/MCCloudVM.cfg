\* Every provider.
CONSTANTS
  Providers = {"aws", "azure", "gcp", "hetzner", "oci", "lambda", "lima", "firecracker", "kubernetes"}
  MaxErrs = 3
  Outputs = {"out1", "out2"}
SPECIFICATION Spec
INVARIANTS
  StatusIsReal
  FetchedOrReported
CHECK_DEADLOCK FALSE
