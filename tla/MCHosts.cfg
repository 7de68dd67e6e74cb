CONSTANTS
  Shared = {"docker", "ssh"}
  Kinds = {"local", "docker", "ssh"}
  MaxEdits = 1
  MaxOut = 2
  Cap = 1
SPECIFICATION Spec
CHECK_DEADLOCK FALSE
INVARIANTS
  LogIsComplete
  
  RunsWhatItHashed
PROPERTIES
  RunEnds
