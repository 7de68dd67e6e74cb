SPECIFICATION Spec
CONSTANTS
  Plans <- MCPlans
  Agents <- MCAgents
  TTL = 3
  MaxConns = 1
INVARIANTS
  MatrixIsEnforced
  BoundToTheSession
  NothingLeftSilently

  
  
CHECK_DEADLOCK FALSE
