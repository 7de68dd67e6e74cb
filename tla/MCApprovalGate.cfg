CONSTANTS
  Clients = {c1, c2, c3}
  Approver = approver
SPECIFICATION FairSpec
INVARIANTS
  AcceptedDenialHolds

  
