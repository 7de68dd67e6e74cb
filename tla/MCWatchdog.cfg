\* A unit is a ninth of the TTL (200 seconds): the delay, the period of the
\* loop and the skew are larger than in practice.
CONSTANTS
  TTL = 9
  MaxDelay = 1
  PollPeriod = 1
  Skews <- MCSkews
SPECIFICATION Spec
INVARIANTS
  SupervisedMachineLives
  LeaseIsBounded
