SPECIFICATION Spec
CONSTANTS
  Slack = 0
  POOL_SIZE = 4
INVARIANT NoReputWhileQueued
