SPECIFICATION FairSpec
CONSTANTS
  Calls <- MCCalls
  Retries <- MCRetries
  Unset = Unset
INVARIANTS
  TypeOK
  ThrownHonestly
PROPERTIES
  ImplementsRemoteCall
  EveryStepCounts
  EveryCallEnds
