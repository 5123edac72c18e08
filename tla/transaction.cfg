SPECIFICATION FairSpec
CONSTANTS
  Calls <- MCCalls
  Jobs <- MCJobs
  Ids <- MCIds
  Keys = {0, 1, 2, 3, 4}
  Free = Free
  NotYet = NotYet
  Seeds <- MCSeeds
  DefaultLimit = 2
  MayFail = TRUE
  MaxCrashes = 1
  d1 = d1
  d2 = d2
  d3 = d3
  d4 = d4
  first = first
  second = second
  third = third
INVARIANTS
  TypeOK
  PageAgreesWithTotal
  MissedOnlyByWrites
  OpenOnlyInUse
PROPERTY
  EverySessionEnds
