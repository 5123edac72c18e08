SPECIFICATION FairSpec
CONSTANTS
  Requests <- MCRequests
  Mixes <- MCMixes
  Bearer <- MCBearer
  Name <- MCName
  Email <- MCEmail
  Usernames = {"n"}
  Emails = {"a", "b"}
  MayFail = TRUE
  MaxRedeliveries = 1
  first = first
  second = second
  third = third
INVARIANTS
  TypeOK
  RefusalsLookLikeOutages
PROPERTY
  EveryRequestAnswered
