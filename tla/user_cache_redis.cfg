SPECIFICATION FairSpec
CONSTANTS
  Instances = {i1}
  Caches = {redis}
  CacheOf <- OneCache
  LocalCache = FALSE
  CacheMayFail = FALSE
  DbMayFail = TRUE
  Messages = {m1, m2}
  Requests <- CacheRequests
  MaxFaults = 2
  Ids <- MCIds
  Usernames <- MCUsernames
  RawEmails <- MCRawEmails
  Emails <- MCEmails
  Lower <- MCLower
  InitialUsers <- MCInitialUsers
  NoUser = NoUser
  NoEntry = NoEntry
  NoMessage = NoMessage
  NoRequest = NoRequest
  NoEmail = NoEmail
  u0 = u0
  u1 = u1
  u2 = u2
INVARIANTS
  SettledCoherent
PROPERTIES
  EveryRequestAnswered
