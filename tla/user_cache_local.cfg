SPECIFICATION Spec
CONSTANTS
  Instances = {i1}
  Caches = {memory}
  CacheOf <- OneCache
  LocalCache = TRUE
  CacheMayFail = FALSE
  DbMayFail = FALSE
  Messages = {m1, m2, m3}
  Requests <- ReadRequests
  MaxFaults = 1
  Ids <- MCIds
  Usernames <- MCUsernames
  RawEmails <- MCRawEmails
  Emails <- MCEmails
  Lower <- MCLower
  InitialUsers <- MCInitialUsers
  NoUser = NoUser
  NoEntry = NoEntry
  NoMessage = NoMessage
  NoRequest = NoRequest
  NoEmail = NoEmail
  u0 = u0
  u1 = u1
  u2 = u2
SYMMETRY Symmetric
INVARIANTS
  ReadsAreCurrent
