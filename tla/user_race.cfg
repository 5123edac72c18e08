SPECIFICATION Spec
CONSTANTS
  Instances = {i1, i2}
  Caches = {redis}
  CacheOf <- OneCache
  LocalCache = FALSE
  CacheMayFail = TRUE
  DbMayFail = TRUE
  Messages = {m1, m2, m3}
  Requests <- RaceRequests
  MaxFaults = 1
  Ids <- MCIds
  Usernames <- MCUsernames
  RawEmails <- MCRawEmails
  Emails <- MCEmails
  Lower <- MCLower
  InitialUsers <- MCInitialUsers
  NoUser = NoUser
  NoEntry = NoEntry
  NoMessage = NoMessage
  NoRequest = NoRequest
  NoEmail = NoEmail
  u0 = u0
  u1 = u1
  u2 = u2
SYMMETRY SymmetricRaces
INVARIANTS
  TypeOK
  UniqueAccounts
  AcknowledgedAccount
  OneWinner
  ReadsArePast
  VerificationHolds
  NothingIsLost
PROPERTIES
  ImplementsRegistry
