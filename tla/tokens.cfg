SPECIFICATION Spec
CONSTANTS
  Instances = {i1, i2}
  Calls = {c1, c2}
  Requests <- AllRequests
  Tokens <- MCTokens
  Type <- MCType
  Exp <- MCExp
  Docs <- MCDocs
  Stored <- MCStored
  DocToken <- MCDocToken
  DocUser <- MCDocUser
  DocExpiry <- MCDocExpiry
  Users = {u1, u2}
  Second = 2
  DefaultTtl = 3
  Horizon = 7
  LocalCache = TRUE
  DbMayFail = TRUE
  MaxCrashes = 1
  MaxOutages = 1
  Absent = Absent
  Forever = Forever
  NoExp = NoExp
  access = access
  refresh = refresh
  timeless = timeless
  garbage = garbage
  d1 = d1
  d2 = d2
  d3 = d3
  u1 = u1
  u2 = u2
INVARIANTS
  TypeOK
  EntriesGoWithTheirToken
  LogoutEverywhereIsComplete
PROPERTIES
  RevocationIsKept
  RefusalIsHonest
  ImplementsRevocationList
