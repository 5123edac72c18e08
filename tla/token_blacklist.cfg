SPECIFICATION Spec
CONSTANTS
  Instances = {i1}
  Calls = {c1, c2}
  Requests <- OneToken
  Tokens <- MCTokens
  Type <- MCType
  Exp <- MCExp
  Docs <- MCDocs
  Stored <- MCStored
  DocToken <- MCDocToken
  DocUser <- MCDocUser
  DocExpiry <- MCDocExpiry
  Users = {u1, u2}
  Second = 2
  DefaultTtl = 3
  Horizon = 5
  LocalCache = TRUE
  DbMayFail = FALSE
  MaxCrashes = 0
  MaxOutages = 0
  Absent = Absent
  Forever = Forever
  NoExp = NoExp
  access = access
  refresh = refresh
  timeless = timeless
  garbage = garbage
  d1 = d1
  d2 = d2
  d3 = d3
  u1 = u1
  u2 = u2
PROPERTY
  RevokedUntilExpiry
