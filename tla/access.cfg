SPECIFICATION Spec
CONSTANTS
  Roles <- MCRoles
  GrantObjects <- MCGrantObjects
  Granted <- MCGranted
  MaxChanges = 3
INVARIANTS
  TypeOK
  MoreRolesNoLess
  TablesAgree
PROPERTIES
  RevocationHolds
  GrantOnlyAdds
