SPECIFICATION Spec
CONSTANTS
  admin = admin
  technician = technician
  customer = customer
  other = other
  w1 = w1
  w2 = w2
  repair = repair
  Workers = {w1, w2}
  Users <- MCUsers
  RoleNames <- MCRoleNames
  PermissionNames <- MCPermissionNames
  RolesOf <- MCRolesOf
  InitialRoles = {"admin", "technician", "customer"}
  InitialPermissions <- MCInitialPermissions
  InitialGrants <- MCInitialGrants
  Calls <- MCCalls
  Repairs = {repair}
  CustomerOf <- MCCustomerOf
  Terms <- MCTerms
  Instants <- MCInstants
  MaxSupport = 1
INVARIANTS
  GuardIsSound
  GrantsHaveAnAuthor
  GrantsAreWhole
  LastsAsPromised
  DaysShownHold
  RecordsAreOwn
SYMMETRY WorkersAlike
