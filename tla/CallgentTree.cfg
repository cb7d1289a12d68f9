CONSTANTS
  a1 = a1
  a2 = a2
  own = own
  hub = hub
  k1 = k1
  k2 = k2
  Admins <- MCAdmins
  Tenants <- MCTenants
  Hub = hub
  TenantOf <- MCTenantOf
  Keys <- MCKeys
  MaxCallgents = 3
  MaxEntries = 6
  MaxEndpoints = 2
  MaxRealms = 2
  MaxRequests = 6
SPECIFICATION Spec
SYMMETRY Symmetry
CHECK_DEADLOCK FALSE
INVARIANTS
  IInv
  SecuritiesStayInCallgent
  TreeInOneTenant
PROPERTIES
  DanglingOnlyByRace
