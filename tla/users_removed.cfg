SPECIFICATION MembershipSpec
CONSTANTS
  opendes = opendes
  osdu = osdu
  Tenants <- TwoTenants
  AskedRoles = {"viewer", "editor", "admin"}
  MayMiss = {"admins"}
  NoCall = NoCall
  MaxFailures = 3
INVARIANTS
  RemoveDeletesMember
