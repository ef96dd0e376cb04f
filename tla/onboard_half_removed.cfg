SPECIFICATION Spec
CONSTANTS
  s = s
  t = t
  r1 = r1
  r2 = r2
  p = p
  q = q
  deployer = deployer
  member = member
  Malformed = Malformed
  Azure = Azure
  None = None
  Services = {s, t}
  ServiceOrder <- Order
  Repos = {r1, r2}
  Identities <- TwoIdentities
  MaxCredentials = 2
  Procs = {p}
  Declarations <- NoDeclarations
  Ops = {"onboard", "remove"}
  MaxOutside = 0
INVARIANTS
  OnboardNeverCollides
