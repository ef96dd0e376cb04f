SPECIFICATION Spec
CONSTANTS
  None = None
  schema = schema
  loader = loader
  forkA = forkA
  forkB = forkB
  local = local
  runA = runA
  runB = runB
  repo = repo
  Services = {schema, loader}
  Schema = schema
  Loader = loader
  Canonicals = {main1, main2}
  Builds = {forkA, forkB, local}
  Runs = {runA, runB}
  Repos = {repo}
  RepoOf <- OneRepo
  Callers = {c1, c2}
  PinRequests <- AllCalls
  Kinds = {"pin", "reset", "apply"}
  MaxPins = 2
  MaxNow = 0
  AgeThreshold = 0
  LostReplies = FALSE
SYMMETRY Symmetry
INVARIANTS
  PairFromOneCommit
