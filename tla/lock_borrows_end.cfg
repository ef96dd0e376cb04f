SPECIFICATION BorrowSpec
CONSTANTS
  None = None
  schema = schema
  loader = loader
  forkA = forkA
  forkB = forkB
  local = local
  runA = runA
  runB = runB
  repo = repo
  Services = {schema, loader}
  Schema = schema
  Loader = loader
  Canonicals = {main1}
  Builds = {forkA, forkB, local}
  Runs = {runA, runB}
  Repos = {repo}
  RepoOf <- OneRepo
  Callers = {c1, c2}
  PinRequests <- RunCalls
  Kinds = {"pin", "sweep"}
  MaxPins = 2
  MaxNow = 1
  AgeThreshold = 0
  LostReplies = FALSE
PROPERTIES
  SweepSparesLiveRuns
  BorrowsEnd
