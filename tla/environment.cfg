SPECIFICATION EnvironmentSpec
CONSTANTS
  None = None
  Callers = {c1, c2}
  Facts = {v1, v2}
  CasAttempts = 2
  identity = identity
  topic = topic
  alien = alien
  Cluster = Cluster
  Gateway = Gateway
  Vnet = Vnet
  Resources = {identity, topic, alien, Cluster, Gateway, Vnet}
  WaveOf <- Waves
  LastWave = 3
  Added = {topic, alien}
  Grants = {zone, foreign}
  StackOwned = {zone}
  HolderOf <- HeldByOne
  NoRun = NoRun
  MaxPasses = 2
  MaxDeclines = 2
  MaxAzureFaults = 2
  Suffixes = {n1, n2}
  Unsuffixed = Unsuffixed
  NoTag = NoTag
  Requested = {n1}
  Refs = {main}
  Branches = {main}
  Locators = {declared}
  NoLocator = NoLocator
  NoUp = NoUp
  NoSource = NoSource
  NoSeed = NoSeed
  LegacyStart = FALSE
  SeedReadsFail = FALSE
  TagReadsFail = FALSE
  MaxCommit = 2
  MaxSeed = 7
  MaxTroubles = 2
  Packages = {byRepository, byService}
  LastCommit = 2
  MaxBuild = 3
  UnreadCreated = FALSE
  Builders = {laptop, runner}
  NoImage = NoImage
  LateEdits = FALSE
INVARIANTS
  TakenInOrder
  NoOrphanGrants
  DoneMeansGone
  OneSetOfNames
  FluxFindsItsInputs
  DeployedIsWhole
  AnswerOfOneCommit
  NewestBuildDecides
  ImageIsAsTold
PROPERTIES
  RecordIsAtomic
  RunEndsInTime
  UpKeepsWhatStands
  UpKeepsDeploying
