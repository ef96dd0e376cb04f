SPECIFICATION OperationsSpec
CONSTANTS
  LoadCallers = {d1, d2}
  Partitions <- OnePartition
  release1 = release1
  release2 = release2
  opendes = opendes
  commit1 = commit1
  commit2 = commit2
  Sources = {release1, release2}
  Commits <- CommitOrder
  CommitOf <- CommitOfRelease
  SchemaImages = {pair1, pair2}
  NoLoad = NoLoad
  MaxMoves = 1
  MaxDisturbances = 1
  TestTargets = {workflow, storage}
  Published = {image1, image2}
  Borrows = {borrow1}
  FirstImage = image1
  NoTest = NoTest
  MaxChanges = 2
  TwoRollouts = FALSE
  StackReturns = FALSE
  osdu = osdu
  Tenants <- TwoTenants
  AskedRoles = {"viewer", "editor", "admin"}
  MayMiss = {"admins"}
  NoCall = NoCall
  MaxFailures = 3
  profile = profile
  services = services
  reference = reference
  KsNames <- ThreeNames
  Layers = {profile, services, reference}
  Root = profile
  NewLayer = reference
  LayerNeeds <- OnlyNewNeeds
  Blocks <- VerdictBlocks
  Elsewhere = Elsewhere
  NoBlocker = NoBlocker
  NoVerdict = NoVerdict
  NoReader = NoReader
  MaxSetbacks = 1
INVARIANTS
  OperationTypesOK
  NeverAheadOfSchemas
  VerdictStands
  MembersAreAsTold
  VerdictIsExact
  ReadersAreRight
PROPERTIES
  LoadStepsHold
  LoadConverges
  TestRunEnds
