---------------------------- MODULE MCEnvironment ----------------------------
(* One instance each of parts that share no state here: the deploy record,   *)
(* `spi up`, `spi down`, the resolution of images and local builds.  `focus` *)
(* says which of them a behaviour is about; the others stay where they start. *)
EXTENDS DeployRecord, Teardown, Provision, ImageResolution, LocalBuild, TLC

CONSTANTS identity, topic, alien

VARIABLE focus

\* DELETION_PLAN in three waves: the cluster and what stands beside it, the
\* gateway, the network; `topic` and `alien` are added by others.
Waves ==
  [r \in Resources |-> CASE r = identity -> 0 [] r = Gateway -> 2 [] r = Vnet -> 3
                         [] r = alien -> 4 [] OTHER -> 1]

\* One identity holds every role assignment.
HeldByOne == [g \in Grants |-> identity]

EnvironmentInit ==
  /\ focus \in {"record", "up", "down", "resolve", "build"}
  /\ Init /\ ProvisionInit /\ TeardownInit /\ ResolutionInit /\ BuildInit
  /\ focus # "build" => \A b \in Builders : checkouts[b].jar = NoJar

imageVars == <<resolutionVars, buildVars>>
RecordMoves(step) ==
  focus = "record" /\ step /\ UNCHANGED <<focus, provisionVars, teardownVars, imageVars>>
UpMoves(step) == focus = "up" /\ step /\ UNCHANGED <<focus, vars, teardownVars, imageVars>>
DownMoves(step) == focus = "down" /\ step /\ UNCHANGED <<focus, vars, provisionVars, imageVars>>
ImagesMove(about, step) ==
  focus = about /\ step /\ UNCHANGED <<focus, vars, provisionVars, teardownVars>>

EnvironmentNext ==
  \/ RecordMoves(Next) \/ UpMoves(ProvisionNext) \/ DownMoves(TeardownNext)
  \/ ImagesMove("resolve", ResolutionNext /\ UNCHANGED buildVars)
  \/ ImagesMove("build", BuildNext /\ UNCHANGED resolutionVars)

allVars == <<focus, vars, provisionVars, teardownVars, imageVars>>

\* ProvisionFairness and TeardownFairness of the part a behaviour is about.
EnvironmentSpec ==
  /\ EnvironmentInit /\ [][EnvironmentNext]_allVars
  /\ WF_allVars(UpMoves(UpStep)) /\ SF_allVars(UpMoves(PlainUp))
  /\ WF_allVars(DownMoves(RunStep)) /\ WF_allVars(DownMoves(DeadlinePasses))

\* However runs were killed and the environment torn down, an operator who
\* keeps running `spi up` gets it deployed (KeepsDeploying of Provision).
UpKeepsDeploying == focus = "up" => KeepsDeploying
=============================================================================
