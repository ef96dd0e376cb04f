---------------------------- MODULE MCOperations ----------------------------
(* One instance each of parts that share no state here: the named loads, the *)
(* test runs, the members of the groups, what readers make of a rollout, and *)
(* the verdict on any listing.  `focus` says which of them a behaviour is    *)
(* about and the others stay where they start.                               *)
EXTENDS Loads, TestRuns, MCMembership, Readiness, Convergence

CONSTANTS release1, release2, commit1, commit2, profile, services, reference

VARIABLE focus

OnePartition == <<opendes>>
CommitOrder == <<commit1, commit2>>
CommitOfRelease == (release1 :> commit2) @@ (release2 :> commit1)

\* The profile's root, and two layers of which the release brings the second.
ThreeNames == <<profile, services, reference>>
OnlyNewNeeds == (profile :> {}) @@ (services :> {}) @@ (reference :> {services})

\* The verdict of the guard on what the layers show.
VerdictBlocks(layers) ==
  Blocked(ReadinessOf([name \in DOMAIN layers |->
    [reason |-> layers[name], depends |-> SetToSeq(LayerNeeds[name]), gating |-> TRUE]]))

OperationsInit ==
  /\ focus \in {"loads", "tests", "members", "rollout", "seeding", "verdict"}
  /\ LoadInit /\ TestInit /\ MembershipInit /\ ReadinessInit
  /\ IF focus = "verdict" THEN ConvergenceInit ELSE listing = <<>> /\ verdict = NoVerdict
  /\ focus # "members" => \A p \in PartitionSet : missing[p] = {}

LoadsMove(step) ==
  focus = "loads" /\ step /\ UNCHANGED <<focus, testVars, memberVars, readinessVars, convergenceVars>>
TestsMove(step) ==
  focus = "tests" /\ step /\ UNCHANGED <<focus, loadVars, memberVars, readinessVars, convergenceVars>>
MembersMove(step) ==
  focus = "members" /\ step /\ UNCHANGED <<focus, loadVars, testVars, readinessVars, convergenceVars>>
ReadinessMoves(about, step) ==
  focus \in about /\ step /\ UNCHANGED <<focus, loadVars, testVars, memberVars, convergenceVars>>
VerdictMoves(step) ==
  focus = "verdict" /\ step /\ UNCHANGED <<focus, loadVars, testVars, memberVars, readinessVars>>

OperationsNext ==
  \/ LoadsMove(LoadNext)
  \/ TestsMove(TestNext)
  \/ MembersMove(MembershipNext)
  \/ ReadinessMoves({"rollout"}, RolloutStep)
  \/ ReadinessMoves({"seeding"}, SeedingStep)
  \/ ReadinessMoves({"rollout", "seeding"}, ReadKustomizations \/ ReaderEnds)
  \/ VerdictMoves(ConvergenceNext)

allVars == <<focus, loadVars, testVars, memberVars, readinessVars, convergenceVars>>

\* The fairness of the part a behaviour is about (LoadFairness, TestFairness).
OperationsSpec ==
  /\ OperationsInit /\ [][OperationsNext]_allVars
  /\ WF_allVars(LoadsMove(\E c \in LoadCallers : LoadStep(c)))
  /\ WF_allVars(LoadsMove(FluxApplies))
  /\ WF_allVars(LoadsMove(SchemaJobEnds("complete")))
  /\ \A p \in Scoped : WF_allVars(LoadsMove(JobEnds(p, "complete")))
  /\ WF_allVars(LoadsMove(\E c \in LoadCallers : StartLoad(c)))
  /\ WF_allVars(TestsMove(RunGoesOn))
  /\ WF_allVars(TestsMove(TestDeadline))

\* The types of every part, and in Loads no two Jobs of one name.
OperationTypesOK ==
  LoadTypeOK /\ TestTypeOK /\ MemberTypeOK /\ ConvergenceTypeOK /\ ReadinessTypeOK
=============================================================================
