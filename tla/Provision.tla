----------------------------- MODULE Provision -----------------------------
(***************************************************************************)
(* `spi up` as cli.py, deploy.py, azure_infra.py, secrets.py and           *)
(* bootstrap.py run it: one step per call that changes Azure or the        *)
(* cluster, killed or refused anywhere and started again, between          *)
(* teardowns, freezes and moves of the branch.                             *)
(***************************************************************************)
EXTENDS Integers, Sequences, FiniteSets

CONSTANTS
  Suffixes,      \* name suffixes that can be minted
  Unsuffixed,    \* the empty suffix of environments older than suffixes
  NoTag,
  Requested,     \* suffixes asked for with --name-suffix
  Refs,          \* what the source can follow
  Branches,      \* those that move; the others are tags
  Locators,      \* reviewed declarations
  NoLocator,
  NoUp, NoSource, NoSeed,
  LegacyStart,   \* the environment predates suffixes
  SeedReadsFail, \* kubectl can fail to read the seed secret
  TagReadsFail,  \* az can fail to show the group, and to list its vaults
  MaxCommit,     \* bound on the commits of a ref
  MaxSeed,       \* bound on the seeds generated
  MaxTroubles    \* bound on kills, teardowns and hand-made changes

Names == Suffixes \cup {Unsuffixed}
Seeds == 1 .. MaxSeed
Revisions == [ref : Refs, commit : 0 .. MaxCommit]

\* The GitRepository as it is read.
Sources == [ref : Refs, suspended : BOOLEAN, artifact : Revisions]

\* There are seeds enough that a generated one is in use nowhere.
ASSUME ProvisionAssumption ==
  /\ Requested \subseteq Suffixes /\ Unsuffixed \notin Suffixes /\ NoTag \notin Suffixes
  /\ Branches \subseteq Refs
  /\ NoTag # Unsuffixed /\ NoLocator \notin Locators /\ NoSeed \notin Seeds /\ NoSource \notin Sources
  /\ {LegacyStart, SeedReadsFail, TagReadsFail} \subseteq BOOLEAN
  /\ MaxCommit \in Nat \ {0} /\ MaxTroubles \in Nat
  /\ IsFiniteSet(Suffixes) /\ MaxSeed \in Nat /\ MaxSeed > Cardinality(Suffixes) + 4

VARIABLES
  rg,         \* the resource group: does it exist, its suffix and locator tags
  vaults,     \* the Key Vault of each name: "none", "live" or "deleted"
  made,       \* what the run has made of the cluster, lost with it
  seed,       \* the seed secret
  copies,     \* the seed each copy of the passwords was made from
  source,     \* the GitRepository
  recorded,   \* what the deploy record names
  head,       \* the newest commit of each ref
  up,         \* the run that is on
  deployed,   \* the last run ended well and nothing has touched the source since
  troubles    \* ghost

cloudVars == <<rg, vaults, made, seed, copies, source, recorded>>
provisionVars == <<rg, vaults, made, seed, copies, source, recorded, head, up, deployed, troubles>>

\* `spi up` in its order: the command and deploy_azure before Azure changes,
\* provision_azure_infra, the cluster's bootstrap, GitOps and its source.
Preflight == <<"permissions", "names", "persist", "images", "zones">>
Infra == <<"group", "cluster", "access", "recover", "paas">>
Bootstrap == <<"namespaces", "clusterConfig", "seed", "platform", "osdu", "lock", "osduConfig", "initValues">>
GitOps == <<"flux", "seedAgain", "vault", "resume", "fetch", "verify", "suspend", "record", "done">>

\* Mutants of UpSteps: the zones are looked at after the group is made;
\* GitOps is activated before its inputs are written; the cluster's access
\* is set up before the cluster.
UpStepsZonesLate ==
  <<"permissions", "names", "persist", "images", "group", "zones">> \o Tail(Infra) \o Bootstrap \o GitOps
UpStepsFluxFirst == Preflight \o Infra \o <<"flux">> \o Bootstrap \o Tail(GitOps)

UpSteps == Preflight \o Infra \o Bootstrap \o GitOps

\* A run as asked for, a preview, one with --no-refresh-images, or one that
\* a check refuses.
UpKinds == {"plain", "dry", "keepLock", "permissions", "images", "zones"}

UpAt(step) == up # NoUp /\ UpSteps[up.at] = step

GoOn == up' = [up EXCEPT !.at = @ + 1]

UpEnds == up' = NoUp

\* The Kubernetes objects that are applied and no more; Flux's
\* kustomizations read all of them.
ClusterObjects == {"namespaces", "clusterConfig"}

\* osdu-config with the service accounts and Istio's policies; spi-init-values
\* with spi-partitions.
OsduObjects == {"osduConfig", "initValues"}

Objects == ClusterObjects \cup OsduObjects \cup {"lock"}

InputsOfFlux == Objects \cup {"access"}

ProvisionInit ==
  /\ rg = [there |-> LegacyStart, suffix |-> NoTag, locator |-> NoLocator]
  /\ vaults = [n \in Names |-> IF LegacyStart /\ n = Unsuffixed THEN "live" ELSE "none"]
  /\ made = {} /\ seed = NoSeed
  /\ copies = [w \in {"platform", "osdu"} \cup Names |-> NoSeed]
  /\ source = NoSource /\ recorded = NoSource
  /\ head = [r \in Refs |-> 1]
  /\ up = NoUp /\ deployed = FALSE /\ troubles = 0

-----------------------------------------------------------------------------
(* Names and the resource group.                                           *)

\* The command's own checks: a locator other than the retained one is
\* refused, and a retained one is used again.
UpStarts(kind, asked, ref, option) ==
  /\ up = NoUp
  /\ option = NoLocator \/ rg.locator \in {NoLocator, option}
  /\ up' = [at |-> 1, kind |-> kind, asked |-> asked, name |-> NoTag, ref |-> ref, seed |-> NoSeed, commit |-> 0,
            locator |-> IF option # NoLocator THEN option ELSE rg.locator]
  /\ deployed' = FALSE
  /\ UNCHANGED cloudVars /\ UNCHANGED <<head, troubles>>

\* A check that reads and refuses.
UpChecks(step) ==
  /\ UpAt(step)
  /\ IF up.kind = step THEN UpEnds ELSE GoOn
  /\ UNCHANGED cloudVars /\ UNCHANGED <<head, deployed, troubles>>

\* Mutant of TagReads: the tag is not looked at.
TagUnread == {NoTag}

\* read_rg_suffix_tag: an empty value, and a read that failed, are like a
\* missing tag.
TagReads ==
  {IF rg.suffix \in Suffixes THEN rg.suffix ELSE NoTag} \cup (IF TagReadsFail THEN {NoTag} ELSE {})

\* detect_legacy_keyvault: a listing that failed is like an empty one.
LegacyReads ==
  {rg.there /\ vaults[Unsuffixed] = "live"} \cup (IF TagReadsFail THEN {FALSE} ELSE {})

\* The tag wins; then a legacy vault; then the suffix asked for or a new one.
NamesFor(tag, legacy, asked) ==
  IF tag # NoTag THEN {tag}
  ELSE IF legacy THEN {Unsuffixed}
  ELSE IF asked # NoTag THEN {asked} ELSE Suffixes

ResolvedNames(asked) ==
  UNION {NamesFor(tag, legacy, asked) : tag \in TagReads, legacy \in LegacyReads}

UpNames ==
  /\ UpAt("names")
  /\ \E n \in ResolvedNames(up.asked) :
       IF up.asked \in {NoTag, n} THEN up' = [up EXCEPT !.name = n, !.at = @ + 1] ELSE UpEnds
  /\ UNCHANGED cloudVars /\ UNCHANGED <<head, deployed, troubles>>

\* What was read from the tag is there already; a suffix that was minted or
\* asked for is not written when `az group exists` fails.
UpPersists ==
  /\ UpAt("persist")
  /\ \/ rg' = IF rg.there THEN [rg EXCEPT !.suffix = up.name] ELSE rg
     \/ TagReadsFail /\ up.name # Unsuffixed /\ UNCHANGED rg
  /\ GoOn
  /\ UNCHANGED <<vaults, made, seed, copies, source, recorded, head, deployed, troubles>>

\* The locator the run hands to the group; a preview hands none.
Handed == IF up.kind = "dry" THEN NoLocator ELSE up.locator

\* Mutant of GroupMade: the group is created without its tags.
GroupMadeBare(tag) == [rg EXCEPT !.there = TRUE]

\* create_resource_group, which reads the suffix tag once more
GroupMade(tag) ==
  IF rg.there
    THEN [rg EXCEPT !.suffix = IF tag = NoTag THEN up.name ELSE @,
                    !.locator = IF Handed # NoLocator THEN Handed ELSE @]
    ELSE [there |-> TRUE, suffix |-> up.name, locator |-> Handed]

UpMakesGroup ==
  /\ UpAt("group")
  /\ \E tag \in TagReads : rg' = GroupMade(tag)
  /\ GoOn
  /\ UNCHANGED <<vaults, made, seed, copies, source, recorded, head, deployed, troubles>>

-----------------------------------------------------------------------------
(* Azure and the cluster.                                                  *)

\* A preview ends with the two what-ifs.
UpMakesCluster ==
  /\ UpAt("cluster")
  /\ IF up.kind = "dry" THEN UpEnds /\ UNCHANGED made ELSE GoOn /\ made' = made \cup {"cluster"}
  /\ UNCHANGED <<rg, vaults, seed, copies, source, recorded, head, deployed, troubles>>

\* Mutant of Recovered: a soft-deleted vault is left to Bicep.
NotRecovered(n) == vaults

Recovered(n) == [vaults EXCEPT ![n] = IF @ = "deleted" THEN "live" ELSE @]

\* A failed listing of deleted vaults reads like an empty one.
UpRecovers ==
  /\ UpAt("recover")
  /\ \/ vaults' = Recovered(up.name) /\ UNCHANGED troubles
     \/ troubles < MaxTroubles /\ troubles' = troubles + 1 /\ UNCHANGED vaults
  /\ GoOn
  /\ UNCHANGED <<rg, made, seed, copies, source, recorded, head, deployed>>

\* main.bicep cannot create a vault whose name a soft-deleted one holds.
UpMakesPaas ==
  /\ UpAt("paas")
  /\ IF vaults[up.name] = "deleted" THEN UpEnds /\ UNCHANGED vaults
     ELSE GoOn /\ vaults' = [vaults EXCEPT ![up.name] = "live"]
  /\ UNCHANGED <<rg, made, seed, copies, source, recorded, head, deployed, troubles>>

\* A step that applies its objects whatever is there.  An existing lock is
\* kept; --no-refresh-images refuses to make a first one.
UpApplies(step) ==
  /\ UpAt(step)
  /\ IF step = "lock" /\ "lock" \notin made /\ up.kind = "keepLock"
       THEN UpEnds /\ UNCHANGED made
       ELSE GoOn /\ made' = made \cup {step}
  /\ UNCHANGED <<rg, vaults, seed, copies, source, recorded, head, deployed, troubles>>

\* The deployer's role on the cluster, waited for until Kubernetes honours it.
UpGetsAccess == UpApplies("access")

\* Mutant of SeedInUse: a run does not look for the seed of an earlier one.
SeedInUseNever == {NoSeed}

\* _get_seed: a read that failed reads like a missing secret.
SeedInUse == IF SeedReadsFail THEN {seed, NoSeed} ELSE {seed}

NewSeed == CHOOSE s \in Seeds : s # seed /\ \A w \in DOMAIN copies : s # copies[w]

\* get_or_create_seed
UpSeeds(step) ==
  /\ UpAt(step)
  /\ \E read \in SeedInUse :
       LET s == IF read # NoSeed THEN read ELSE NewSeed IN
       seed' = s /\ up' = [up EXCEPT !.seed = s, !.at = @ + 1]
  /\ UNCHANGED <<rg, vaults, made, copies, source, recorded, head, deployed, troubles>>

\* Mutant of UpCopies: a copy that exists is left alone.
UpCopiesOnce(step, where) ==
  /\ UpAt(step)
  /\ copies' = [copies EXCEPT ![where] = IF @ = NoSeed THEN up.seed ELSE @]
  /\ GoOn
  /\ UNCHANGED <<rg, vaults, made, seed, source, recorded, head, deployed, troubles>>

UpCopies(step, where) ==
  /\ UpAt(step)
  /\ copies' = [copies EXCEPT ![where] = up.seed]
  /\ GoOn
  /\ UNCHANGED <<rg, vaults, made, seed, source, recorded, head, deployed, troubles>>

\* The bootstrap secrets of every partition, in the vault of the run's name.
UpFillsVault == up # NoUp /\ UpCopies("vault", up.name)

-----------------------------------------------------------------------------
(* The GitOps source.                                                      *)

\* flux.bicep sets what the source follows, never its suspension.
UpActivates ==
  /\ UpAt("flux")
  /\ source' = IF source # NoSource THEN [source EXCEPT !.ref = up.ref]
               ELSE [ref |-> up.ref, suspended |-> FALSE, artifact |-> [ref |-> up.ref, commit |-> 0]]
  /\ GoOn
  /\ UNCHANGED <<rg, vaults, made, seed, copies, recorded, head, deployed, troubles>>

Fetched == [source EXCEPT !.artifact = [ref |-> source.ref, commit |-> head[source.ref]]]

\* Mutant of Frozen: the source is left as it is.
FrozenNot(s, b) == s

Frozen(s, b) == [s EXCEPT !.suspended = b]

UpResumes ==
  /\ UpAt("resume") /\ source' = Frozen(source, FALSE) /\ GoOn
  /\ UNCHANGED <<rg, vaults, made, seed, copies, recorded, head, deployed, troubles>>

\* `flux reconcile source git`
UpFetches ==
  /\ UpAt("fetch") /\ ~source.suspended /\ source' = Fetched /\ GoOn
  /\ UNCHANGED <<rg, vaults, made, seed, copies, recorded, head, deployed, troubles>>

\* _resolved_revision
Verified == source.ref = up.ref /\ source.artifact.ref = up.ref /\ source.artifact.commit > 0

\* An exception in the finalization suspends the source on its way out.
UpVerifies ==
  /\ UpAt("verify")
  /\ IF Verified THEN up' = [up EXCEPT !.commit = source.artifact.commit, !.at = @ + 1] /\ UNCHANGED source
     ELSE UpEnds /\ source' = Frozen(source, TRUE)
  /\ UNCHANGED <<rg, vaults, made, seed, copies, recorded, head, deployed, troubles>>

UpSuspends ==
  /\ UpAt("suspend") /\ source' = Frozen(source, TRUE) /\ GoOn
  /\ UNCHANGED <<rg, vaults, made, seed, copies, recorded, head, deployed, troubles>>

UpRecords ==
  /\ UpAt("record") /\ recorded' = [ref |-> up.ref, commit |-> up.commit] /\ GoOn
  /\ UNCHANGED <<rg, vaults, made, seed, copies, source, head, deployed, troubles>>

UpDone ==
  /\ UpAt("done") /\ deployed' = TRUE /\ UpEnds
  /\ UNCHANGED cloudVars /\ UNCHANGED <<head, troubles>>

UpStep ==
  \/ \E step \in {"permissions", "images", "zones"} : UpChecks(step)
  \/ UpNames \/ UpPersists \/ UpMakesGroup \/ UpMakesCluster \/ UpRecovers \/ UpMakesPaas
  \/ UpGetsAccess \/ \E step \in Objects : UpApplies(step)
  \/ \E step \in {"seed", "seedAgain"} : UpSeeds(step)
  \/ \E where \in {"platform", "osdu"} : UpCopies(where, where)
  \/ UpFillsVault
  \/ UpActivates \/ UpResumes \/ UpFetches \/ UpVerifies \/ UpSuspends \/ UpRecords \/ UpDone

-----------------------------------------------------------------------------
(* Trouble, and what others do.                                            *)

Trouble == troubles < MaxTroubles /\ troubles' = troubles + 1

Finalizing == UpAt("resume") \/ UpAt("fetch") \/ UpAt("verify") \/ UpAt("suspend")

\* A command fails and the run raises; the finalization suspends the source
\* first, as well as it can.
UpFails ==
  /\ up # NoUp /\ Trouble
  /\ \/ Finalizing /\ source' = Frozen(source, TRUE)
     \/ UNCHANGED source
  /\ UpEnds
  /\ UNCHANGED <<rg, vaults, made, seed, copies, recorded, head, deployed>>

\* `spi down` between two runs: the cluster and what lives in it go, the
\* vault is soft-deleted, the group and its tags stay unless it is purged.
EnvironmentDown(purge) ==
  /\ up = NoUp /\ rg.there /\ Trouble
  /\ made' = {} /\ seed' = NoSeed /\ source' = NoSource /\ recorded' = NoSource
  /\ copies' = [copies EXCEPT !["platform"] = NoSeed, !["osdu"] = NoSeed]
  /\ vaults' = [n \in Names |-> IF vaults[n] = "live" THEN "deleted" ELSE vaults[n]]
  /\ rg' = IF purge THEN [there |-> FALSE, suffix |-> NoTag, locator |-> NoLocator] ELSE rg
  /\ deployed' = FALSE
  /\ UNCHANGED <<head, up>>

\* `spi reconcile --suspend` and --resume, on a cluster the guard accepts.
ReconcileFreezes(b) ==
  /\ source # NoSource /\ up = NoUp /\ source.suspended # b
  /\ source' = Frozen(source, b)
  /\ deployed' = FALSE
  /\ UNCHANGED <<rg, vaults, made, seed, copies, recorded, head, up, troubles>>

BranchMoves(r) ==
  /\ r \in Branches /\ head[r] < MaxCommit
  /\ head' = [head EXCEPT ![r] = @ + 1]
  /\ UNCHANGED cloudVars /\ UNCHANGED <<up, deployed, troubles>>

FluxFetches ==
  /\ source # NoSource /\ ~source.suspended /\ source # Fetched
  /\ source' = Fetched
  /\ UNCHANGED <<rg, vaults, made, seed, copies, recorded, head, up, deployed, troubles>>

AnyUp ==
  \E kind \in UpKinds, asked \in Requested \cup {NoTag}, ref \in Refs,
     option \in Locators \cup {NoLocator} : UpStarts(kind, asked, ref, option)

\* The run an operator starts again and again.
PlainUp == \E ref \in Refs : UpStarts("plain", NoTag, ref, NoLocator)

ProvisionNext ==
  \/ AnyUp \/ UpStep \/ UpFails \/ FluxFetches
  \/ \E b \in BOOLEAN : EnvironmentDown(b) \/ ReconcileFreezes(b)
  \/ \E r \in Refs : BranchMoves(r)

\* A started run goes on to its end, and the operator tries again.
ProvisionFairness == WF_provisionVars(UpStep) /\ SF_provisionVars(PlainUp)

ProvisionSpec == ProvisionInit /\ [][ProvisionNext]_provisionVars /\ ProvisionFairness

-----------------------------------------------------------------------------
(* Properties.                                                             *)

\* What the group's tags record is kept through failed runs, teardowns and
\* re-runs until a purge: a suffix, an empty one included ("an empty tag or a
\* legacy unsuffixed Key Vault pins the environment to unsuffixed names"),
\* and the locator ("a declared environment keeps one declaration").
TagsStand ==
  [][rg.there /\ rg'.there =>
       /\ rg.suffix # NoTag => rg'.suffix = rg.suffix
       /\ rg.locator # NoLocator => rg'.locator = rg.locator]_provisionVars

\* However runs are killed and started again, an environment has one set of
\* globally named resources, never two beside each other.
OneSetOfNames ==
  \A m, n \in Names : vaults[m] = "live" /\ vaults[n] = "live" => m = n

\* A run the preflights refuse creates nothing; one whose deployer lacks
\* permissions leaves the group's tags alone as well (_resolve_up_context,
\* provision_azure_infra).
RefusedUpTouchesNothing ==
  [][up # NoUp /\ up.kind \in {"permissions", "images", "zones"} =>
       /\ UNCHANGED <<vaults, made, seed>> /\ rg'.there = rg.there
       /\ up.kind = "permissions" => UNCHANGED rg]_<<up, rg, vaults, made, seed>>

\* GitOps runs on a cluster only once everything its kustomizations read is
\* there, in a first run and in every later one.
FluxFindsItsInputs ==
  source # NoSource =>
    InputsOfFlux \subseteq made /\ seed # NoSeed
      /\ copies["platform"] # NoSeed /\ copies["osdu"] # NoSeed

\* After a successful run, whatever came before it, every copy of the
\* passwords is the seed's.
SecretsAgree ==
  deployed => /\ copies["platform"] = seed /\ copies["osdu"] = seed
              /\ rg.suffix \in Names /\ copies[rg.suffix] = seed

\* The seed of a running cluster is never replaced: its databases were made
\* with those passwords (ensure_secrets: "Idempotent").
SeedStands == [][seed # NoSeed /\ made' # {} => seed' = seed]_provisionVars

\* A successful run leaves the source frozen, and on the ref the record names.
DeployedIsFrozen ==
  deployed => source.suspended /\ recorded.ref = source.ref /\ recorded.ref = source.artifact.ref

\* A successful run leaves an environment of one seed, frozen where the record
\* says it is.
DeployedIsWhole == SecretsAgree /\ DeployedIsFrozen

\* What a run finds and needs later it leaves alone: the tags, the seed of a
\* running cluster, and everything when the preflights refuse it.
UpKeepsWhatStands == TagsStand /\ SeedStands /\ RefusedUpTouchesNothing

\* However runs were killed and the environment torn down, an operator who
\* keeps running `spi up` gets it deployed.
KeepsDeploying == []<>deployed
=============================================================================
