# TLA+ models of the OSDU SPI stack

The repository deploys OSDU on Azure from a Python CLI (`spi`), Bicep templates, Flux manifests and a
set of GitHub workflows. One environment is shared: forks of the services deploy their own images into
it for the length of a test run, the environment's maintainers upgrade and reset it, and an operator
may pin a service by hand. What is hard is that these act on the same few ConfigMaps, identities and
cluster objects at the same time, from machines that may die at any moment. That is what these modules
are about.

## The system

| Part | State it keeps | Operations | Hard because | Correct when |
|---|---|---|---|---|
| Image lock (`src/spi/pins.py`) | `osdu-image-lock` ConfigMap: image keys per service, pins annotation, trusted-repository and source projections | pin, post-write check and rollback, reset (plain, `--if-run`, deferred loader), stale sweep, refresh, apply, projection | every operation is read, compute, conditional patch, from unrelated processes, with registry, GitHub and rollout waits between two writes | no interleaving loses the canonical image, splits schema from its loader, takes another run's pin or strands a borrow |
| Deploy record (`deploy_record.py`) | `spi-deploy-record` ConfigMap: version facts and the maintenance flag | upsert, set/clear maintenance | several processes write it; the flag guards pins, read before and after a pin's write | each request takes effect at one instant on the record of that instant |
| Drain (`scripts/drain_ephemeral_pins.sh`) | time of the first empty read | poll: sweep, read, hold | must outlast pins already admitted | exit 0 means no fork deploy is left or appears; it answers by its deadline |
| Onboarding and trust (`onboard.py`, `declared.py`, part of `deploy.py`) | three identities' federated credentials, resource-group tags, two lock projections | onboard, remove, reconcile, the trust part of `spi up` | four systems written in phases, any of which can fail | a re-run repairs whatever a dead call left; nothing untrusted is ever followed |
| Status (`status.py`, `stack_version.py`) | none (a snapshot) | readiness, bootstrap and deployability verdicts, the wait of the workflows | several reads of many objects that move between them; a listing is walked as a graph | "ready" is never said of a state that no reading justifies; what is named as the blocker is one |
| Rollout (`reconcile_consumers`, Flux) | Flux objects, workloads | reconcile, wait, compare digests | Flux applies the lock of a moment of its own choosing | the service that answers runs what the lock said, the loader after schema |
| Image resolution (`images.py`) | none (what a call has read) | resolve a fork's main, its loader and acceptance image | each tag is a call of its own, while CI publishes and retention prunes | an answer is of one commit, and of the newest build |
| Deploy, bootstrap, GitOps (`cli.py`, `deploy.py`, `bootstrap.py`, `azure_infra.py`, `secrets.py`) | Azure resources and tags, cluster objects, secrets, Flux source, record | `spi up`, `spi reconcile` and its freeze | long ordered sequences, killed and re-run, between teardowns | a re-run converges, and keeps what must survive (names, secrets, the declared locator) |
| Teardown (`teardown.py`) | Azure resources, role assignments, a kubeconfig entry | `spi down`, purge | Azure declines, stalls and adds while waves are deleted; a run has one deadline | identities stand, the network outlives the nodes, no grant is orphaned, "done" means gone |
| Lifecycle workflows (`.github/workflows/env-*.yml`) | the flag, through `spi` | set, drain, down, up, refresh, clear | jobs are cancelled between two steps | the flag is cleared only on an environment that serves |
| Loads (`loads.py`) | Kubernetes Jobs | plan, run, replace, wait | calls overlap, die and plan on what they saw; Flux and the pins move | schemas first, refusals clean, a replacement takes the old Job away only when it is complete |
| Suites and DAG smoke (`testing.py`, `dag_testing.py`) | a container, a result | capture the target, check, run, check again, report | the image under test is borrowed, restored or rolled out during the run | a verdict is that of the images it names; no container outlives it |
| People (`users.py`) | entitlements groups, per partition | add with rollback, remove | the service refuses or answers late, at any of many calls | a role is what was asked, or what was there |
| Local builds (`build.py`) | a checkout, registry tags | build, push, read the digest | users edit while Maven runs; others move the shared tag | an image recorded under a commit is that commit's; an answer is the caller's own image |
| Self-update, sizing, permissions | the installed tool, a ConfigMap, none | | one process each | |

The parts meet in few places. `spi service pin` reads the deploy record and the readiness verdict, then
writes the lock, then reads the record again. Lifecycle workflows set the flag, drain, change the
environment and clear the flag. Onboarding projects who may pin onto the lock, and refresh reads the
projection to decide whose images are canonical. Flux watches the lock and rolls out what it says.

## Modules

| Module | What it is |
|---|---|
| `LockData` | the lock as data and what each mutator computes from the lock it has just read |
| `ImageLock` | concurrent `spi` processes on the lock, the maintenance flag and the workflow runs; one `mutate_lock` is one step |
| `ImageLockCas` | the same processes with `mutate_lock` as the code runs it: read, compute, patch on condition, retry; implements `ImageLock` |
| `LockTraffic` | `ImageLock` under two kinds of traffic: refreshes and lost replies without whole-lock refreshes, or acknowledged writes of workflow runs beside them |
| `EnvironmentRecord` | what the deploy record promises its callers: a pending request takes effect at one instant, or fails |
| `DeployRecord` | the record's compare-and-retry loops, a create included; implements `EnvironmentRecord` |
| `Drain` | the drain script, second by second, beside the pin calls it has to outlast |
| `TrustPlan` | what onboarding, removal and reconciliation plan to write, as functions of one observation |
| `Onboard` | calls that run those plans step by step, die anywhere and overlap; `spi up`'s use of them; owners, reviewers and operators around them |
| `Teardown` | `spi down` and its purge, wave by wave, against Azure |
| `Provision` | `spi up`, step by step, killed and re-run between teardowns, freezes and moves of the branch |
| `ImageResolution` | one resolution, read by read, beside the fork's CI and its retention job |
| `LocalBuild` | builds in checkouts of their own, pushed to one registry |
| `Loads` | overlapping `spi load` calls as plans of commands, beside Flux, the Jobs and the pins |
| `TestRuns` | one suite or DAG-smoke run beside borrows, refreshes, rollouts and upgrades |
| `Membership` | adding and removing one person over all partitions, call by call |
| `Convergence` | the verdict on one listing of Kustomizations, beside the fixed point it should be |
| `Readiness` | status, the guard and the workflows' wait, read by read, while a release rolls out or members are seeded |
| `MC*` | instances for TLC; `MCEnvironment` and `MCOperations` host one instance each of parts that share no state, `MCImageLockPair` is `LockTraffic` on the instances of `MCImageLock` |
| `ImageLockProofs`, `LockTrafficProofs` | theorems of the lock: its soundness, the atomicity of its mutations; the pair and the sweep |
| `OnboardProofs` | theorems of onboarding, removal, reconciliation and the repositories `spi up` follows |
| `EnvironmentProofs`, `TeardownProofs`, `ImageProofs`, `DrainProofs` | theorems of the record and of `spi up`; of teardown; of resolution and local builds; of the drain |
| `OperationsProofs` | theorems of the readers, of memberships, of test runs and of loads |

### The image lock

`lock` is the ConfigMap: per service the image its keys name and the do-not-disrupt flag (`entry`), the
pins annotation (`pins`) and the trusted-repository projection (`trusted`). An image is a model value;
the images of schema and its loader built from one commit are the same value, so "from another commit"
is an inequality. Images of `Canonicals` are tagged builds of a canonical repository and can be captured
as a restore target; images of `Builds` are what a pin names by digest.

`caller[c]` is one `spi` process and what it is about to do next. Each action is one stretch of code
between two points at which another process can run: `CheckDeployable` (`require_deployable`),
`ResolveManifest` (registry round trips, `applied_at`), `WritePin` (the mutator of `pin_service_image`),
`RecheckClear`/`RecheckBlocked` (`_post_write_maintenance_check`), `RevertPin` (`_revert_pin`), and so
on. `GiveUp` ends any call at any point: a killed process, a lost runner, a failing `kubectl` or
registry, a rollout wait that runs out. Runs complete at any time, and a completed run may be re-run
under its id. An orphaned restore or a rollback that never happens is therefore part of every run.

`ReplyLost` is a patch that the server applied and `kubectl` reported as failed. The process reads the
lock again, finds a `resourceVersion` that is not the one it tested, and
`configmap_patch_lost_race` calls that a lost race: the mutator runs again, over its own write. The
constant `LostReplies` switches it on.

One mutation is atomic in `ImageLock`. `ImageLockCas` justifies it: there a process reads the lock,
computes its result on the copy, and the patch is accepted only while the `resourceVersion` read is
live; the copy is discarded and the mutator run again otherwise, at most `MaxAttempts` times.
`MutationsAreAtomic` states that this implements `ImageLock`, TLC checks it and
`ImageLockProofs` proves it, lost replies included.

Left out of these modules: Flux's rollout after a write (`reconcile_consumers`), the source policy
behind a refresh, the digest bookkeeping of acceptance images, pins written by releases older than
the current code (a pin without a restore target is handled by the model as the code handles it, but no
initial state holds one), and readiness other than the maintenance flag.

### The deploy record

`DeployRecord` has one process per `spi up` or `spi maintenance` call. A call reads (`ReadRecord`),
computes `Updated` from what it read and creates or patches; `fresh` are the processes whose read is
still of the live object, which is all a `resourceVersion` test looks at. The server need not move the
version for a patch that changes nothing, so `Applied` leaves that open. A lost reply of a patch counts
as a lost race and is retried; one of a create is an error, although the object is there.

`EnvironmentRecord` is what callers rely on: requests are pending, take effect on the record of that
instant, or fail. A request whose reply was lost stays pending after it took effect and may take effect
again; that weakness is in the abstract specification because it is in the code, and the hazard list
says what follows from it.

### The drain

`Drain` models the script with a clock in whole units, as `SECONDS` is. `drain` is the script: where it
is, `START`, when the current call is killed or the sleep ends (`until`), what `spi status` has read so
far, `read_at` and `EMPTY_SINCE`. A bounded call is an interval: its effect (`SweepWrites`, `ReadFlag`,
`ReadPins`) falls somewhere in it, and it may be killed or fail after its effect. `spi status` reads the
flag and the lock independently, in either order. A pin call is its path in `pins.py`: check, write,
recheck, rollback, dying anywhere. The sweep is one step here because `ImageLock` splits it and shows
what it may release.

`Tick` embodies what the workflows assume: calls are killed when their time is up, shell steps take no
time, and a pin call is past its recheck, or dead, `PinPath` after its check, with
`PinPath < QUIESCENCE` (`env-reset.yml` chooses the quiescence "longer than a pin's slowest path from its
deployability check to its maintenance recheck"). The clock stops when the drain has answered, since
nothing reads it after that, and is capped one past the deadline.

### Onboarding and trust

`TrustPlan` holds the two planners as functions of one observation: `OnboardSteps`, `RemoveSteps`
(`onboard.py`) and `ReconcileSteps` (`plan` of `declared.py`, with `Stale`, `Revoked`, `PlanFork` and
the credential cap). A plan is a sequence of steps. `Onboard` runs it: `call[p]` is a process with what
is left of its plan, one action per kind of step, other processes and other people between any two, and
`GiveUp` after any. `spi up` is `SpiUp` (the check before provisioning, on one observation) and,
later, `ProjectTrustedRepos` (the same plan on another observation, then the projections). Around them the
fork's owner opens and closes environment rules, declarations are merged, a cluster is rebuilt without
its lock, and somebody edits a credential or a tag by hand.

A credential is the repository whose subject it carries: repository spelling, subjects that GitHub
names by ids, and organization values are left out, as is the listing. Every call needs the cluster's
lock except where the code passes `lock=False`. One observation is one step, although it reads several
systems one after another; a projection is one step because its patch is conditional. A busy identity's
conflict is retried with backoff and changes nothing, so it is a stutter until it becomes `GiveUp`. Azure
(`Accepted`) keeps a subject unique on an identity and caps its credentials. Of the two identities that
mirror the deployer one is in the instances: they are treated alike. `alone` and `seen` record the
history of a call for the properties and are read by no step: that no other call ran since it began, and the
repositories whose rules were open at some time since it observed them. Services are planned in name order
(`Sorted`), as the code sorts them.

### Teardown

`run` is the run that is on: its step, wave, pass, last inventory, what the wave has still to ask for
(`todo`), how often each delete was declined, and what it knew of the cluster when it began. `RunStep` is
`_run_passes` and `delete_wave`; a wave's deletes are requested one by one (`RequestDelete`), accepted,
declined or refused for good, and all of them are issued before a refusal stops the run. Azure completes a
delete (`DeleteCompletes`), lets it stall (`DeleteStalls`), adds a resource (`ResourceAppears`); somebody
assigns a role (`GrantAppears`); `DeadlinePasses` at any moment. A purge's delete of the group is accepted long
before it is done: from then on the group is `condemned`, `GroupExists` (`group_exists`) stays true until its
last resource is gone (`GroupGoes`), and a purge or a plain run started meanwhile finds a group, lists it, looks
for grants, asks again and waits, or fails when the group goes under it (`NothingToList`). Azure refuses new
resources in a condemned group. A look at the role assignments starts from the identities that are there
(`GrantsSeen`, by `HolderOf`). `WaveOf` is `DELETION_PLAN`: 0 for a retained
type, one past the last wave for a type the plan misses. `RunFails` ends a run anywhere, the next one starts
on what it left. `guard.py`'s prompts are not modelled.

### Provisioning

`up` is a run of `spi up` and its place in the ordered steps: names and tags, preflights, cluster,
soft-deleted vault and PaaS step, seed and its copies, Flux's activation, and the finalization of the source
(resume, fetch, verify, suspend, record). `access` is the deployer's role on the cluster, waited for before
anything is applied to it; `vault` are the copies of the passwords in the vault of the run's name. `NamesFor` is the
resolution of the run's names from what reads of the tag and of the legacy vault return (`TagReads`,
`LegacyReads`): a read that failed returns the same as one that found nothing. `up.kind`
says which check refuses the run, if one does, and `UpChecks` is that check; `UpFails` kills it at any step, `EnvironmentDown` is a
teardown or purge as its callers see it, `ReconcileFreezes` is `spi reconcile --suspend` and `--resume`.
`made` is what exists on the cluster and is lost with it; `seed` and `copies` say which seed each copy of the
passwords came from.

### Images

In `ImageResolution` a digest is the number of the build that pushed it. CI pushes a build's images and moves
`main-snapshot` last; the retention job forgets tags `main-snapshot` has moved off. `resolution` is the call,
each action one answered read: the snapshots of the packages a fork may publish to, the tags of those that
carry one, the commit whose tag names the snapshot's digest, the acceptance image, and for schema its loader.
`floor` is history: the newest build complete when the call began.

In `LocalBuild` a checkout is the tree (the commit's, edited, a later commit's) and the JAR in `target/`.
Maven may rewrite tracked sources, and may exit 0 without packaging. `build_image` looks at the tree before
and after, compares the JAR's time with the one it noted, stages, runs the ACR task under the shared and under
its own tag, and reads the digest from its own.

### Loads

The registry names two loads: the schemas, which Flux keeps as a Job at the lock's image, and one that
requires them and runs as a Job per partition, named by its source's commit. A call reads registry and lock
when it starts, plans on the Jobs it sees (`PlanJobs`) and runs the plan as commands (`DeleteJob`,
`CreateJob`, `AwaitJob`, ...), others between any two. What must go before a new Job is deleted in the order of
the Jobs' names, which is that of `Commits`; what a replacement supersedes goes in the order of their age. `NotDeployable` and `NotSeeded` are refusals,
`LoadFails` everything else, at any point.

### Test runs

`test` is the run: what it captured (`expected`, revisions, the stack commit) and where it is. Every kubectl
read is a step; `BindFails` and `PreflightFails` are the refusals before a target is bound and between its
check and the first test. `entry`, `template`, `pods` and `revision` of a service move independently: others borrow,
return and refresh the lock's entry, Flux takes it into the template, pods come and go. A read of the stack's
commit may find nothing (`StackReads`), and the smoke compares the two it made whatever they found; the stack
moves to another commit at any moment (`StackMoves`). `served` and `stacks` are history: what answered, and what
ran, while tests executed. A suite judges one service, the smoke all.

### People

One person, one call at a time, one step per entitlements call, which is answered, refused, or takes effect
without answering. `Killed` ends a call anywhere and the next starts from there. `memberCall.todo` is the
set of groups still to write, taken in the order of the role's preset, and `began` what was held at the start
of the call.

### Status and readiness

`Convergence` holds `collect_kustomization_readiness`: the walk over `dependsOn` with memo and trail, and the
breadth-first search for what to name as the blocker, for every listing of three Kustomizations with up to two
dependencies each, cycles and absent names included. `LeastSettled` is the reference definition. `Readiness`
lets a release roll out (requested, fetched, applied and settled per Kustomization) or members be seeded.
Its `Layers` depend on each other as `LayerNeeds` says, each shows the reason of its condition (`shown`), and
`Blocks` is the verdict on a listing, which `Convergence` gives it in the instance. A layer goes on showing
Ready for the release before until it begins with the new one. Meanwhile a reader collects what its operation
reads, in the code's order where there is one and in any order elsewhere (the parallel reads of the snapshot).

## Properties and runs

| Run | Instance | Question |
|---|---|---|
| `lock_pair` | 2 processes, 3 pins; pin, reset and refresh with lost replies, or pin by runs, reset, apply and project with none | do restore targets, lock keys, the pair and run ownership survive pins, re-pins, rollbacks and resets in every order? does the reset that waits for schema's rollout spare a loader borrowed meanwhile, and does a rollback put back what its own write replaced? |
| `lock_borrows_end` | 2 processes, 2 pins, clock; pin, sweep, fairness | does the sweep spare live runs, re-runs included, and does every borrow end once the runs are over? |
| `cas_atomic` | 2 processes, 2 attempts, lost replies; pin, reset | do mutations take effect at one instant, on the lock of that instant? |
| `drain` | 2 pin calls on 1 service, window 1, quiescence 2, fairness | after exit 0, is and stays the environment free of fork deploys? does the drain keep its deadline, and end? |
| `environment` | five parts side by side, below | is each request to the record atomic; does a teardown take things away in order and end; does `spi up` keep what must stand and deploy in the end; is an image of one commit, and the one that was built? |
| `operations` | five parts side by side, below | are loads safe against overlap and crash, and do they converge; is a test's verdict its target's; what do failed membership calls leave; is what readers conclude true? |
| `onboard_calls` | 2 services, 2 repositories, 2 identities with a cap of 1, one call after another; onboard, remove, up (which reconciles) | does the first undisturbed call repair what dead ones left, is trust taken away only after the environment stopped following, and does `spi up` follow only what the lock trusts? |
| `onboard_reconcile` | as above with a cap of 2; reconcile, one hand edit or rebuild, GitHub and registry that may not answer | is everything undeclared gone after a reconciliation, a partly blocked one included, is none refused half-way, and is trust written only for repositories whose rules were seen open? |
| `lock_pair_apply` | (violated) | a whole-lock refresh splits a pair of which only schema is pinned |
| `lock_lost_reply` | (violated) | a retried pin captures its own pin as the state to roll back to |
| `onboard_half_removed` | (violated) | an interrupted removal lets a later onboarding past its planning and into Azure's refusal |
| `users_removed` | (violated) | a rollback keeps a role group, and the removal that is to clear it reports the person absent |

The violated runs are behaviours in which the code departs from a sentence of its documentation; the
sentence and the line are in `PROJECT.json` under "findings".

`environment` checks, of the record, `RecordIsAtomic`; of teardown, `TakenInOrder` (identities stand, the
network outlives the nodes, the kubeconfig entry the cluster), `NoOrphanGrants`, `DoneMeansGone` and
`RunEndsInTime`; of provisioning, `OneSetOfNames`, `FluxFindsItsInputs`, `UpKeepsWhatStands` (tags, the seed
of a running cluster, everything under a refusal), `DeployedIsWhole` (one seed, frozen where the record says)
and `UpKeepsDeploying`; of images, `AnswerOfOneCommit`, `NewestBuildDecides` and `ImageIsAsTold` (the bare
commit only for the commit's image, and the call's own digest). `operations` checks, of loads,
`NeverAheadOfSchemas`, `LoadStepsHold` (a complete Job is lost only to a complete one; a refusal changed
nothing) and `LoadConverges`; of test runs, `VerdictStands` and `TestRunEnds`; of people, `MembersAreAsTold`
(a failed add drops the old role, an undo is exact, a missing group grants nothing, an add that succeeds set
the role); of readiness, `VerdictIsExact` and `ReadersAreRight`; and the types of all five.

### Bounds

*Hosts.* The parts of `environment` share no state here, nor do those of `operations`. `focus`, chosen at the
start, says which part a behaviour is about; the others stay where they start. A host's state space is the sum
of its parts', and no interleaving is lost.

*Lock.* Two services (schema and its loader, the only two whose pins interact; every other service behaves as
schema does without the pairing), two workflow runs of one repository and an operator, one or two canonical
images. Three pins are a pin, its replacement and the re-pin after the replacement's rollback; two processes
hold two mutations in flight (`AgeThreshold` 0 in `lock_borrows_end` makes a pin of the tick before one that
GitHub's silence lets the sweep take, and a pin of this tick one it does not), and a process that has given up
or returned starts the next call, so that sequences of calls are not bounded by their number. The safety runs
take processes, canonical images and the two runs with their builds as interchangeable. The two kinds of traffic are apart because each breaks
what the other must keep: with lost replies a call that re-writes its own pin after a reset carries the same
`applied_at` and is mistaken for the judged one (`AckedLoaderWaitsForSchema`, `AckedUndoPredatesWrite`), and a
whole-lock refresh splits the pair (`RefreshedPairFromOneCommit`); `lock_lost_reply` and `lock_pair_apply`
show both.

*Drain.* Two pin calls suffice for a pin, the pin it replaced and a rollback that brings that one back; the
window, quiescence and timeouts are the smallest at which a second poll, a restart of the quiescence and a
poll that finds no time left all happen. `MaxStart` bounds the clock.

*Onboarding.* Two services that swap two repositories are the smallest collision, a cap of one the smallest
full identity; calls that die one after another need one process. `MaxOutside` bounds rebuilds and hand edits,
`MaxPins` the pin calls, `MaxNow` the clock; `CasAttempts` and `MaxAttempts` are the code's own bound on
attempts.

*Record.* Two processes and two version facts: one in flight, one that overtakes it, each any number of calls
after another.

*Teardown.* Three waves (the cluster with what stands beside it, its gateway, the network), one retained
identity, one resource that others add in the plan's types and one outside them, one grant of the stack and
one of somebody else, both the identity's; `MaxPasses` and `MaxDeclines` are 2 (a pass or delete, and its retry), `MaxAzureFaults`
(what Azure and people do to a run, over a behaviour) 2.

*Provisioning.* One branch with `MaxCommit` 2, `MaxTroubles` 2 (runs killed or failed, teardowns and purges),
two minted suffixes and the unsuffixed name. `MaxSeed` 7 is one more than there are places that hold a seed
(the seed, the two copies, a vault for each name): a new password is always one that nothing holds.

*Images.* Two package names, two commits, `MaxBuild` 3 (a build, a newer one, and a rebuild of either); two
builders, since each has its own checkout and meets the others only in the registry. A fourth build lets
main-snapshot itself move on before the tag of the build it named is moved by a rebuild; `NewestBuildDecides`
was checked there too (2.2 million states, too many for a run), and is proved for any number.

*Loads.* Two calls, one partition, two sources (whose commits sort against the order in which they are
pinned, where deleting by name and by age differ) and two schema images of which one moves once (`MaxMoves`), and
one disturbance (`MaxDisturbances`): a forced call, a refusal, a call that dies or a Job that fails. Each is
followed by undisturbed calls, which is what `LoadConverges` is about.

*Test runs.* Two services, one borrower, two changes of lock, flag or stack (`MaxChanges`).

*People.* Two partitions of which one may miss a group, three failing calls (`MaxFailures`): an addition, and
two removals of its undo.

*Readiness.* Three Kustomizations with at most two dependencies each, one a release brings; one setback
(`MaxSetbacks`).

### Flags

Constants that switch off a case the code does mishandle, so that the properties can be stated of the rest.
Each is `FALSE` in the instance; set to `TRUE`, TLC finds the property violated. They are not runs, because
the outcome is understood and a run adds nothing to the sentence.

| Flag | Case | Property it breaks |
|---|---|---|
| `LegacyStart` | a group with an empty suffix tag and a deleted vault gets a suffix on its next `up` (`azure_infra.py:194`) | `TagsStand`, against the docstring at `cli.py:400` |
| `SeedReadsFail` | a read of the seed that failed for another reason than absence replaces the passwords of a running cluster (`secrets.py:87`) | `SeedStands`, against `docs/design/secret-lifecycle.md:30` |
| `UnreadCreated` | a build time that cannot be read compares as the oldest (`images.py:512`) | `NewestBuildDecides` (proved without it), against the comment at `images.py:553` |
| `LateEdits` | an edit while the build context is staged, or one undone before the second look (`build.py:482`) | `CleanMeansCommit`, against `docs/decisions/038-local-builds-pin-from-the-environment-registry.md:49` |
| `TagReadsFail` | a read of the group's tag or of the legacy vault that failed is taken for none, and a second set of names is made (`azure_infra.py:190`) | `OneSetOfNames` and `TagsStand`, against `cli.py:400` ("The tag wins when present") and `docs/design/deployment-lifecycle.md:126` |
| `TwoRollouts` | two rollouts between the two reads of `check_target` (`testing.py:340`) | `VerdictIsOfTarget`; no document promises it |
| `StackReturns` | the stack moves on and back to its commit during a smoke (`dag_testing.py:647`) | `VerdictIsOfTarget`; no document promises it |

Seen the same way, without a flag:

- A smoke whose two reads of the stack both failed compares nothing with nothing (`dag_testing.py:647`) and
  reports across an upgrade. This is in the model; its verdict names no stack commit, and `VerdictIsOfTarget`
  speaks only of one that does.
- The record can name an older commit than the cluster runs, when Flux fetches between the two calls of
  `_finalize_gitops_source` (`deploy.py:525`; `docs/design/deployment-lifecycle.md:37` promises the verified
  revision).
- A load whose registry entry moves to another path of the same commit deletes the loaded Job before its
  replacement has run (`loads.py:605`, against `docs/decisions/040-named-loads.md:52`).
- Two overlapping onboarding calls, one planned before the other projected, leave a projection behind until
  the next call (`onboard.py:1541`).
- With two package names, an older commit built again is the newest build and wins (`images.py:554`), where
  `docs/design/fork-deployment.md:259` speaks of the newer commit; and a rebuild of the commit `main-snapshot`
  named makes the image under the other name answer.
- `env-refresh.yml:277` waits without a revision; right after a lock write every Kustomization may still be
  Ready for the lock before. The refresh reconciles its consumers itself, which `ImageLock` leaves out.
- A failed detection of the mesh's revision labels the namespaces with a default one (`bootstrap.py:106`),
  until the next run.

### Deadlock and fairness

Deadlock is checked everywhere but in `drain`, where the script ends and the clock stops. Parts whose work
ends say so with a step that changes nothing (`BuildersDone`).

`lock_borrows_end` has a clock; its `BorrowSpec` names the steps that are left when only runs pin and only the
sweep takes back. A tick is not taken while a running attempt would outlive `AgeThreshold`:
`STALE_EPHEMERAL_PIN_AGE_HOURS` is documented as longer than any deploy-plus-test budget, and without that
assumption the sweep may take a live run's pin when GitHub does not answer. `nextPin` says that a workflow
lane is sequential and that a call outlasts the one-second resolution of `applied_at`: two pins of one run
never carry the same timestamp. `BorrowsEnd` assumes that runs end, that a process that can step eventually
does (giving up included), and that sweeps are started, get their answer from GitHub and get their write
through again and again (strong fairness of `Sweeping`, `Judging` and `Releasing`): the sweep is a scheduled
workflow step and a poll of every drain. Nothing is assumed of restore jobs.

`DrainEnds` assumes that time passes,
that a call that is killed or answers ends, that the shell goes on with what follows, and that a pin call
past its check does not stop for ever; nothing is assumed of what the sweeps and reads return.

`RunEndsInTime` assumes that a teardown goes on to its next step, since every call has a timeout, and that its
deadline passes; nothing of Azure. `UpKeepsDeploying` assumes that a started `spi up` goes on (weakly: a run
may be killed, after which the step is another) and that an operator starts a plain one again and again
(strongly, since a run that is on disables it); `MaxTroubles` bounds what goes wrong meanwhile.
`LoadConverges` assumes that calls go on, that a call is started again and again, that Flux applies the lock,
and that a running Job that does not fail completes; it is conditional on the schemas staying loaded.
`TestRunEnds` assumes that the run goes on and that its deadline passes; nothing of Airflow or the cluster.

## Proofs

Each theorem holds for every value of the constants that satisfies the modules' assumptions; the runs show the
same property on a small instance.

*Lock.* `Inv` of `ImageLockProofs` is inductive: the type, that the lock is *sound* (each pin agrees with the
entry beside it and has a canonical image to return to; a service nobody pins runs one and is not held),
and that the state every pending rollback would replay is sound. The last part is needed because
`RevertPin` writes captured state over whatever lock it finds. Its first section proves that each mutator
keeps a sound lock sound. From `Inv` follow `TypeCorrect`, `CanonicalAlwaysSurvives`,
`EntryAlwaysFollowsPin` and `ResetTakesOnlyOwnPin`, with or without lost replies.

Of `ImageLockCas` it shows that a copy read at the live version holds what the mutation would compute on the
live lock (`CasInv`), which makes an accepted patch a step of `ImageLock` and an unacknowledged one its
`ReplyLost`: `CasRefinesImageLock`.

*The pair.* `LockTrafficProofs` follows pins by their *mark*, the run and time they carry. One lemma says what a
step can do to the lock and to the calls (`StepShape`: a pin lands, a rollback lands, or nothing is pinned that
was not), and every proof below uses it. `PairInv` says that schema and its loader, on the lock and in what any
call would replay, carry one mark, and that the mark of a schema pin written *without* a loader is never a
loader's; the latter is what keeps a rollback from putting back a schema pin beside a loader that came
meanwhile. `PairAlwaysPinnedTogether` follows, lost replies included. `CommitInv` adds what each call's own
write returns to, and gives `RefreshesKeepOneCommit` where no whole-lock refresh runs (a refresh and a
retried write return to the same images, so lost replies do no harm). Where every write is acknowledged,
`AckedInv` says that a pin about to be written is nowhere else yet, that a pair is on the lock *or* in one
rollback, and that the schema pin of a deferred loader is gone for good; each fails by itself, since a rollback
moves marks between the places the others speak of. `AckedUndoAlwaysPredatesWrite` and `AckedLoaderAlwaysWaits`
follow.

*The sweep.* `SweepInv` dates every pin, on the lock, about to be written or about to be replayed, no later than
now, and says that what a sweep is about to release is of no running attempt. The dates are needed because a
re-run has its predecessor's id: it spares nothing by name, only by beginning after every pin there is.
`SweepAlwaysSparesLiveRuns` follows, for any threshold no attempt outlives.

*Deploy record.* The invariant of the record in `EnvironmentProofs` is the type and that the copy of a process
that read at the live version is the record. `RecordRefines` follows: a write is `TakeEffect`, every
way out of a call is `Fail`, and the rest is a stutter. `RecordIsTyped` is the type alone.

*Provisioning.* A run of `spi up` is a place in 27 ordered steps (`Place`), and `ProvisionInv` says what stands
once a place is behind the run: one name for the group and everything live in it (`NamesSound`, `TagsSound`),
nothing made past the check that refuses the run (`RefusalSound`), each step's work (`WorkSound`), one seed in
use and in the copies written so far (`SeedSound`), the source on the run's ref and frozen before it is recorded
(`SourceSound`), and that nothing of a deployed environment moves before the next run (`DeployedSound`). It
needs them together: a copy is right because the seed did not move since it was read, which holds because
only a teardown takes it, and that only happens between runs. `FluxAlwaysFindsItsInputs` holds of
every start and whatever reads fail; `OneSetOfNamesAlways` assumes `~TagReadsFail`, `DeployedIsWholeAlways` that
and `~SeedReadsFail`, `UpKeepsWhatStandsAlways` both and `~LegacyStart`: the cases the code mishandles. `ProvisionIsTyped` is the type.

*Drain.* `DrainIsSound` needs two facts about time. While the drain counts an interval, every call that
passed its check before the first empty read is either past its recheck or younger than the interval
allows; and the flag, once seen set and not cleared, was set since that read, so no call passed its check
since. They are the parts of `QuietInv`; when the interval reaches `QUIESCENCE > PinPath`, no call is left
that could write. `DrainKeepsDeadline` rests on `Paced`: sleeps are not cut at the deadline, but the set is
first seen empty at most two call timeouts after the window, and a sleep never goes past the window or
past the end of the quiescence counted from there. Both hold for any services, runs, calls and arguments.

*Onboarding.* `Inv` of `OnboardProofs` says of a plan under way, whatever happened since it was made, that what is
left of it is in order (`MayFollow`: trust before the projections on the way in, the reverse on the way out),
that every repository a step trusts was seen with open rules, or will be checked before (`Cleared`), and that
only a removal or a reconciliation takes trust away. For a call that runs alone it also says that
the steps left lead from the present credentials and tags to a state in which the call's goal is met, the tags
follow, and no identity is over its cap on the way (`Planned`); the order of the steps keeps this true after
each of them. That the planners make such plans is proved one identity (`WriteStep`) and one declared fork
(`ForkStep`) at a time: their folds are `MapThenFoldSet` over well-founded sets, so a property kept by every
element is kept by the fold (`FoldAlong`) without an induction on the data. `OnboardRerunRepairs`,
`OnboardUpFollowsTrusted`, `OnboardReconcileDoesItsPart`, `OnboardTrustFollowsRules` and
`OnboardRevokesAfterSource` hold of any services, repositories, identities, caps, declarations and processes.

*Teardown.* `TeardownInv` says what a run may do from where it stands (`RunSound`) and what Azure has in hand
(`AzureSound`). The first says that what is left to ask for is of the run's own wave, that a run past the
first wave has seen the nodes group gone, and that a purge condemns the group only after a look that found no
assignment but ones made since; the second that every assignment in a condemned group is younger than such a
look. It is needed because the properties speak of Azure, not of the run: a delete
stays in Azure's hands while later runs go on. `OrderIsKept` and `NoGrantIsOrphaned` follow, for any
resources, plan, number of waves, passes and faults. `DoneInv` adds that what is present was in the run's last
inventory or was added since, which is what an inventory is worth while deletes are under way, and that
a condemned group gains nothing: `DoneIsGone`.

*Image resolution.* A tag of a package names a build of its commit, and so does everything the call has found
so far (`CallSound`), though each tag may since have moved: `AnswersOfOneCommit`. That the newest candidate
exists is well-foundedness of the naturals; `ResolutionTypeCorrect` adds that no search is in two states at
once. `NewestAlwaysDecides` assumes `~UnreadCreated` and follows one package through the call, that of the
newest build complete at the start: what its `main-snapshot` named is no older (`SnapshotsFollow`), and from
then on it is still to be searched for, or listed, or found, or its tag has moved for good, since pushes only
ever name a build that was not complete (`Tracked`).

*Local builds.* `BuildInv` is what a call knows of its checkout at each step: that the tree is the stamped
commit's as long as it answered "unchanged", and that the JAR was written after the stamp. Others can move the
shared tag but not the caller's own. `ImagesAreAsTold` assumes `~LateEdits`; `BuildTypeCorrect` and the
digest's part do not need it.

*Readers.* `ReadinessInv` orders the releases: what is applied is no newer than the objects it was made of, those
than the artifact, and that than the release asked for (`ClusterSound`); of the revisions a snapshot has read one
is no newer than the stamp it reads later (`SnapshotSound`), and a members Job seen done has seeded its list
(`GuardSound`). `ReadersAreAlwaysRight` says that a converged status shows a stamp no older than the
artifact, that a guard which passes has read seeded members, and that a wait which succeeds is for what every
layer applied, for any layers, any dependencies between them and any verdict `Blocks`.

*People.* `MemberInv` says, partition by partition, what a call has done: those before the present one are of the
role, those after it as they were, and in the present one whatever was added and is not undone is still to be
undone or is reported as kept. `MembersAreAlwaysAsTold` is about `spi users add` alone and holds of any partitions and any groups
missing from them; the presets are the code's. Of `remove` the run `users_removed` shows the opposite.

*Test runs.* `TestInv` says of each target that it has served nothing but the expected image since its revision
was noted, or that it has moved (its revision rose, or its template differs at the noted one). Neither alone is
kept by a step: a borrow between two reads of one look turns the first into the second. `VerdictAlwaysStands`
assumes `~TwoRollouts` and `~StackReturns`.

*Loads.* Before a schema Job has completed there are no Jobs of the load, and the rest of any call's plan is one
of seven that reach the check of the requirement before anything that creates a Job (`EarlyTodos`); hence
`NeverAheadAlways`, which is about schemas registered once, by whatever image. `LoadStepsInv` adds what each deletion of a plan leaves (`SafeTodo`): it comes after a wait
for the Job that stays, or spares a complete Job of its partition, or makes room for a failed Job that is run
again. A plan has this when it is made (`JobPlanSafe`, partition by partition over the joined lists), and its
rest keeps it, since the wait that is passed has seen a complete Job. It also has that a call that has not planned
yet has changed nothing it did not start. `LoadStepsAlwaysHold` follows, for any partitions, commits and callers.
It assumes `OneSourcePerCommit`: with two paths of one commit the property is false (below *Flags*). The order of
the deletions matters: `sorted(doomed)` is by name, so when a failed newest Job is run again for the source of an
older complete one, the failed Job may go first and the complete one after it. `RunsAgain` is that exception.

The proofs rest on the named assumptions of the modules (`LockDataAssumption`, `NoneAssumption`,
`ImageLockAssumption`, `CasAssumption`, `DeployRecordAssumption`, `DrainAssumption`, `TeardownAssumption`,
`ProvisionAssumption`, `ResolutionAssumption`, `BuildAssumption`, `ReadinessAssumption`, `TestAssumption`,
`TenantsAssumption`, `TrustPlanAssumption`, `OnboardAssumption`, `LoadAssumption`): the services include schema and a distinct loader, canonical
images and pinned builds are different, `None` is none of the values, the loops have at least one attempt, the
drain's arguments are whole numbers and `PinPath < QUIESCENCE`; the cluster is in the first wave, the network
after it, and what others add is none of the retained; packages, commits and builds are finitely many;
builders and the tags of commits are different values; seeds outnumber the places that keep one; the release's
new layer is not its root; services and identities are lists without duplicates, a declaration names each service
and each repository once, and the markers of a tag are no repositories; no partition is declared twice, and each
source has a commit.

Only model-checked, and why:

- `BorrowsEnd`, `DrainEnds`, `RunEndsInTime`, `UpKeepsDeploying`, `LoadConverges` and `TestRunEnds` are liveness
  under fairness, which is out of the prover's reach.
- `VerdictIsExact` compares a recursive walk with a fixed point, on listings of bounded size; what a recursive
  operator computes is beyond the prover.
- `OperationTypesOK` is stated in the host `MCOperations`, which reaches the recursive walk; what the proofs need
  of the types of its parts is in their invariants.

## Not modelled

`PROJECT.json` lists every part with its reason. In short: what passes parameters to `az`, `kubectl` or a
registry and keeps no state of its own; rendering; sizing, permissions and self-update, which are one process
and one pass each; declarative templates and manifests; the CI of this repository. Planned, and left out here:

- `reconcile_consumers`, `verify_service_image` and `await_service_image`: Flux applying a lock of its own
  choosing, the loader after schema.
- The order of steps in `env-*.yml` (flag, drain, down, up, refresh, clear), cancelled between any two.
- Suites in their forwarding and checkout modes: which test sources and which port-forward a run uses.
- `spi users list`, which only reads; the retries within a call.
- The prompts of teardown's guard (`guard.py`).

## Plan

1. `SchemaRollout` (`reconcile_consumers`, the wait of a reset and the release in
   `sweep_stale_ephemeral_pins`) composed with `LockData`: the loader runs after schema serves. The question
   is whether a sweep, which releases both in one write, keeps the order `_reset_paired_loader` waits for.
2. `Lifecycle` (`env-*.yml`) composing `Drain`'s promise with `EnvironmentRecord`, and `Readiness`'s verdict,
   for the flag's whole life.
3. Theorems: that `Drain` implements the promise `Lifecycle` uses, and the order in `SchemaRollout`.

Each new component joins a host with its safety and liveness properties, and replaces a weaker property where
there is one.
