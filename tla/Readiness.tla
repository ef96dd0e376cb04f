------------------------------ MODULE Readiness ------------------------------
(***************************************************************************)
(* What is read of an environment while a release rolls out: the snapshot   *)
(* of `spi status`, the deployability guard of pins and suites, and the     *)
(* wait of the lifecycle workflows (src/src/spi/status.py,                  *)
(* stack_version.py, pins.py, scripts/wait_for_flux_ready.sh).              *)
(*                                                                          *)
(* Releases are numbered.  `Root` is the Kustomization whose objects are    *)
(* the other layers and the stack-version stamp; NewLayer is new in the     *)
(* second release.  Each reader is several calls of kubectl, and Flux,      *)
(* Helm, Jobs, lock writes and `spi up` move between any two of them.       *)
(***************************************************************************)
EXTENDS Naturals

CONSTANTS
  Layers,        \* the gating Kustomizations of the second release
  Root, NewLayer,
  LayerNeeds,    \* layer -> the layers it depends on
  Blocks(_),     \* does a listing's verdict block (Convergence says which do)
  NoReader,
  MaxSetbacks    \* bound: failed reconciliations and failed Jobs

ASSUME ReadinessAssumption ==
  /\ Root \in Layers /\ NewLayer \in Layers /\ Root # NewLayer
  /\ LayerNeeds \in [Layers -> SUBSET Layers]
  /\ MaxSetbacks \in Nat

VARIABLES
  shown,         \* layer -> the reason its condition shows, of those in the cluster
  source,        \* the GitRepository: the release asked for and the one fetched
  objects,       \* name -> the release whose objects it applied last
  applied,       \* name -> status.lastAppliedRevision, 0 for none
  values,        \* spi-init-values: which list of members it carries
  memberJobs,          \* list of members -> its Job in entitlements
  seeded,        \* the lists whose identities hold their groups
  reader,
  setbacks

readinessVars == <<shown, source, objects, applied, values, memberJobs, seeded, reader, setbacks>>
fluxVars == <<source, objects, applied>>
memberSeedVars == <<values, memberJobs, seeded>>

Releases == 1..2
LayerReasons == {"Ready", "Progressing", "ProgressingWithRetry", "DependencyNotReady", "Unset"}
Listed == DOMAIN shown

\* What the stack-version ConfigMap says.
Stamp == objects[Root]

-----------------------------------------------------------------------------
(* Flux, Helm, the members Jobs and `spi up`.                                *)

Reads == reader # NoReader

UpMovesSource ==
  /\ source.requested = 1
  /\ source' = [source EXCEPT !.requested = 2]
  /\ UNCHANGED <<shown, objects, applied, memberSeedVars, reader, setbacks>>

SourceFetched ==
  /\ source.artifact # source.requested
  /\ source' = [source EXCEPT !.artifact = @ + 1]
  /\ UNCHANGED <<shown, objects, applied, memberSeedVars, reader, setbacks>>

Shows(name, reason) == shown' = [shown EXCEPT ![name] = reason]

UpToDate(name) == name \in Listed /\ shown[name] = "Ready" /\ applied[name] = source.artifact

\* A reconciliation begins: for a new revision, a retry, or a changed lock.
KsStarts(name) ==
  /\ name \in Listed /\ shown[name] # "Progressing"
  /\ LET reason == IF \A dep \in LayerNeeds[name] : UpToDate(dep)
                     THEN "Progressing" ELSE "DependencyNotReady"
     IN  reason # shown[name] /\ Shows(name, reason)
  /\ UNCHANGED <<fluxVars, memberSeedVars, reader, setbacks>>

\* The objects of a revision are applied; those of the root are the others.
KsApplies(name) ==
  /\ name \in Listed /\ shown[name] = "Progressing" /\ objects[name] # source.artifact
  /\ objects' = [objects EXCEPT ![name] = source.artifact]
  /\ shown' = IF name = Root
                THEN [layer \in Layers |-> IF layer \in Listed THEN shown[layer] ELSE "Unset"]
                ELSE shown
  /\ UNCHANGED <<source, applied, memberSeedVars, reader, setbacks>>

\* Its health checks passed.
KsSettles(name) ==
  /\ name \in Listed /\ shown[name] = "Progressing" /\ objects[name] # 0
  /\ Shows(name, "Ready")
  /\ applied' = [applied EXCEPT ![name] = objects[name]]
  /\ UNCHANGED <<source, objects, memberSeedVars, reader, setbacks>>

KsFails(name) ==
  /\ name \in Listed /\ shown[name] = "Progressing" /\ setbacks < MaxSetbacks
  /\ Shows(name, "ProgressingWithRetry")
  /\ setbacks' = setbacks + 1
  /\ UNCHANGED <<fluxVars, memberSeedVars, reader>>

\* refresh_spi_init_values, or `spi up`: the deploy identity is another one.
ValuesWritten ==
  /\ values = 1
  /\ values' = 2
  /\ UNCHANGED <<shown, fluxVars, memberJobs, seeded, reader, setbacks>>

\* Mutant of JobName: one name, whoever the members are.
JobNameOfPartition(list) == 1

\* entitlements_members_job_name: the name carries a hash of the members.
JobName(list) == list

\* The chart renders the Job of the values; the release drops the one before.
HelmRenders ==
  /\ memberJobs[JobName(values)] = "absent"
  /\ memberJobs' = [list \in Releases |-> IF list = JobName(values) THEN "running" ELSE "absent"]
  /\ UNCHANGED <<shown, fluxVars, values, seeded, reader, setbacks>>

JobSucceeds(list) ==
  /\ memberJobs[list] = "running"
  /\ memberJobs' = [memberJobs EXCEPT ![list] = "done"]
  /\ seeded' = seeded \union {list}
  /\ UNCHANGED <<shown, fluxVars, values, reader, setbacks>>

JobGivesUp(list) ==
  /\ memberJobs[list] = "running" /\ setbacks < MaxSetbacks
  /\ memberJobs' = [memberJobs EXCEPT ![list] = "failed"]
  /\ setbacks' = setbacks + 1
  /\ UNCHANGED <<shown, fluxVars, values, seeded, reader>>

-----------------------------------------------------------------------------
(* The readers.                                                              *)

Reading(op, left) ==
  [op |-> op, left |-> left, revisions |-> {}, git |-> source,
   stamp |-> 0, jobs |-> memberJobs, values |-> 0, said |-> ""]

ReaderStarts(op, left) ==
  /\ reader = NoReader
  /\ reader' = Reading(op, left)
  /\ UNCHANGED <<shown, fluxVars, memberSeedVars, setbacks>>

\* The reads of a snapshot run side by side, but for the stamp.
StatusStarts == ReaderStarts("status", {"kustomizations", "stamp", "git"})
GuardStarts == ReaderStarts("guard", {"kustomizations", "jobs", "values"})
WaitStarts == source.requested = 2 /\ ReaderStarts("wait", {})

\* Mutant of StampFollows: the stamp is one of the reads side by side.
StampWhenever == TRUE

\* _read_readiness_then_stamp: "After the Kustomizations, so a converged
\* snapshot cannot carry the previous release".
StampFollows == "kustomizations" \notin reader.left

\* The order of require_deployable's reads.
GuardOrder == [kustomizations |-> 1, jobs |-> 2, values |-> 3]

MayRead(what) ==
  /\ Reads /\ reader.said = "" /\ what \in reader.left
  /\ what = "stamp" => StampFollows
  /\ reader.op = "guard" => \A later \in reader.left : GuardOrder[what] <= GuardOrder[later]

ReadKustomizations ==
  /\ MayRead("kustomizations")
  /\ reader' = [reader EXCEPT !.left = @ \ {"kustomizations"},
                              !.revisions = {applied[name] : name \in Listed},
                              !.said = IF reader.op = "guard" /\ Blocks(shown) THEN "refused" ELSE @]
  /\ UNCHANGED <<shown, fluxVars, memberSeedVars, setbacks>>

ReadSource ==
  /\ MayRead("git")
  /\ reader' = [reader EXCEPT !.left = @ \ {"git"}, !.git = source]
  /\ UNCHANGED <<shown, fluxVars, memberSeedVars, setbacks>>

ReadStamp ==
  /\ MayRead("stamp")
  /\ reader' = [reader EXCEPT !.left = @ \ {"stamp"}, !.stamp = Stamp]
  /\ UNCHANGED <<shown, fluxVars, memberSeedVars, setbacks>>

ReadJobs ==
  /\ MayRead("jobs")
  /\ reader' = [reader EXCEPT !.left = @ \ {"jobs"}, !.jobs = memberJobs]
  /\ UNCHANGED <<shown, fluxVars, memberSeedVars, setbacks>>

\* bootstrap_blocker: a failed Job, else an expected one that is not complete.
BootstrapBlocks(seen, expected) ==
  (\E list \in Releases : seen[list] = "failed") \/ seen[expected] # "done"

\* _read_expected_members_jobs, and the verdict of the guard.
ReadValues ==
  /\ MayRead("values")
  /\ reader' = [reader EXCEPT !.left = {}, !.values = values,
                              !.said = IF BootstrapBlocks(reader.jobs, JobName(values))
                                         THEN "refused" ELSE "passed"]
  /\ UNCHANGED <<shown, fluxVars, memberSeedVars, setbacks>>

\* running_version of what the snapshot read.
SnapshotConverged(r) == r.git.artifact = r.git.requested /\ r.revisions = {r.git.artifact}

StatusReported ==
  /\ Reads /\ reader.op = "status" /\ reader.left = {} /\ reader.said = ""
  /\ reader' = [reader EXCEPT !.said = IF SnapshotConverged(reader) THEN "converged" ELSE "moving"]
  /\ UNCHANGED <<shown, fluxVars, memberSeedVars, setbacks>>

\* Mutant of AtRevision: Ready is enough.
AtAnyRevision(name) == TRUE

\* --expect-revision: Ready may still be that of the previous revision.
AtRevision(name) == applied[name] = 2

\* One poll of wait_for_flux_ready.sh that finds every gating one converged.
WaitSucceeds ==
  /\ Reads /\ reader.op = "wait" /\ reader.said = ""
  /\ Listed # {} /\ \A name \in Listed : shown[name] = "Ready" /\ AtRevision(name)
  /\ reader' = [reader EXCEPT !.said = "ok"]
  /\ UNCHANGED <<shown, fluxVars, memberSeedVars, setbacks>>

\* The reader is over; kubectl may have failed it at any point.
ReaderEnds ==
  /\ Reads
  /\ reader' = NoReader
  /\ UNCHANGED <<shown, fluxVars, memberSeedVars, setbacks>>

-----------------------------------------------------------------------------
ReadinessInit ==
  /\ shown = [name \in Layers \ {NewLayer} |-> "Ready"]
  /\ source = [requested |-> 1, artifact |-> 1]
  /\ objects = [name \in Layers |-> IF name = NewLayer THEN 0 ELSE 1]
  /\ applied = objects
  /\ values = 1 /\ memberJobs = [list \in Releases |-> IF list = 1 THEN "done" ELSE "absent"]
  /\ seeded = {1}
  /\ reader = NoReader /\ setbacks = 0

\* A release rolls out, watched by status and by the wait.
RolloutStep ==
  \/ UpMovesSource \/ SourceFetched
  \/ \E name \in Layers :
       KsStarts(name) \/ KsApplies(name) \/ KsSettles(name) \/ KsFails(name)
  \/ StatusStarts \/ WaitStarts
  \/ ReadSource \/ ReadStamp \/ StatusReported \/ WaitSucceeds

\* Members are seeded, and the guard looks.
SeedingStep ==
  \/ ValuesWritten \/ HelmRenders
  \/ \E list \in Releases : JobSucceeds(list) \/ JobGivesUp(list)
  \/ GuardStarts \/ ReadJobs \/ ReadValues

ReadinessNext == RolloutStep \/ SeedingStep \/ ReadKustomizations \/ ReaderEnds

ReadinessSpec == ReadinessInit /\ [][ReadinessNext]_readinessVars

-----------------------------------------------------------------------------
ReadinessTypeOK ==
  /\ source.artifact <= source.requested /\ source.requested \in Releases
  /\ objects \in [Layers -> 0..2] /\ applied \in [Layers -> 0..2]
  /\ values \in Releases /\ seeded \subseteq Releases
  /\ memberJobs \in [Releases -> {"absent", "running", "done", "failed"}]
  /\ shown \in [Listed -> LayerReasons] /\ Layers \ {NewLayer} \subseteq Listed /\ Listed \subseteq Layers
  /\ \A name \in Listed : applied[name] <= objects[name] /\ objects[name] <= source.artifact

\* "A converged snapshot cannot carry the previous release": when status says
\* that the fetched revision is applied everywhere, the stamp it read is not
\* older, whatever Flux did between its calls (_read_readiness_then_stamp,
\* running_version).
StampNotOlder ==
  reader # NoReader /\ reader.said = "converged" => reader.stamp >= reader.git.artifact

\* A guard that lets a pin or a suite go on has seen the Job of the members
\* that are declared, so the deploy identity holds its groups: a Job of other
\* members, or of the release before, is not taken for it
\* (require_deployable, bootstrap_blocker, entitlements_members_job_name).
GuardMeansSeeded ==
  reader # NoReader /\ reader.said = "passed" => reader.values \in seeded

\* A wait for a revision that succeeds means that every gating Kustomization
\* of the release applied it, one that came with the release included: none
\* is Ready for the previous revision only.
WaitMeansUpgraded ==
  reader # NoReader /\ reader.said = "ok" => \A name \in Layers : applied[name] = 2

\* Three readers, each by calls of its own, while a release rolls out or members
\* are seeded: the stamp a converged status shows, the members a guard passes on
\* and the revision a wait was for are those of the cluster.
ReadersAreRight == StampNotOlder /\ GuardMeansSeeded /\ WaitMeansUpgraded
=============================================================================
