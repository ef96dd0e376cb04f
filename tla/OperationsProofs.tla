---------------------------- MODULE OperationsProofs ----------------------------
(* What readers of a rollout conclude, what a reported verdict of a test run   *)
(* stands for, what an add of a member leaves, and that no load runs ahead of  *)
(* the schemas: proved for any layers, services, partitions and processes.     *)
EXTENDS Readiness, Membership, TestRuns, Loads, SequenceTheorems, WellFoundedInduction, TLAPS

---------------------------------------------------------------------------
(* The readers of a rollout.                                                 *)

JobStates == {"absent", "running", "done", "failed"}

Readers ==
  [op : {"status", "guard", "wait"}, left : SUBSET {"kustomizations", "stamp", "git", "jobs", "values"},
   revisions : SUBSET (0..2), git : [requested : Releases, artifact : Releases], stamp : 0..2,
   jobs : [Releases -> JobStates], values : 0..2,
   said : {"", "converged", "moving", "refused", "passed", "ok"}]

ReadinessTyped ==
  /\ source \in [requested : Releases, artifact : Releases]
  /\ objects \in [Layers -> 0..2] /\ applied \in [Layers -> 0..2]
  /\ values \in Releases /\ seeded \subseteq Releases
  /\ memberJobs \in [Releases -> JobStates]
  /\ shown \in [Listed -> LayerReasons] /\ Layers \ {NewLayer} \subseteq Listed /\ Listed \subseteq Layers
  /\ Reads => reader \in Readers

\* What is applied was made of the objects, these of the artifact, and that of
\* what was asked for; once the root is of the second release, every layer is
\* there; a Job that is done has seeded its members.
ClusterSound ==
  /\ source.artifact <= source.requested
  /\ \A name \in Layers : applied[name] <= objects[name] /\ objects[name] <= source.artifact
  /\ objects[Root] = 2 => Listed = Layers
  /\ \A list \in Releases : memberJobs[list] = "done" => list \in seeded

\* Of the revisions a snapshot saw, one is not newer than the root's objects,
\* and than the stamp once that is read.
SnapshotSound ==
  Reads /\ reader.op = "status" =>
    /\ reader.said \in {"", "converged", "moving"}
    /\ "kustomizations" \notin reader.left => \E a \in reader.revisions : a <= objects[Root]
    /\ "stamp" \notin reader.left =>
         "kustomizations" \notin reader.left /\ \E a \in reader.revisions : a <= reader.stamp
    /\ reader.said = "converged" => reader.left = {} /\ SnapshotConverged(reader)

\* A Job the guard saw done has seeded its members; a reader of another kind
\* says nothing a guard or a wait would.
GuardSound ==
  Reads =>
    /\ \A list \in Releases : reader.jobs[list] = "done" => list \in seeded
    /\ reader.said = "passed" => reader.values \in seeded
    /\ reader.said = "converged" => reader.op = "status"
    /\ reader.op # "guard" => "values" \notin reader.left

ReadinessInv == ReadinessTyped /\ ClusterSound /\ SnapshotSound /\ GuardSound /\ WaitMeansUpgraded

\* A cluster that reconciles nothing, and no reader.
LEMMA ReadinessInitInv == ReadinessInit => ReadinessInv
<1> SUFFICES ASSUME ReadinessInit PROVE ReadinessInv
  OBVIOUS
<1>1. ReadinessTyped
  BY ReadinessAssumption DEF ReadinessInit, ReadinessTyped, Releases, JobStates, Listed, LayerReasons, Reads
<1>2. ClusterSound
  BY ReadinessAssumption DEF ReadinessInit, ClusterSound, Releases
<1>3. SnapshotSound /\ GuardSound /\ WaitMeansUpgraded
  BY DEF ReadinessInit, SnapshotSound, GuardSound, WaitMeansUpgraded, Reads
<1> QED BY <1>1, <1>2, <1>3 DEF ReadinessInv

\* What a reader has concluded stays true while the cluster only moves on.
LEMMA ClusterMoves ==
  ASSUME ReadinessInv, UNCHANGED reader, ReadinessTyped', ClusterSound',
         objects[Root] <= objects'[Root], seeded \subseteq seeded',
         \A name \in Layers : applied[name] <= applied'[name]
  PROVE  ReadinessInv'
<1> USE DEF ReadinessInv
<1>1. SnapshotSound'
  <2> SUFFICES ASSUME Reads, reader.op = "status" PROVE SnapshotSound'
    BY DEF SnapshotSound, Reads
  <2>1. \A a \in 0..2 : a <= objects[Root] => a <= objects'[Root]
    BY ReadinessAssumption DEF ReadinessTyped
  <2>2. reader.revisions \subseteq 0..2
    BY DEF ReadinessTyped, Readers
  <2> QED BY <2>1, <2>2 DEF SnapshotSound, SnapshotConverged, Reads
<1>2. GuardSound'
  BY DEF GuardSound, Reads
<1>3. WaitMeansUpgraded'
  BY DEF WaitMeansUpgraded, ReadinessTyped
<1> QED BY <1>1, <1>2, <1>3

\* The source moves on, and with it what is still to be applied.
LEMMA SourceMovesSound ==
  ASSUME ReadinessInv, UpMovesSource \/ SourceFetched
  PROVE  ReadinessInv'
<1> USE DEF ReadinessInv
<1>1. ReadinessTyped' /\ ClusterSound'
  <2>1. CASE UpMovesSource
    BY <2>1 DEF UpMovesSource, ReadinessTyped, ClusterSound, memberSeedVars, Releases, Listed, Reads
  <2>2. CASE SourceFetched
    BY <2>2 DEF SourceFetched, ReadinessTyped, ClusterSound, memberSeedVars, Releases, Listed, Reads
  <2> QED BY <2>1, <2>2
<1> QED BY <1>1, ClusterMoves, ReadinessAssumption
        DEF UpMovesSource, SourceFetched, ReadinessTyped, memberSeedVars

\* A layer starts, or fails, and applies nothing by that.
LEMMA LayerShowsSound ==
  ASSUME ReadinessInv, NEW name \in Layers, KsStarts(name) \/ KsFails(name)
  PROVE  ReadinessInv'
<1> USE DEF ReadinessInv
<1>1. /\ UNCHANGED <<fluxVars, memberSeedVars, reader>>
      /\ \E reason \in LayerReasons : name \in Listed /\ shown' = [shown EXCEPT ![name] = reason]
  BY DEF KsStarts, KsFails, Shows, LayerReasons
<1>2. Listed' = Listed /\ shown' \in [Listed -> LayerReasons]
  BY <1>1 DEF ReadinessTyped, Listed
<1>3. ReadinessTyped' /\ ClusterSound'
  BY <1>1, <1>2 DEF ReadinessTyped, ClusterSound, fluxVars, memberSeedVars, Reads
<1> QED BY <1>1, <1>3, ClusterMoves, ReadinessAssumption DEF fluxVars, memberSeedVars, ReadinessTyped

\* The objects of the artifact are applied; with the root's every layer is there.
LEMMA LayerAppliesSound ==
  ASSUME ReadinessInv, NEW name \in Layers, KsApplies(name)
  PROVE  ReadinessInv'
<1> USE DEF ReadinessInv
<1>1. /\ objects' = [objects EXCEPT ![name] = source.artifact]
      /\ UNCHANGED <<source, applied, memberSeedVars, reader>>
  BY DEF KsApplies
<1>2. /\ shown' \in [Listed' -> LayerReasons]
      /\ Listed' = IF name = Root THEN Layers ELSE Listed
  BY DEF KsApplies, ReadinessTyped, Listed, LayerReasons
<1>3. source.artifact \in 1..2 /\ objects' \in [Layers -> 0..2] /\ objects[name] <= source.artifact
  BY <1>1 DEF ReadinessTyped, ClusterSound, Releases
<1>4. ReadinessTyped'
  BY <1>1, <1>2, <1>3 DEF ReadinessTyped, memberSeedVars, Reads
<1>5. ClusterSound'
  BY <1>1, <1>2, <1>3, ReadinessAssumption DEF ReadinessTyped, ClusterSound, memberSeedVars, Releases
<1>6. objects[Root] <= objects'[Root]
  BY <1>1, <1>3, ReadinessAssumption DEF ReadinessTyped
<1> QED BY <1>1, <1>4, <1>5, <1>6, ClusterMoves DEF memberSeedVars, ReadinessTyped

\* A layer that is Ready has applied the objects it has.
LEMMA LayerSettlesSound ==
  ASSUME ReadinessInv, NEW name \in Layers, KsSettles(name)
  PROVE  ReadinessInv'
<1> USE DEF ReadinessInv
<1>1. /\ applied' = [applied EXCEPT ![name] = objects[name]]
      /\ UNCHANGED <<source, objects, memberSeedVars, reader>>
      /\ name \in Listed /\ shown' = [shown EXCEPT ![name] = "Ready"]
  BY DEF KsSettles, Shows
<1>2. Listed' = Listed /\ shown' \in [Listed -> LayerReasons]
  BY <1>1 DEF ReadinessTyped, Listed, LayerReasons
<1>3. ReadinessTyped' /\ ClusterSound'
  BY <1>1, <1>2 DEF ReadinessTyped, ClusterSound, memberSeedVars, Reads
<1>4. \A layer \in Layers : applied[layer] <= applied'[layer]
  BY <1>1 DEF ReadinessTyped, ClusterSound
<1> QED BY <1>1, <1>3, <1>4, ClusterMoves, ReadinessAssumption DEF memberSeedVars, ReadinessTyped

\* The members Jobs: who is seeded stays seeded.
LEMMA SeedingSound ==
  ASSUME ReadinessInv,
         ValuesWritten \/ HelmRenders \/ \E list \in Releases : JobSucceeds(list) \/ JobGivesUp(list)
  PROVE  ReadinessInv'
<1> USE DEF ReadinessInv
<1>1. UNCHANGED <<shown, fluxVars, reader>> /\ seeded \subseteq seeded'
  BY DEF ValuesWritten, HelmRenders, JobSucceeds, JobGivesUp
<1>2. /\ values' \in Releases /\ seeded' \subseteq Releases /\ memberJobs' \in [Releases -> JobStates]
      /\ \A list \in Releases : memberJobs'[list] = "done" => list \in seeded'
  <2>1. CASE ValuesWritten
    BY <2>1 DEF ValuesWritten, ReadinessTyped, ClusterSound, Releases
  <2>2. CASE HelmRenders
    BY <2>2 DEF HelmRenders, ReadinessTyped, ClusterSound, JobStates
  <2>3. CASE \E list \in Releases : JobSucceeds(list) \/ JobGivesUp(list)
    BY <2>3 DEF JobSucceeds, JobGivesUp, ReadinessTyped, ClusterSound, JobStates
  <2> QED BY <2>1, <2>2, <2>3
<1>3. ReadinessTyped' /\ ClusterSound'
  BY <1>1, <1>2 DEF ReadinessTyped, ClusterSound, fluxVars, Listed, Reads
<1> QED BY <1>1, <1>3, ClusterMoves, ReadinessAssumption DEF fluxVars, ReadinessTyped

\* A reader starts knowing nothing, or ends.
LEMMA ReaderStartsSound ==
  ASSUME ReadinessInv, StatusStarts \/ GuardStarts \/ WaitStarts \/ ReaderEnds
  PROVE  ReadinessInv'
<1> USE DEF ReadinessInv
<1>1. UNCHANGED <<shown, fluxVars, memberSeedVars>>
  BY DEF StatusStarts, GuardStarts, WaitStarts, ReaderEnds, ReaderStarts
<1>2. CASE ReaderEnds
  BY <1>1, <1>2 DEF ReaderEnds, ReadinessTyped, ClusterSound, SnapshotSound, GuardSound, WaitMeansUpgraded,
                    fluxVars, memberSeedVars, Listed, Reads
<1>3. CASE StatusStarts \/ GuardStarts \/ WaitStarts
  <2>1. PICK op \in {"status", "guard", "wait"},
             left \in SUBSET {"kustomizations", "stamp", "git", "jobs", "values"} :
          /\ reader' = Reading(op, left)
          /\ op = "status" => {"kustomizations", "stamp", "git"} \subseteq left
          /\ op # "guard" => "values" \notin left
    BY <1>3 DEF StatusStarts, GuardStarts, WaitStarts, ReaderStarts
  <2>2. reader' \in Readers /\ reader'.said = "" /\ reader'.jobs = memberJobs
        /\ reader'.op = op /\ reader'.left = left
    <3>1. source \in [requested : Releases, artifact : Releases] /\ memberJobs \in [Releases -> JobStates]
      BY DEF ReadinessTyped
    <3>2. reader' = [op |-> op, left |-> left, revisions |-> {}, git |-> source, stamp |-> 0,
                     jobs |-> memberJobs, values |-> 0, said |-> ""]
      BY <2>1 DEF Reading
    <3>3. /\ {} \in SUBSET (0..2) /\ 0 \in 0..2
          /\ "" \in {"", "converged", "moving", "refused", "passed", "ok"}
      OBVIOUS
    <3>4. reader' \in Readers
      BY <3>1, <3>2, <3>3 DEF Readers
    <3> QED BY <3>2, <3>4
  <2>3. ReadinessTyped' /\ ClusterSound'
    BY <1>1, <2>2 DEF ReadinessTyped, ClusterSound, fluxVars, memberSeedVars, Listed
  <2>4. SnapshotSound' /\ GuardSound' /\ WaitMeansUpgraded'
    BY <1>1, <2>1, <2>2 DEF SnapshotSound, GuardSound, WaitMeansUpgraded, ClusterSound, memberSeedVars
  <2> QED BY <2>3, <2>4
<1> QED BY <1>2, <1>3

\* The kustomizations are read: the root is among them.
LEMMA ReadKustomizationsSound ==
  ASSUME ReadinessInv, ReadKustomizations
  PROVE  ReadinessInv'
<1> USE DEF ReadinessInv
<1>1. /\ UNCHANGED <<shown, fluxVars, memberSeedVars>> /\ Reads /\ reader \in Readers /\ reader.said = ""
      /\ "kustomizations" \in reader.left
  BY DEF ReadKustomizations, MayRead, ReadinessTyped
<1>2. PICK word \in {"", "refused"} :
        /\ reader' = [reader EXCEPT !.left = reader.left \ {"kustomizations"},
                                    !.revisions = {applied[name] : name \in Listed}, !.said = word]
        /\ reader.op # "guard" => word = ""
  BY <1>1 DEF ReadKustomizations
<1>3. {applied[name] : name \in Listed} \subseteq 0..2 /\ applied[Root] \in {applied[name] : name \in Listed}
      /\ applied[Root] <= objects[Root]
  <2>1. Root \in Layers /\ Root \in Listed /\ Listed \subseteq Layers /\ applied \in [Layers -> 0..2]
    BY ReadinessAssumption DEF ReadinessTyped
  <2>2. applied[Root] <= objects[Root]
    BY <2>1 DEF ClusterSound
  <2> QED BY <2>1, <2>2
<1>4. /\ reader' \in Readers /\ reader'.op = reader.op /\ reader'.said = word /\ reader'.jobs = reader.jobs
      /\ reader'.left = reader.left \ {"kustomizations"} /\ reader'.revisions = {applied[name] : name \in Listed}
  BY <1>1, <1>2, <1>3 DEF Readers
<1>5. ReadinessTyped' /\ ClusterSound'
  BY <1>1, <1>4 DEF ReadinessTyped, ClusterSound, fluxVars, memberSeedVars, Listed
<1>6. SnapshotSound'
  BY <1>1, <1>2, <1>3, <1>4 DEF SnapshotSound, fluxVars
<1>7. GuardSound' /\ WaitMeansUpgraded'
  BY <1>1, <1>4 DEF GuardSound, WaitMeansUpgraded, memberSeedVars
<1> QED BY <1>5, <1>6, <1>7

\* The source and the stamp are read: the stamp after the kustomizations.
LEMMA ReadStampSound ==
  ASSUME ReadinessInv, ReadSource \/ ReadStamp
  PROVE  ReadinessInv'
<1> USE DEF ReadinessInv
<1>1. /\ UNCHANGED <<shown, fluxVars, memberSeedVars>> /\ Reads /\ reader \in Readers /\ reader.said = ""
  BY DEF ReadSource, ReadStamp, MayRead, ReadinessTyped
<1>2. /\ reader' \in Readers /\ reader'.op = reader.op /\ reader'.said = "" /\ reader'.jobs = reader.jobs
      /\ reader'.revisions = reader.revisions
      /\ \/ reader'.left = reader.left \ {"git"} /\ reader'.stamp = reader.stamp
         \/ reader'.left = reader.left \ {"stamp"} /\ reader'.stamp = objects[Root]
            /\ "kustomizations" \notin reader.left
  <2>1. CASE ReadSource
    BY <1>1, <2>1 DEF ReadSource, Readers, ReadinessTyped
  <2>2. CASE ReadStamp
    BY <1>1, <2>2, ReadinessAssumption DEF ReadStamp, Readers, ReadinessTyped, Stamp, MayRead, StampFollows
  <2> QED BY <2>1, <2>2
<1>3. ReadinessTyped' /\ ClusterSound'
  BY <1>1, <1>2 DEF ReadinessTyped, ClusterSound, fluxVars, memberSeedVars, Listed
<1>4. SnapshotSound'
  BY <1>1, <1>2 DEF SnapshotSound, fluxVars
<1>5. GuardSound' /\ WaitMeansUpgraded'
  BY <1>1, <1>2 DEF GuardSound, WaitMeansUpgraded, memberSeedVars
<1> QED BY <1>3, <1>4, <1>5

\* The guard reads the Jobs and then the values, and passes when the Job of
\* the values is done.
LEMMA ReadJobsSound ==
  ASSUME ReadinessInv, ReadJobs \/ ReadValues
  PROVE  ReadinessInv'
<1> USE DEF ReadinessInv
<1>1. /\ UNCHANGED <<shown, fluxVars, memberSeedVars>> /\ Reads /\ reader \in Readers /\ reader.said = ""
  BY DEF ReadJobs, ReadValues, MayRead, ReadinessTyped
<1>2. CASE ReadJobs
  <2>1. /\ reader' \in Readers /\ reader'.op = reader.op /\ reader'.said = "" /\ reader'.jobs = memberJobs
        /\ reader'.revisions = reader.revisions /\ reader'.stamp = reader.stamp
        /\ reader'.left = reader.left \ {"jobs"}
    BY <1>1, <1>2 DEF ReadJobs, Readers, ReadinessTyped
  <2>2. ReadinessTyped' /\ ClusterSound'
    BY <1>1, <2>1 DEF ReadinessTyped, ClusterSound, fluxVars, memberSeedVars, Listed
  <2>3. SnapshotSound'
    BY <1>1, <2>1 DEF SnapshotSound, fluxVars
  <2>4. GuardSound' /\ WaitMeansUpgraded'
    BY <1>1, <2>1 DEF GuardSound, WaitMeansUpgraded, ClusterSound, memberSeedVars
  <2> QED BY <2>2, <2>3, <2>4
<1>3. CASE ReadValues
  <2>1. /\ reader' \in Readers /\ reader'.op = reader.op /\ reader'.jobs = reader.jobs
        /\ reader'.said \in {"refused", "passed"} /\ reader'.values = values
        /\ reader'.said = "passed" => reader.jobs[values] = "done"
    <3>1. PICK word \in {"refused", "passed"} :
            /\ reader' = [reader EXCEPT !.left = {}, !.values = values, !.said = word]
            /\ word = "passed" => reader.jobs[values] = "done"
      BY <1>3 DEF ReadValues, BootstrapBlocks, JobName
    <3>2. values \in 0..2
      BY DEF ReadinessTyped, Releases
    <3> QED BY <1>1, <3>1, <3>2 DEF Readers
  <2>2. reader.op = "guard"
    BY <1>1, <1>3 DEF ReadValues, MayRead, GuardSound
  <2>3. ReadinessTyped' /\ ClusterSound'
    BY <1>1, <2>1 DEF ReadinessTyped, ClusterSound, fluxVars, memberSeedVars, Listed
  <2>4. SnapshotSound' /\ WaitMeansUpgraded'
    BY <2>1, <2>2 DEF SnapshotSound, WaitMeansUpgraded
  <2>5. GuardSound'
    BY <1>1, <2>1, <2>2 DEF GuardSound, ReadinessTyped, memberSeedVars
  <2> QED BY <2>3, <2>4, <2>5
<1> QED BY <1>2, <1>3

\* Status says what its reads make of it.
LEMMA StatusReportedSound ==
  ASSUME ReadinessInv, StatusReported
  PROVE  ReadinessInv'
<1> USE DEF ReadinessInv
<1>1. /\ UNCHANGED <<shown, fluxVars, memberSeedVars>> /\ Reads /\ reader \in Readers
      /\ reader.op = "status" /\ reader.left = {}
  BY DEF StatusReported, ReadinessTyped
<1>2. PICK word \in {"converged", "moving"} :
        /\ reader' = [reader EXCEPT !.said = word]
        /\ word = "converged" => SnapshotConverged(reader)
  BY DEF StatusReported
<1>3. /\ reader' \in Readers /\ reader'.op = reader.op /\ reader'.said = word /\ reader'.jobs = reader.jobs
      /\ reader'.left = {} /\ reader'.revisions = reader.revisions /\ reader'.stamp = reader.stamp
      /\ reader'.git = reader.git
  BY <1>1, <1>2 DEF Readers
<1>4. ReadinessTyped' /\ ClusterSound'
  BY <1>1, <1>3 DEF ReadinessTyped, ClusterSound, fluxVars, memberSeedVars, Listed
<1>5. SnapshotSound'
  BY <1>1, <1>2, <1>3 DEF SnapshotSound, SnapshotConverged, fluxVars
<1>6. GuardSound' /\ WaitMeansUpgraded'
  BY <1>1, <1>3 DEF GuardSound, WaitMeansUpgraded, memberSeedVars
<1> QED BY <1>4, <1>5, <1>6

\* A wait that succeeds has seen the root at the revision, and so every layer.
LEMMA WaitSucceedsSound ==
  ASSUME ReadinessInv, WaitSucceeds
  PROVE  ReadinessInv'
<1> USE DEF ReadinessInv
<1>1. /\ UNCHANGED <<shown, fluxVars, memberSeedVars>> /\ Reads /\ reader \in Readers
      /\ reader.op = "wait" /\ reader' = [reader EXCEPT !.said = "ok"]
  BY DEF WaitSucceeds, ReadinessTyped
<1>2. /\ reader' \in Readers /\ reader'.op = "wait" /\ reader'.said = "ok" /\ reader'.jobs = reader.jobs
      /\ reader'.left = reader.left
  BY <1>1 DEF Readers
<1>3. \A name \in Layers : applied[name] = 2
  <2>1. Root \in Listed /\ \A name \in Listed : applied[name] = 2
    BY ReadinessAssumption DEF WaitSucceeds, AtRevision, ReadinessTyped
  <2>2. objects[Root] = 2
    BY <2>1, ReadinessAssumption DEF ClusterSound, ReadinessTyped
  <2> QED BY <2>1, <2>2 DEF ClusterSound
<1>4. ReadinessTyped' /\ ClusterSound'
  BY <1>1, <1>2 DEF ReadinessTyped, ClusterSound, fluxVars, memberSeedVars, Listed
<1>5. SnapshotSound' /\ GuardSound' /\ WaitMeansUpgraded'
  BY <1>1, <1>2, <1>3 DEF SnapshotSound, GuardSound, WaitMeansUpgraded, fluxVars, memberSeedVars
<1> QED BY <1>4, <1>5

\* Every step of the rollout, the seeding and the reader keeps the invariant.
LEMMA ReadinessNextInv ==
  ASSUME ReadinessInv, [ReadinessNext]_readinessVars
  PROVE  ReadinessInv'
<1>1. CASE RolloutStep
  BY <1>1, SourceMovesSound, LayerShowsSound, LayerAppliesSound, LayerSettlesSound, ReaderStartsSound,
     ReadStampSound, StatusReportedSound, WaitSucceedsSound DEF RolloutStep
<1>2. CASE SeedingStep
  BY <1>2, SeedingSound, ReaderStartsSound, ReadJobsSound DEF SeedingStep
<1>3. CASE ReadKustomizations \/ ReaderEnds
  BY <1>3, ReadKustomizationsSound, ReaderStartsSound
<1>4. CASE UNCHANGED readinessVars
  BY <1>4 DEF readinessVars, fluxVars, memberSeedVars, ReadinessInv, ReadinessTyped, ClusterSound,
    SnapshotSound, SnapshotConverged, GuardSound, WaitMeansUpgraded, Listed, Reads
<1> QED BY <1>1, <1>2, <1>3, <1>4 DEF ReadinessNext

\* Whatever Flux, Helm, the Jobs and `spi up` do between a reader's calls: a
\* converged status has a stamp no older than the artifact, a guard that passes
\* has read members that are seeded, and a wait that succeeds is for what every
\* layer has applied (status.py, stack_version.py, pins.py,
\* wait_for_flux_ready.sh).
THEOREM ReadersAreAlwaysRight == ReadinessSpec => []ReadersAreRight
<1>1. ReadinessInv => ReadersAreRight
  <2> SUFFICES ASSUME ReadinessInv PROVE ReadersAreRight
    OBVIOUS
  <2> USE DEF ReadinessInv
  <2>1. StampNotOlder
    <3> SUFFICES ASSUME Reads, reader.said = "converged" PROVE reader.stamp >= reader.git.artifact
      BY DEF StampNotOlder, Reads
    <3>1. reader.op = "status" /\ reader.left = {} /\ reader.revisions = {reader.git.artifact}
      BY DEF GuardSound, SnapshotSound, SnapshotConverged
    <3>2. \E a \in reader.revisions : a <= reader.stamp
      BY <3>1 DEF SnapshotSound
    <3>3. reader.git.artifact \in 1..2 /\ reader.stamp \in 0..2
      BY DEF ReadinessTyped, Readers, Releases
    <3> QED BY <3>1, <3>2, <3>3
  <2>2. GuardMeansSeeded /\ WaitMeansUpgraded
    BY DEF GuardSound, GuardMeansSeeded, Reads
  <2> QED BY <2>1, <2>2 DEF ReadersAreRight
<1>2. ReadinessInv /\ [ReadinessNext]_readinessVars => ReadinessInv'
  BY ReadinessNextInv
<1> QED BY <1>1, <1>2, ReadinessInitInv, PTL DEF ReadinessSpec

---------------------------------------------------------------------------
(* The members of the groups.                                                *)

Calls ==
  [op : {"add", "remove"}, role : AskedRoles \union {NoCall}, phase : {"read", "drop", "add", "undo"},
   at : 1..Len(Tenants), read : [PartitionSet -> SUBSET Groups], began : [PartitionSet -> SUBSET Groups],
   todo : SUBSET Groups, kept : SUBSET Groups, outcome : Outcomes \union {NoCall}]

MemberTyped ==
  /\ holds \in [PartitionSet -> SUBSET Groups] /\ DOMAIN missing = PartitionSet /\ failures \in Nat
  /\ memberCall # NoCall =>
       /\ memberCall \in Calls
       /\ memberCall.phase # "read" => memberCall.op = "add"
       /\ memberCall.op = "add" => memberCall.role \in AskedRoles
       /\ memberCall.outcome \in {"undone", "kept"} => memberCall.phase = "undo"
       /\ memberCall.phase # "undo" => memberCall.kept = {}
       /\ memberCall.op = "add" /\ memberCall.outcome = "done" => memberCall.phase = "add"

\* The groups of the role that is asked for.
Wanted == Presets[memberCall.role]

\* While an add reads, nothing is written, and what it has read lacks no group.
ReadSound ==
  /\ holds = memberCall.began
  /\ \A i \in 1..Len(Tenants) : i < memberCall.at =>
       /\ memberCall.read[Tenants[i]] = memberCall.began[Tenants[i]]
       /\ Wanted \intersect missing[Tenants[i]] = {}

\* While it writes, the partitions before are of the role, those to come as
\* they were, and no partition lacks a group.
WriteSound ==
  /\ memberCall.read = memberCall.began
  /\ \A i \in 1..Len(Tenants) :
       /\ Wanted \intersect missing[Tenants[i]] = {}
       /\ i < memberCall.at => holds[Tenants[i]] = Wanted
       /\ i > memberCall.at => holds[Tenants[i]] = memberCall.began[Tenants[i]]

\* Here, what the role and the first read share is never taken away, the
\* groups of other roles go before one is added, and what is added and not
\* taken back is still to be undone, or kept.
HereSound ==
  LET shared == memberCall.began[Here] \intersect Wanted
  IN  /\ memberCall.phase = "drop" /\ memberCall.outcome = NoCall =>
           holds[Here] = shared \union memberCall.todo /\ memberCall.todo \intersect Wanted = {}
      /\ memberCall.phase = "add" /\ memberCall.outcome = NoCall =>
           /\ memberCall.todo \subseteq Wanted /\ shared \subseteq holds[Here]
           /\ holds[Here] \subseteq Wanted /\ Wanted \ memberCall.todo \subseteq holds[Here]
      /\ memberCall.phase = "undo" =>
           shared \subseteq holds[Here] /\ holds[Here] \subseteq Wanted
      /\ memberCall.phase = "undo" /\ memberCall.outcome = NoCall =>
           /\ holds[Here] \ shared \subseteq memberCall.todo \union memberCall.kept
           /\ (memberCall.todo \union memberCall.kept) \intersect shared = {}
      /\ memberCall.outcome = "undone" => holds[Here] = shared
      /\ memberCall.outcome = "done" => \A p \in PartitionSet : holds[p] = Wanted

AddSound ==
  memberCall # NoCall /\ memberCall.op = "add" =>
    /\ memberCall.phase = "read" => ReadSound
    /\ memberCall.phase # "read" => WriteSound /\ HereSound

MemberInv == MemberTyped /\ AddSound

\* The tenants are distinct, and they are the partitions.
LEMMA TenantsArePartitions ==
  /\ Len(Tenants) \in Nat /\ 1 \in 1..Len(Tenants) /\ DOMAIN Tenants = 1..Len(Tenants)
  /\ \A i \in 1..Len(Tenants) : Tenants[i] \in PartitionSet
  /\ \A p \in PartitionSet : \E i \in 1..Len(Tenants) : p = Tenants[i]
  /\ \A i, j \in 1..Len(Tenants) : Tenants[i] = Tenants[j] => i = j
<1>1. Tenants \in Seq(PartitionSet) /\ Len(Tenants) > 0
  BY TenantsAssumption
<1>2. Len(Tenants) \in Nat /\ DOMAIN Tenants = 1..Len(Tenants)
  BY <1>1
<1> QED BY <1>1, <1>2, TenantsAssumption DEF PartitionSet

\* The groups of a role are groups, `users` is among them, and the role is
\* what they read as.
LEMMA RolesReadAsAsked ==
  ASSUME NEW role \in AskedRoles
  PROVE  /\ Presets[role] \subseteq Groups /\ Users \in Presets[role]
         /\ RoleOf(Presets[role]) = role
<1> role \in {"viewer", "editor", "admin", "ops"}
  BY TenantsAssumption
<1>1. Presets[role] \subseteq Groups /\ Users \in Presets[role]
  BY DEF Presets, Groups, RoleGroups, Users, Impersonation
<1> DEFINE held == Presets[role] \intersect RoleGroups
           roles == {other \in DOMAIN Presets : held = Presets[other] \ {Users}}
<1>2. held = Presets[role] \ {Users} /\ held # {}
  BY DEF Presets, RoleGroups, Users, Impersonation
<1>3. roles = {role}
  BY DEF Presets, RoleGroups, Users, Impersonation
<1>4. RoleOf(Presets[role]) = CHOOSE other \in roles : TRUE
  BY <1>2, <1>3 DEF RoleOf
<1> QED BY <1>1, <1>3, <1>4

\* There is a next group as long as there is one to do.
LEMMA NextGroupIsToDo ==
  ASSUME NEW c \in Calls, memberCall = c, c.todo # {}
  PROVE  NextGroup \in c.todo
<1>1. c.todo \subseteq Groups
  BY DEF Calls
<1>2. \A group \in Groups : Place(group) \in -7..7
  BY DEF Place, Groups, RoleGroups, Users, Impersonation, PresetPlace, RolePlace
<1>3. \E group \in c.todo : \A other \in c.todo : Place(group) <= Place(other)
  <2> DEFINE Places == {Place(group) + 7 : group \in c.todo}
  <2>1. Places \in SUBSET Nat /\ Places # {}
    BY <1>1, <1>2
  <2>2. PICK n \in Places : \A m \in Places : n <= m
    <3> HIDE DEF Places
    <3>1. PICK n \in Places : \A m \in Places : ~(<<m, n>> \in OpToRel(<, Nat))
      BY <2>1, NatLessThanWellFounded, WFMin
    <3>2. \A m \in Places : ~(m < n)
      BY <2>1, <3>1 DEF OpToRel
    <3> QED BY <2>1, <3>2
  <2> QED BY <1>1, <1>2, <2>2
<1> QED BY <1>3 DEF NextGroup

\* No call has been made.
LEMMA MemberInitInv == MembershipInit => MemberInv
BY DEF MembershipInit, MemberInv, MemberTyped, AddSound, Groups

\* A call that begins has done nothing.
LEMMA CallBeginsSound ==
  ASSUME MemberInv, RemoveUser \/ \E role \in AskedRoles : AddUser(role)
  PROVE  MemberInv'
<1>1. PICK op \in {"add", "remove"}, role \in AskedRoles \union {NoCall} :
        memberCall' = NewCall(op, role) /\ (op = "add" => role \in AskedRoles)
  BY DEF RemoveUser, AddUser
<1>2. UNCHANGED <<holds, missing, failures>>
  BY DEF RemoveUser, AddUser
<1>3. NewCall(op, role) \in Calls
  <2>1. NothingRead \in [PartitionSet -> SUBSET Groups] /\ holds \in [PartitionSet -> SUBSET Groups]
    BY DEF NothingRead, MemberInv, MemberTyped
  <2> QED BY <2>1, TenantsArePartitions DEF NewCall, Calls
<1>4. /\ memberCall'.op = op /\ memberCall'.role = role /\ memberCall'.phase = "read" /\ memberCall'.at = 1
      /\ memberCall'.began = holds /\ memberCall'.kept = {} /\ memberCall'.outcome = NoCall
  BY <1>1 DEF NewCall
<1>5. MemberTyped'
  BY <1>1, <1>2, <1>3, <1>4, TenantsAssumption DEF MemberInv, MemberTyped, Outcomes
<1>6. AddSound'
  BY <1>2, <1>4 DEF AddSound, ReadSound
<1> QED BY <1>5, <1>6 DEF MemberInv

\* A call that is running is one, and is at a partition.
LEMMA RunningCall ==
  ASSUME MemberInv, Running
  PROVE  /\ memberCall # NoCall /\ memberCall \in Calls /\ memberCall.outcome = NoCall
         /\ memberCall.at \in 1..Len(Tenants) /\ Here \in PartitionSet
         /\ memberCall.op = "add" =>
              memberCall.role \in AskedRoles /\ Wanted \subseteq Groups /\ Users \in Wanted
BY TenantsArePartitions, RolesReadAsAsked DEF MemberInv, MemberTyped, Running, Calls, Here, Wanted

\* A call that stops without a word has done no more than it had.
LEMMA CallStops ==
  ASSUME MemberInv, Running, NEW outcome \in {"group_missing", "failed", "killed"}, Ends(outcome),
         UNCHANGED <<holds, missing>>, failures' \in Nat
  PROVE  MemberInv'
<1>1. /\ memberCall' \in Calls /\ memberCall'.outcome = outcome
      /\ memberCall'.op = memberCall.op /\ memberCall'.role = memberCall.role
      /\ memberCall'.phase = memberCall.phase /\ memberCall'.at = memberCall.at
      /\ memberCall'.read = memberCall.read /\ memberCall'.began = memberCall.began
      /\ memberCall'.kept = memberCall.kept
  BY RunningCall DEF Ends, Calls, Outcomes
<1>2. MemberTyped'
  BY <1>1, RunningCall DEF MemberInv, MemberTyped
<1>3. AddSound'
  BY <1>1, RunningCall, TenantsAssumption
  DEF MemberInv, AddSound, ReadSound, WriteSound, HereSound, Wanted, Here, Outcomes
<1> QED BY <1>2, <1>3 DEF MemberInv

\* The partitions are read; after the last the writes begin.
LEMMA ReadPartitionSound ==
  ASSUME MemberInv, ReadPartition
  PROVE  MemberInv'
<1>1. /\ Running /\ memberCall.op = "add" /\ memberCall.phase = "read"
      /\ UNCHANGED <<holds, missing, failures>>
  BY DEF ReadPartition
<1>2. CASE Ends("group_missing")
  BY <1>1, <1>2, CallStops DEF MemberInv, MemberTyped
<1>3. CASE ~Ends("group_missing")
  <2> DEFINE c == memberCall
             read == [c.read EXCEPT ![Here] = holds[Here]]
  <2>1. /\ Wanted \intersect missing[Here] = {}
        /\ \/ c.at < Len(Tenants) /\ memberCall' = [c EXCEPT !.read = read, !.at = c.at + 1]
           \/ c.at = Len(Tenants)
              /\ memberCall' = [c EXCEPT !.read = read, !.phase = "drop", !.at = 1,
                                         !.todo = Dropped(c.role, read[Tenants[1]])]
    BY <1>1, <1>3, RunningCall, TenantsArePartitions DEF ReadPartition, Begin, Required, Wanted, Calls
  <2>2. ReadSound /\ c \in Calls /\ c.outcome = NoCall /\ c.at \in 1..Len(Tenants) /\ Here \in PartitionSet
        /\ c.role \in AskedRoles /\ Wanted \subseteq Groups /\ holds \in [PartitionSet -> SUBSET Groups]
        /\ DOMAIN missing = PartitionSet /\ failures \in Nat /\ c.kept = {}
    BY <1>1, RunningCall DEF MemberInv, AddSound, MemberTyped
  <2>3. /\ read \in [PartitionSet -> SUBSET Groups]
        /\ \A i \in 1..Len(Tenants) : i <= c.at =>
             read[Tenants[i]] = c.began[Tenants[i]] /\ Wanted \intersect missing[Tenants[i]] = {}
    <3>1. read \in [PartitionSet -> SUBSET Groups]
      BY <2>2 DEF Calls
    <3>2. read[Here] = c.began[Here]
      BY <2>2 DEF Calls, ReadSound
    <3>3. ASSUME NEW i \in 1..Len(Tenants), i < c.at
          PROVE  read[Tenants[i]] = c.began[Tenants[i]] /\ Wanted \intersect missing[Tenants[i]] = {}
      <4>1. Tenants[i] # Here /\ Tenants[i] \in PartitionSet
        BY <2>2, <3>3, TenantsArePartitions DEF Here
      <4> QED BY <2>2, <3>3, <4>1 DEF ReadSound, Calls
    <3>4. ASSUME NEW i \in 1..Len(Tenants), i <= c.at PROVE i < c.at \/ Tenants[i] = Here
      BY <2>2, <3>4, TenantsArePartitions DEF Here
    <3> QED BY <2>1, <3>1, <3>2, <3>3, <3>4
  <2> HIDE DEF read
  <2>4. CASE c.at < Len(Tenants) /\ memberCall' = [c EXCEPT !.read = read, !.at = c.at + 1]
    <3>1. c.at + 1 \in 1..Len(Tenants)
      BY <2>2, <2>4, TenantsArePartitions
    <3>2. /\ memberCall' \in Calls /\ memberCall'.outcome = NoCall /\ memberCall'.op = "add"
          /\ memberCall'.role = c.role /\ memberCall'.phase = "read" /\ memberCall'.at = c.at + 1
          /\ memberCall'.read = read /\ memberCall'.began = c.began /\ memberCall'.kept = c.kept
      BY <1>1, <2>2, <2>3, <2>4, <3>1 DEF Calls
    <3>3. MemberTyped'
      BY <1>1, <2>2, <3>2, TenantsAssumption DEF MemberTyped, Outcomes
    <3>4. AddSound'
      BY <1>1, <2>2, <2>3, <3>2, TenantsArePartitions DEF AddSound, ReadSound, Wanted
    <3> QED BY <3>3, <3>4 DEF MemberInv
  <2>5. CASE c.at = Len(Tenants)
             /\ memberCall' = [c EXCEPT !.read = read, !.phase = "drop", !.at = 1,
                                        !.todo = Dropped(c.role, read[Tenants[1]])]
    <3> DEFINE here == Tenants[1]
    <3>1. here \in PartitionSet /\ 1 \in 1..Len(Tenants) /\ 1 <= c.at
      BY <2>2, <2>5, TenantsArePartitions
    <3>2. /\ read = c.began
          /\ \A i \in 1..Len(Tenants) : Wanted \intersect missing[Tenants[i]] = {}
      <4>1. \A p \in PartitionSet : read[p] = c.began[p]
        BY <2>2, <2>3, <2>5, TenantsArePartitions
      <4>2. read \in [PartitionSet -> SUBSET Groups] /\ c.began \in [PartitionSet -> SUBSET Groups]
        BY <2>2, <2>3 DEF Calls
      <4> QED BY <2>3, <2>5, <4>1, <4>2
    <3>3. /\ Dropped(c.role, read[here]) = holds[here] \ Wanted
          /\ Dropped(c.role, read[here]) \subseteq Groups
      <4>1. read[here] = holds[here] /\ holds[here] \subseteq Groups
        BY <2>2, <3>1, <3>2 DEF ReadSound
      <4> QED BY <1>1, <4>1, RunningCall DEF Dropped, Groups, Wanted
    <3>4. /\ memberCall' \in Calls /\ memberCall'.outcome = NoCall /\ memberCall'.op = "add"
          /\ memberCall'.role = c.role /\ memberCall'.phase = "drop" /\ memberCall'.at = 1
          /\ memberCall'.read = read /\ memberCall'.began = c.began /\ memberCall'.kept = c.kept
          /\ memberCall'.todo = Dropped(c.role, read[here])
      BY <1>1, <2>2, <2>3, <2>5, <3>1, <3>3 DEF Calls
    <3>5. MemberTyped'
      BY <1>1, <2>2, <3>4, TenantsAssumption DEF MemberTyped, Outcomes
    <3>6. AddSound'
      <4>1. WriteSound'
        BY <1>1, <2>2, <3>2, <3>4 DEF WriteSound, ReadSound, Wanted
      <4>2. HereSound'
        <5>1. Here' = here /\ Wanted' = Wanted
          BY <3>4 DEF Here, Wanted
        <5>2. holds[here] = c.began[here]
          BY <2>2 DEF ReadSound
        <5> QED BY <1>1, <3>3, <3>4, <5>1, <5>2, TenantsAssumption DEF HereSound, Outcomes
      <4> QED BY <3>4, <4>1, <4>2 DEF AddSound
    <3> QED BY <3>5, <3>6 DEF MemberInv
  <2> QED BY <2>1, <2>4, <2>5
<1> QED BY <1>2, <1>3

\* A write here changes no other partition.
LEMMA WriteHere ==
  ASSUME MemberInv, Running, memberCall.op = "add", memberCall.phase # "read",
         NEW groups \in SUBSET Groups, holds' = [holds EXCEPT ![Here] = groups], UNCHANGED missing,
         memberCall'.at = memberCall.at, memberCall'.role = memberCall.role,
         memberCall'.read = memberCall.read, memberCall'.began = memberCall.began
  PROVE  /\ WriteSound' /\ Here' = Here /\ Wanted' = Wanted
         /\ holds'[Here] = groups /\ holds' \in [PartitionSet -> SUBSET Groups]
         /\ memberCall'.began[Here'] \intersect Wanted' = memberCall.began[Here] \intersect Wanted
<1>1. WriteSound /\ memberCall \in Calls /\ memberCall.at \in 1..Len(Tenants) /\ Here \in PartitionSet
      /\ holds \in [PartitionSet -> SUBSET Groups]
  BY RunningCall DEF MemberInv, MemberTyped, AddSound
<1>2. Here' = Here /\ Wanted' = Wanted
  BY DEF Here, Wanted
<1>3. holds'[Here] = groups /\ holds' \in [PartitionSet -> SUBSET Groups]
  BY <1>1
<1>4. \A i \in 1..Len(Tenants) : i # memberCall.at => holds'[Tenants[i]] = holds[Tenants[i]]
  BY <1>1, TenantsArePartitions DEF Here
<1>5. WriteSound'
  BY <1>1, <1>2, <1>4, TenantsArePartitions DEF WriteSound
<1> QED BY <1>2, <1>3, <1>5

\* The removals are done, and the additions follow.
LEMMA StartAddingSound ==
  ASSUME MemberInv, StartAdding
  PROVE  MemberInv'
<1> DEFINE c == memberCall
<1>1. /\ Running /\ c.phase = "drop" /\ c.todo = {} /\ c.op = "add"
      /\ UNCHANGED <<holds, missing, failures>>
      /\ memberCall' = [c EXCEPT !.phase = "add", !.todo = Presets[c.role]]
  BY RunningCall DEF StartAdding, MemberInv, MemberTyped
<1>2. /\ memberCall' \in Calls /\ memberCall'.outcome = NoCall /\ memberCall'.op = "add"
      /\ memberCall'.role = c.role /\ memberCall'.phase = "add" /\ memberCall'.at = c.at
      /\ memberCall'.read = c.read /\ memberCall'.began = c.began /\ memberCall'.kept = c.kept
        /\ memberCall'.todo = Wanted
  BY <1>1, RunningCall DEF Calls, Wanted
<1>3. MemberTyped'
  BY <1>1, <1>2, RunningCall, TenantsAssumption DEF MemberInv, MemberTyped, Outcomes
<1>4. WriteSound' /\ Here' = Here /\ Wanted' = Wanted
  BY <1>1, <1>2, RunningCall DEF MemberInv, AddSound, WriteSound, Here, Wanted
<1>5. HereSound'
  <2>1. holds[Here] = c.began[Here] \intersect Wanted
    BY <1>1, RunningCall DEF MemberInv, AddSound, HereSound
  <2> QED BY <1>1, <1>2, <1>4, <2>1, TenantsAssumption DEF HereSound, Outcomes
<1> QED BY <1>2, <1>3, <1>4, <1>5 DEF MemberInv, AddSound

\* A partition that has the role leads to the next one, or to the report.
LEMMA PartitionDoneSound ==
  ASSUME MemberInv, PartitionDone
  PROVE  MemberInv'
<1> DEFINE c == memberCall
<1>1. /\ Running /\ c.phase = "add" /\ c.todo = {} /\ c.op = "add"
      /\ UNCHANGED <<holds, missing, failures>>
  BY RunningCall DEF PartitionDone, MemberInv, MemberTyped
<1>2. /\ WriteSound /\ HereSound /\ c \in Calls /\ c.outcome = NoCall /\ c.at \in 1..Len(Tenants)
      /\ Here \in PartitionSet /\ c.role \in AskedRoles /\ Wanted \subseteq Groups
      /\ holds \in [PartitionSet -> SUBSET Groups] /\ failures \in Nat /\ DOMAIN missing = PartitionSet
      /\ c.kept = {}
  BY <1>1, RunningCall DEF MemberInv, AddSound, MemberTyped
<1>3. holds[Here] = Wanted
  BY <1>1, <1>2 DEF HereSound
<1>4. \A i \in 1..Len(Tenants) : i <= c.at => holds[Tenants[i]] = Wanted
  <2>1. \A i \in 1..Len(Tenants) : i <= c.at => i < c.at \/ i = c.at
    BY <1>2, TenantsArePartitions
  <2> QED BY <1>2, <1>3, <2>1 DEF WriteSound, Here
<1>5. CASE c.at < Len(Tenants)
  <2> DEFINE next == c.at + 1
             todo == Dropped(c.role, c.read[Tenants[next]])
  <2>1. next \in 1..Len(Tenants) /\ Tenants[next] \in PartitionSet
    BY <1>2, <1>5, TenantsArePartitions
  <2>2. holds[Tenants[next]] = c.began[Tenants[next]] /\ c.read = c.began
    BY <1>2, <2>1 DEF WriteSound
  <2>3. todo = holds[Tenants[next]] \ Wanted /\ todo \subseteq Groups
    <3>1. Users \in Wanted
      BY <1>1, RunningCall
    <3>2. holds[Tenants[next]] \subseteq Groups
      BY <1>2, <2>1
    <3> QED BY <2>2, <3>1, <3>2 DEF Dropped, Groups, Wanted
  <2>4. memberCall' = [c EXCEPT !.phase = "drop", !.at = next, !.todo = todo]
    BY <1>5 DEF PartitionDone, Begin
  <2>5. /\ memberCall' \in Calls /\ memberCall'.outcome = NoCall /\ memberCall'.op = "add"
        /\ memberCall'.role = c.role /\ memberCall'.phase = "drop" /\ memberCall'.at = next
        /\ memberCall'.read = c.read /\ memberCall'.began = c.began /\ memberCall'.kept = c.kept
        /\ memberCall'.todo = todo
    <3> HIDE DEF todo, next
    <3> QED BY <1>1, <1>2, <2>1, <2>3, <2>4 DEF Calls
  <2>6. MemberTyped'
    BY <1>1, <1>2, <2>5, TenantsAssumption DEF MemberTyped, Outcomes
  <2>7. Here' = Tenants[next] /\ Wanted' = Wanted
    BY <2>5 DEF Here, Wanted
  <2>8. WriteSound'
    <3>1. \A i \in 1..Len(Tenants) : i < next => i <= c.at
      BY <1>2, TenantsArePartitions
    <3>2. \A i \in 1..Len(Tenants) : i > next => i > c.at
      BY <1>2, TenantsArePartitions
    <3> HIDE DEF next, todo
    <3> QED BY <1>1, <1>2, <1>4, <2>5, <2>7, <3>1, <3>2 DEF WriteSound
  <2>9. HereSound'
    <3> HIDE DEF next, todo
    <3> QED BY <1>1, <2>2, <2>3, <2>5, <2>7, TenantsAssumption DEF HereSound, Outcomes
  <2> QED BY <2>5, <2>6, <2>8, <2>9 DEF MemberInv, AddSound
<1>6. CASE ~(c.at < Len(Tenants))
  <2>1. \A p \in PartitionSet : holds[p] = Wanted
    <3>1. \A i \in 1..Len(Tenants) : i <= c.at
      BY <1>2, <1>6, TenantsArePartitions
    <3> QED BY <1>4, <3>1, TenantsArePartitions
  <2>2. Ends("done")
    BY <1>6 DEF PartitionDone
  <2>3. /\ memberCall' \in Calls /\ memberCall'.outcome = "done" /\ memberCall'.op = "add"
        /\ memberCall'.role = c.role /\ memberCall'.phase = "add" /\ memberCall'.at = c.at
        /\ memberCall'.read = c.read /\ memberCall'.began = c.began /\ memberCall'.kept = c.kept
    BY <1>1, <1>2, <2>2 DEF Ends, Calls, Outcomes
  <2>4. MemberTyped'
    BY <1>1, <1>2, <2>3 DEF MemberTyped
  <2>5. WriteSound' /\ Here' = Here /\ Wanted' = Wanted
    BY <1>1, <1>2, <2>3 DEF WriteSound, Here, Wanted
  <2>6. HereSound'
    BY <1>1, <2>1, <2>3, <2>5, TenantsAssumption DEF HereSound, Outcomes
  <2> QED BY <2>3, <2>4, <2>5, <2>6 DEF MemberInv, AddSound
<1> QED BY <1>5, <1>6

\* An answer is counted, and a count stays one.
LEMMA FailuresCount ==
  ASSUME MemberInv, NEW answer \in Answers, Fails(answer)
  PROVE  failures' \in Nat /\ (answer.ok => answer.effect)
<1>1. failures \in Nat
  BY DEF MemberInv, MemberTyped
<1>2. answer.ok \in BOOLEAN /\ (answer.ok => answer.effect)
  BY DEF Answers
<1>3. failures' = failures \/ failures' = failures + 1
  BY <1>1, <1>2 DEF Fails
<1> QED BY <1>1, <1>2, <1>3

\* A group of another role is taken away, or the call ends there.
LEMMA DropGroupSound ==
  ASSUME MemberInv, NEW answer \in Answers, DropGroup(answer)
  PROVE  MemberInv'
<1> DEFINE c == memberCall
           g == NextGroup
           groups == IF answer.effect THEN holds[Here] \ {g} ELSE holds[Here]
<1>1. /\ Running /\ c.phase = "drop" /\ c.todo # {} /\ c.op = "add"
      /\ Fails(answer) /\ UNCHANGED missing
      /\ holds' = [holds EXCEPT ![Here] = groups]
      /\ IF answer.ok THEN memberCall' = [c EXCEPT !.todo = c.todo \ {g}] ELSE Ends("failed")
  BY RunningCall DEF DropGroup, MemberInv, MemberTyped, Calls
<1>2. /\ HereSound /\ c \in Calls /\ c.outcome = NoCall /\ Here \in PartitionSet
      /\ holds \in [PartitionSet -> SUBSET Groups] /\ Wanted \subseteq Groups
  BY <1>1, RunningCall DEF MemberInv, AddSound, MemberTyped
<1>3. g \in c.todo /\ groups \in SUBSET Groups
  BY <1>1, <1>2, NextGroupIsToDo
<1>4. failures' \in Nat /\ (answer.ok => answer.effect)
  BY <1>1, FailuresCount
<1> HIDE DEF g, groups
<1>5. CASE answer.ok
  <2>1. /\ memberCall' \in Calls /\ memberCall'.outcome = NoCall /\ memberCall'.op = "add"
        /\ memberCall'.role = c.role /\ memberCall'.phase = "drop" /\ memberCall'.at = c.at
        /\ memberCall'.read = c.read /\ memberCall'.began = c.began /\ memberCall'.kept = c.kept
        /\ memberCall'.todo = c.todo \ {g}
    BY <1>1, <1>2, <1>5 DEF Calls
  <2>2. WriteSound' /\ Here' = Here /\ Wanted' = Wanted /\ holds'[Here] = groups
        /\ holds' \in [PartitionSet -> SUBSET Groups]
    BY <1>1, <1>3, <2>1, WriteHere
  <2>3. MemberTyped'
    BY <1>1, <1>4, <2>1, <2>2, TenantsAssumption, RunningCall DEF MemberInv, MemberTyped, Outcomes
  <2>4. HereSound'
    <3>1. holds[Here] = (c.began[Here] \intersect Wanted) \union c.todo /\ c.todo \intersect Wanted = {}
      BY <1>1, <1>2 DEF HereSound
    <3>2. groups = (c.began[Here] \intersect Wanted) \union (c.todo \ {g})
      BY <1>3, <1>4, <1>5, <3>1 DEF groups
    <3> QED BY <2>1, <2>2, <3>1, <3>2, TenantsAssumption DEF HereSound, Outcomes
  <2> QED BY <2>1, <2>2, <2>3, <2>4 DEF MemberInv, AddSound
<1>6. CASE ~answer.ok
  <2>1. /\ memberCall' \in Calls /\ memberCall'.outcome = "failed" /\ memberCall'.op = "add"
        /\ memberCall'.role = c.role /\ memberCall'.phase = "drop" /\ memberCall'.at = c.at
        /\ memberCall'.read = c.read /\ memberCall'.began = c.began /\ memberCall'.kept = c.kept
    BY <1>1, <1>2, <1>6 DEF Ends, Calls, Outcomes
  <2>2. WriteSound' /\ holds' \in [PartitionSet -> SUBSET Groups]
    BY <1>1, <1>3, <2>1, WriteHere
  <2>3. MemberTyped'
    BY <1>1, <1>4, <2>1, <2>2, RunningCall DEF MemberInv, MemberTyped
  <2>4. HereSound'
    BY <2>1, TenantsAssumption DEF HereSound, Outcomes
  <2> QED BY <2>1, <2>2, <2>3, <2>4 DEF MemberInv, AddSound
<1> QED BY <1>5, <1>6

\* A group of the role is added, or what may have been added is to be undone.
LEMMA AddGroupSound ==
  ASSUME MemberInv, NEW answer \in Answers, AddGroup(answer)
  PROVE  MemberInv'
<1> DEFINE c == memberCall
           g == NextGroup
           groups == IF answer.effect THEN holds[Here] \union {g} ELSE holds[Here]
           absent == Wanted \ c.read[Here]
<1>1. /\ Running /\ c.phase = "add" /\ c.todo # {} /\ c.op = "add" /\ Fails(answer)
  BY RunningCall DEF AddGroup, MemberInv, MemberTyped
<1>2. /\ WriteSound /\ HereSound /\ c \in Calls /\ c.outcome = NoCall /\ Here \in PartitionSet
      /\ c.at \in 1..Len(Tenants) /\ holds \in [PartitionSet -> SUBSET Groups] /\ Wanted \subseteq Groups
  BY <1>1, RunningCall DEF MemberInv, AddSound, MemberTyped
<1>3. /\ c.todo \subseteq Wanted /\ c.began[Here] \intersect Wanted \subseteq holds[Here]
      /\ holds[Here] \subseteq Wanted /\ Wanted \ c.todo \subseteq holds[Here]
  BY <1>1, <1>2 DEF HereSound
<1>4. g \in c.todo /\ g \in Wanted /\ groups \in SUBSET Groups /\ groups \subseteq Wanted
  BY <1>1, <1>2, <1>3, NextGroupIsToDo
<1>5. failures' \in Nat /\ (answer.ok => answer.effect)
  BY <1>1, FailuresCount
<1>6. NextGroup \notin missing[Here]
  BY <1>2, <1>4 DEF WriteSound, Here
<1>7. /\ holds' = [holds EXCEPT ![Here] = groups] /\ UNCHANGED missing
      /\ IF answer.ok THEN memberCall' = [c EXCEPT !.todo = c.todo \ {g}]
         ELSE memberCall' = [c EXCEPT !.phase = "undo", !.todo = absent]
  <2>1. /\ holds' = IF answer.effect THEN [holds EXCEPT ![Here] = holds[Here] \union {g}] ELSE holds
        /\ UNCHANGED missing
        /\ memberCall' = IF answer.ok THEN [c EXCEPT !.todo = c.todo \ {g}]
                         ELSE [c EXCEPT !.phase = "undo", !.todo = absent]
    BY <1>1, <1>2, <1>6 DEF AddGroup, StartUndo, Absent, Wanted, Calls
  <2> QED BY <1>2, <2>1
<1>8. absent \subseteq Groups /\ absent = Wanted \ c.began[Here]
  BY <1>2 DEF WriteSound
<1>9. c.began[Here] \intersect Wanted \subseteq groups
  BY <1>3
<1> HIDE DEF g, groups, absent
<1>10. CASE answer.ok
  <2>1. /\ memberCall' \in Calls /\ memberCall'.outcome = NoCall /\ memberCall'.op = "add"
        /\ memberCall'.role = c.role /\ memberCall'.phase = "add" /\ memberCall'.at = c.at
        /\ memberCall'.read = c.read /\ memberCall'.began = c.began /\ memberCall'.kept = c.kept
        /\ memberCall'.todo = c.todo \ {g}
    BY <1>1, <1>2, <1>7, <1>10 DEF Calls
  <2>2. WriteSound' /\ Here' = Here /\ Wanted' = Wanted /\ holds'[Here] = groups
        /\ holds' \in [PartitionSet -> SUBSET Groups]
    BY <1>1, <1>4, <1>7, <2>1, WriteHere
  <2>3. MemberTyped'
    BY <1>1, <1>5, <1>7, <2>1, <2>2, TenantsAssumption, RunningCall DEF MemberInv, MemberTyped, Outcomes
  <2>4. HereSound'
    <3>1. Wanted \ (c.todo \ {g}) \subseteq groups
      BY <1>3, <1>4, <1>5, <1>10 DEF groups
    <3> QED BY <1>3, <1>4, <1>9, <2>1, <2>2, <3>1, TenantsAssumption DEF HereSound, Outcomes
  <2> QED BY <2>1, <2>2, <2>3, <2>4 DEF MemberInv, AddSound
<1>11. CASE ~answer.ok
  <2>1. /\ memberCall' \in Calls /\ memberCall'.outcome = NoCall /\ memberCall'.op = "add"
        /\ memberCall'.role = c.role /\ memberCall'.phase = "undo" /\ memberCall'.at = c.at
        /\ memberCall'.read = c.read /\ memberCall'.began = c.began /\ memberCall'.kept = c.kept
        /\ memberCall'.todo = absent
    BY <1>1, <1>2, <1>7, <1>8, <1>11 DEF Calls
  <2>2. WriteSound' /\ Here' = Here /\ Wanted' = Wanted /\ holds'[Here] = groups
        /\ holds' \in [PartitionSet -> SUBSET Groups]
    BY <1>1, <1>4, <1>7, <2>1, WriteHere
  <2>3. MemberTyped'
    BY <1>1, <1>5, <1>7, <2>1, <2>2, TenantsAssumption, RunningCall DEF MemberInv, MemberTyped, Outcomes
  <2>4. c.kept = {}
    BY <1>1, RunningCall DEF MemberInv, MemberTyped
  <2>5. HereSound'
    BY <1>4, <1>8, <1>9, <2>1, <2>2, <2>4, TenantsAssumption DEF HereSound, Outcomes
  <2> QED BY <2>1, <2>2, <2>3, <2>5 DEF MemberInv, AddSound
<1> QED BY <1>10, <1>11

\* What may have been added is taken back, or named as kept.
LEMMA UndoGroupSound ==
  ASSUME MemberInv, NEW answer \in Answers, UndoGroup(answer)
  PROVE  MemberInv'
<1> DEFINE c == memberCall
           g == NextGroup
           groups == IF answer.effect THEN holds[Here] \ {g} ELSE holds[Here]
           kept == IF answer.ok THEN c.kept ELSE c.kept \union {g}
           shared == c.began[Here] \intersect Wanted
<1>1. /\ Running /\ c.phase = "undo" /\ c.todo # {} /\ c.op = "add"
      /\ Fails(answer) /\ UNCHANGED missing
      /\ holds' = [holds EXCEPT ![Here] = groups]
      /\ memberCall' = [c EXCEPT !.todo = c.todo \ {g}, !.kept = kept]
  BY RunningCall DEF UndoGroup, MemberInv, MemberTyped, Calls
<1>2. /\ HereSound /\ c \in Calls /\ c.outcome = NoCall /\ Here \in PartitionSet
      /\ holds \in [PartitionSet -> SUBSET Groups]
  BY <1>1, RunningCall DEF MemberInv, AddSound, MemberTyped
<1>3. /\ shared \subseteq holds[Here] /\ holds[Here] \subseteq Wanted
      /\ holds[Here] \ shared \subseteq c.todo \union c.kept
      /\ (c.todo \union c.kept) \intersect shared = {}
  BY <1>1, <1>2 DEF HereSound
<1>4. g \in c.todo /\ g \in Groups /\ groups \in SUBSET Groups /\ kept \subseteq Groups
  BY <1>1, <1>2, NextGroupIsToDo DEF Calls
<1>5. failures' \in Nat /\ (answer.ok => answer.effect)
  BY <1>1, FailuresCount
<1>6. /\ shared \subseteq groups /\ groups \subseteq Wanted
      /\ groups \ shared \subseteq (c.todo \ {g}) \union kept
      /\ ((c.todo \ {g}) \union kept) \intersect shared = {}
  BY <1>3, <1>4, <1>5
<1> HIDE DEF g, groups, kept
<1>7. /\ memberCall' \in Calls /\ memberCall'.outcome = NoCall /\ memberCall'.op = "add"
      /\ memberCall'.role = c.role /\ memberCall'.phase = "undo" /\ memberCall'.at = c.at
      /\ memberCall'.read = c.read /\ memberCall'.began = c.began /\ memberCall'.kept = kept
      /\ memberCall'.todo = c.todo \ {g}
  BY <1>1, <1>2, <1>4 DEF Calls
<1>8. WriteSound' /\ Here' = Here /\ Wanted' = Wanted /\ holds'[Here] = groups
      /\ holds' \in [PartitionSet -> SUBSET Groups]
  BY <1>1, <1>4, <1>7, WriteHere
<1>9. MemberTyped'
  BY <1>1, <1>5, <1>7, <1>8, TenantsAssumption, RunningCall DEF MemberInv, MemberTyped, Outcomes
<1>10. HereSound'
  BY <1>6, <1>7, <1>8, TenantsAssumption DEF HereSound, Outcomes
<1> QED BY <1>7, <1>8, <1>9, <1>10 DEF MemberInv, AddSound

\* With nothing left to undo and nothing kept, what remains was there before.
LEMMA UndoDoneSound ==
  ASSUME MemberInv, UndoDone
  PROVE  MemberInv'
<1> DEFINE c == memberCall
           outcome == IF c.kept = {} THEN "undone" ELSE "kept"
<1>1. /\ Running /\ c.phase = "undo" /\ c.todo = {} /\ c.op = "add" /\ Ends(outcome)
      /\ UNCHANGED <<holds, missing, failures>>
  BY RunningCall DEF UndoDone, MemberInv, MemberTyped
<1>2. /\ WriteSound /\ HereSound /\ c \in Calls /\ c.outcome = NoCall
  BY <1>1, RunningCall DEF MemberInv, AddSound
<1>3. /\ memberCall' \in Calls /\ memberCall'.outcome = outcome /\ memberCall'.op = "add"
      /\ memberCall'.role = c.role /\ memberCall'.phase = "undo" /\ memberCall'.at = c.at
      /\ memberCall'.read = c.read /\ memberCall'.began = c.began /\ memberCall'.kept = c.kept
  BY <1>1, <1>2 DEF Ends, Calls, Outcomes
<1>4. MemberTyped'
  BY <1>1, <1>3, RunningCall DEF MemberInv, MemberTyped
<1>5. WriteSound' /\ Here' = Here /\ Wanted' = Wanted
  BY <1>1, <1>2, <1>3 DEF WriteSound, Here, Wanted
<1>6. HereSound'
  <2>1. /\ c.began[Here] \intersect Wanted \subseteq holds[Here] /\ holds[Here] \subseteq Wanted
        /\ outcome = "undone" => holds[Here] = c.began[Here] \intersect Wanted
    BY <1>1, <1>2 DEF HereSound
  <2>2. outcome \in {"undone", "kept"}
    OBVIOUS
  <2> HIDE DEF outcome
  <2> QED BY <1>1, <1>3, <1>5, <2>1, <2>2, TenantsAssumption DEF HereSound, Outcomes
<1> QED BY <1>3, <1>4, <1>5, <1>6 DEF MemberInv, AddSound

\* A removal touches only what a removal may.
LEMMA RemovalSound ==
  ASSUME MemberInv, FindAbsent \/ \E answer \in Answers : DeleteMember(answer)
  PROVE  MemberInv'
<1> DEFINE c == memberCall
<1>1. /\ Running /\ c.op = "remove" /\ UNCHANGED missing /\ (Reported \/ Ends("failed"))
      /\ failures' \in Nat
  BY FailuresCount DEF FindAbsent, DeleteMember, MemberInv, MemberTyped
<1>2. c \in Calls /\ c.outcome = NoCall /\ Here \in PartitionSet /\ c.at \in 1..Len(Tenants)
      /\ holds \in [PartitionSet -> SUBSET Groups] /\ c.phase = "read" /\ c.kept = {}
  BY <1>1, RunningCall DEF MemberInv, MemberTyped, Calls
<1>3. holds' \in [PartitionSet -> SUBSET Groups]
  <2>1. CASE FindAbsent
    BY <1>2, <2>1 DEF FindAbsent
  <2>2. ASSUME NEW answer \in Answers, DeleteMember(answer) PROVE holds' \in [PartitionSet -> SUBSET Groups]
    BY <1>2, <2>2 DEF DeleteMember
  <2> QED BY <2>1, <2>2
<1>4. \/ c.at < Len(Tenants) /\ memberCall' = [c EXCEPT !.at = c.at + 1]
      \/ \E outcome \in {"done", "failed"} : memberCall' = [c EXCEPT !.outcome = outcome, !.todo = {}]
  BY <1>1, <1>2 DEF Reported, Ends, Calls
<1>5. c.at < Len(Tenants) => c.at + 1 \in 1..Len(Tenants)
  BY <1>2, TenantsArePartitions
<1>6. /\ memberCall' \in Calls /\ memberCall'.op = "remove" /\ memberCall'.phase = "read"
      /\ memberCall'.kept = {} /\ memberCall'.outcome \notin {"undone", "kept"}
  BY <1>1, <1>2, <1>4, <1>5, TenantsAssumption DEF Calls, Outcomes
<1>7. MemberTyped'
  BY <1>1, <1>3, <1>6 DEF MemberInv, MemberTyped
<1>8. AddSound'
  BY <1>6 DEF AddSound
<1> QED BY <1>7, <1>8 DEF MemberInv

\* Every step of a call keeps the invariant.
LEMMA MemberNextInv == MemberInv /\ [MembershipNext]_memberVars => MemberInv'
<1> SUFFICES ASSUME MemberInv, [MembershipNext]_memberVars PROVE MemberInv'
  OBVIOUS
<1>1. CASE \E role \in AskedRoles : AddUser(role)
  BY <1>1, CallBeginsSound
<1>2. CASE RemoveUser
  BY <1>2, CallBeginsSound
<1>3. CASE ReadPartition
  BY <1>3, ReadPartitionSound
<1>4. CASE ReadFails
  <2>1. failures' \in Nat
    BY <1>4 DEF ReadFails, MemberInv, MemberTyped
  <2> QED BY <1>4, <2>1, CallStops DEF ReadFails
<1>5. CASE Killed
  <2>1. failures' \in Nat
    BY <1>5 DEF Killed, MemberInv, MemberTyped
  <2> QED BY <1>5, <2>1, CallStops DEF Killed
<1>6. CASE StartAdding
  BY <1>6, StartAddingSound
<1>7. CASE PartitionDone
  BY <1>7, PartitionDoneSound
<1>8. CASE UndoDone
  BY <1>8, UndoDoneSound
<1>9. CASE FindAbsent
  BY <1>9, RemovalSound
<1>10. ASSUME NEW answer \in Answers, DropGroup(answer) PROVE MemberInv'
  BY <1>10, DropGroupSound
<1>11. ASSUME NEW answer \in Answers, AddGroup(answer) PROVE MemberInv'
  BY <1>11, AddGroupSound
<1>12. ASSUME NEW answer \in Answers, UndoGroup(answer) PROVE MemberInv'
  BY <1>12, UndoGroupSound
<1>13. ASSUME NEW answer \in Answers, DeleteMember(answer) PROVE MemberInv'
  BY <1>13, RemovalSound
<1>14. CASE UNCHANGED memberVars
  BY <1>14
  DEF memberVars, MemberInv, MemberTyped, AddSound, ReadSound, WriteSound, HereSound, Here, Wanted
<1> QED
  BY <1>1, <1>2, <1>3, <1>4, <1>5, <1>6, <1>7, <1>8, <1>9, <1>10, <1>11, <1>12, <1>13, <1>14
  DEF MembershipNext

\* What a call says is what became of the groups.
LEMMA MemberInvTells == MemberInv => MembersAreAsTold
<1> SUFFICES ASSUME MemberInv PROVE MembersAreAsTold
  OBVIOUS
<1>1. CASE memberCall = NoCall \/ memberCall.op # "add"
  BY <1>1 DEF MemberInv, MemberTyped, MembersAreAsTold, FailedAddDropsOldRole, UndoIsExact,
              MissingGroupGrantsNothing, AddSetsTheRole
<1>2. CASE memberCall # NoCall /\ memberCall.op = "add"
  <2>1. /\ memberCall \in Calls /\ memberCall.role \in AskedRoles
        /\ memberCall.outcome \in {"undone", "kept"} => memberCall.phase = "undo"
        /\ memberCall.outcome = "done" => memberCall.phase = "add"
        /\ memberCall.phase = "read" => ReadSound
        /\ memberCall.phase # "read" => WriteSound /\ HereSound
    BY <1>2 DEF MemberInv, MemberTyped, AddSound
  <2>2. FailedAddDropsOldRole
    BY <1>2, <2>1 DEF FailedAddDropsOldRole, HereSound, Wanted
  <2>3. UndoIsExact
    BY <1>2, <2>1 DEF UndoIsExact, HereSound, Wanted
  <2>4. MissingGroupGrantsNothing
    <3>1. memberCall.phase = "read" => holds = memberCall.began
      BY <2>1 DEF ReadSound
    <3>2. memberCall.phase # "read" => \A p \in PartitionSet : Wanted \intersect missing[p] = {}
      BY <2>1, TenantsArePartitions DEF WriteSound
    <3> QED BY <3>1, <3>2 DEF MissingGroupGrantsNothing, Wanted
  <2>5. AddSetsTheRole
    BY <1>2, <2>1, RolesReadAsAsked DEF AddSetsTheRole, HereSound, Wanted
  <2> QED BY <2>2, <2>3, <2>4, <2>5 DEF MembersAreAsTold
<1> QED BY <1>1, <1>2

\* What a person holds after `spi users add` is what the call reports, in
\* every partition, for each of the code's roles, whatever calls and kills went
\* before.
THEOREM MembersAreAlwaysAsTold == MembershipSpec => []MembersAreAsTold
<1>1. MemberInv /\ [MembershipNext]_memberVars => MemberInv'
  BY MemberNextInv
<1> QED BY MemberInitInv, <1>1, MemberInvTells, PTL DEF MembershipSpec

-----------------------------------------------------------------------------
(* The test runs (TestRuns).                                               *)

TestRunRecords ==
  [at : TestSteps, smoke : BOOLEAN, after : BOOLEAN, services : SUBSET TestTargets,
   left : SUBSET TestTargets, expected : [TestTargets -> TestImages],
   revision : [TestTargets -> Nat], stack : Nat, overdue : BOOLEAN, moved : BOOLEAN,
   verdict : {"none", "passed", "failed"}]

TestTyped ==
  /\ entry \in [TestTargets -> TestImages] /\ template \in [TestTargets -> TestImages]
  /\ pods \in [TestTargets -> SUBSET TestImages] /\ revision \in [TestTargets -> Nat]
  /\ stack \in Nat
  /\ test # NoTest => test \in TestRunRecords

TestBegins == {"deployable", "facts", "lock"}
TestLooks == {"target", "live", "deployment", "running", "revision"}
TestExecutes == {"suite", "echo", "ingest", "record", "copy", "judge"}
TestConcludes == {"stillDeployable", "sameStack", "result"}

\* Where a run is tells which targets it still has to look at, and whether it
\* looks at them again; its container is there while the suite runs.
TestStage ==
  /\ test.services # {} /\ test.left \subseteq test.services
  /\ test.at \in TestBegins => ~test.after /\ test.left = test.services
  /\ test.at \in TestLooks => test.left # {}
  /\ test.at \in TestExecutes \union {"start"} => ~test.after /\ test.left = {}
  /\ test.at \in TestConcludes => test.after /\ test.left = {}
  /\ container => test.at \in {"suite", "copy"}

Started == test.after \/ test.at \in TestExecutes

\* The service is rolled out at the image the run expects, and nothing else.
RolledOut(s) == template[s] = test.expected[s] /\ pods[s] = {test.expected[s]}

OnlyExpectedServed(s) == \A x \in served : x[1] = s => x[2] = test.expected[s]

\* Since the run noted its revision the service has served what it expects.
ServesExpected(s) ==
  /\ RolledOut(s) /\ revision[s] = test.revision[s]
  /\ Started => OnlyExpectedServed(s)

\* Or its template moved: the template is another at the noted revision, or
\* the revision is a later one.
HasMoved(s) ==
  \/ revision[s] > test.revision[s]
  \/ revision[s] = test.revision[s] /\ template[s] # test.expected[s]

\* A target that was looked at, or is to be looked at again, serves what is
\* expected or has moved; one looked at twice served nothing else.  Between the
\* reads of one look the template moves at most once.
TargetSound(s) ==
  /\ test.at \notin TestBegins /\ (test.after <=> s \in test.left) => ServesExpected(s) \/ HasMoved(s)
  /\ test.after /\ s \notin test.left => OnlyExpectedServed(s)
  /\ test.at \in {"running", "revision"} /\ s = Checked =>
       IF test.after THEN ServesExpected(s) \/ revision[s] > test.revision[s]
       ELSE IF test.moved THEN template[s] # test.expected[s] ELSE RolledOut(s)

\* What is noted while the tests execute is of the run's services, and of the
\* stack commits since the run read its own.
NotedSound ==
  /\ test.at \notin {"deployable", "facts"} => test.stack <= stack
  /\ Started => /\ served \subseteq test.services \X TestImages
                /\ stacks \subseteq test.stack .. stack
  /\ test.at = "result" /\ test.smoke /\ test.stack # UnreadStack => stacks \subseteq {test.stack}

TestInv ==
  /\ TestTyped
  /\ test # NoTest => TestStage /\ NotedSound /\ \A s \in test.services : TargetSound(s)

\* The run goes on to `at`, about the same targets.
GoesTo(at) ==
  /\ test' \in TestRunRecords /\ test'.at = at /\ test'.smoke = test.smoke /\ test'.after = test.after
  /\ test'.services = test.services /\ test'.left = test.left /\ test'.expected = test.expected
  /\ test'.revision = test.revision /\ test'.stack = test.stack /\ test'.moved = test.moved

\* Two steps of one stage, the later not one between the reads of a look.
SameStage(from, to) ==
  /\ from \in TestBegins <=> to \in TestBegins
  /\ from \in TestLooks <=> to \in TestLooks
  /\ from \in TestExecutes <=> to \in TestExecutes
  /\ from \in TestConcludes <=> to \in TestConcludes
  /\ from = "start" <=> to = "start"
  /\ from \in {"deployable", "facts"} <=> to \in {"deployable", "facts"}
  /\ to \in {"running", "revision"} => from \in {"running", "revision"}

\* No run is on and nothing is noted.
LEMMA TestInitInv == TestInit => TestInv
BY TestAssumption DEF TestInit, TestInv, TestTyped, TestImages

\* A refused run leaves nothing behind that the next could trip over.
LEMMA RefusedSound ==
  ASSUME TestInv, TestRefused, UNCHANGED servingVars
  PROVE  TestInv'
BY DEF TestInv, TestTyped, TestRefused, servingVars

\* A step within a stage keeps what the run relies on.
LEMMA StepSound ==
  ASSUME TestInv, test # NoTest, NEW at, GoesTo(at), SameStage(test.at, at),
         UNCHANGED servingVars, UNCHANGED <<served, stacks>>,
         container' => at \in {"suite", "copy"},
         at = "result" => test.at = "result" \/ test.stack \in {stack, UnreadStack}
  PROVE  TestInv'
<1>1. /\ TestTyped /\ TestStage /\ NotedSound /\ test \in TestRunRecords
      /\ \A s \in test.services : TargetSound(s)
  BY DEF TestInv, TestTyped
<1>2. UNCHANGED <<entry, template, revision, pods, stack, served, stacks>>
  BY DEF servingVars
<1>3. TestTyped'
  BY <1>1, <1>2 DEF TestTyped, GoesTo
<1>4. TestStage'
  BY <1>1 DEF TestStage, GoesTo, SameStage
<1>5. Started' = Started
  BY DEF Started, GoesTo, SameStage
<1>6. NotedSound'
  <2>1. test.at # "result" /\ at = "result" /\ test.stack # UnreadStack => stacks \subseteq {test.stack}
    <3> SUFFICES ASSUME test.at # "result", at = "result", test.stack # UnreadStack
                 PROVE  stacks \subseteq {test.stack}
      OBVIOUS
    <3>1. test.after
      BY <1>1 DEF TestStage, SameStage, TestConcludes
    <3>2. stacks \subseteq test.stack .. stack /\ test.stack = stack /\ stack \in Nat
      BY <1>1, <3>1 DEF NotedSound, Started, TestTyped
    <3> QED BY <3>2
  <2> QED BY <1>1, <1>2, <1>5, <2>1 DEF NotedSound, GoesTo, SameStage
<1>7. ASSUME NEW s \in test.services PROVE TargetSound(s)'
  <2>1. /\ Checked' = Checked /\ RolledOut(s)' = RolledOut(s) /\ HasMoved(s)' = HasMoved(s)
        /\ OnlyExpectedServed(s)' = OnlyExpectedServed(s)
    BY <1>2 DEF Checked, RolledOut, HasMoved, OnlyExpectedServed, GoesTo
  <2>2. ServesExpected(s)' = ServesExpected(s)
    BY <1>2, <1>5, <2>1 DEF ServesExpected, GoesTo
  <2>3. TargetSound(s)
    BY <1>1
  <2> QED BY <1>2, <2>1, <2>2, <2>3 DEF TargetSound, GoesTo, SameStage
<1> QED BY <1>3, <1>4, <1>6, <1>7 DEF TestInv, GoesTo

\* A run begins with all its targets to look at.
LEMMA TestStartsSound ==
  ASSUME TestInv, NEW services \in SUBSET TestTargets, services # {}, NEW smoke \in BOOLEAN,
         TestStarts(services, smoke)
  PROVE  TestInv'
<1> DEFINE run == [at |-> "deployable", smoke |-> smoke, after |-> FALSE, services |-> services,
                   left |-> services, expected |-> [s \in TestTargets |-> FirstImage],
                   revision |-> [s \in TestTargets |-> 0], stack |-> UnreadStack, overdue |-> FALSE,
                   moved |-> FALSE, verdict |-> "none"]
<1>1. test' = run /\ container' = FALSE /\ UNCHANGED <<entry, template, revision, pods, stack, served, stacks>>
  BY DEF TestStarts, servingVars
<1>2. run \in TestRunRecords
  <2>1. [s \in TestTargets |-> FirstImage] \in [TestTargets -> TestImages] /\ [s \in TestTargets |-> 0] \in [TestTargets -> Nat]
    BY TestAssumption DEF TestImages
  <2> QED BY <2>1 DEF TestRunRecords, TestSteps, UnreadStack
<1>3. TestTyped'
  BY <1>1, <1>2 DEF TestInv, TestTyped
<1>4. /\ test'.at = "deployable" /\ test'.after = FALSE /\ test'.services = services /\ test'.left = services
  BY <1>1
<1>5. TestStage'
  BY <1>1, <1>4 DEF TestStage, TestBegins, TestLooks, TestExecutes, TestConcludes
<1>6. NotedSound'
  BY <1>4 DEF NotedSound, Started, TestExecutes
<1>7. \A s \in services : TargetSound(s)'
  BY <1>4 DEF TargetSound, TestBegins
<1> QED BY <1>3, <1>4, <1>5, <1>6, <1>7 DEF TestInv

\* A check that only reads goes on within its stage, or refuses the run.
LEMMA ReadStepSound ==
  ASSUME TestInv, NEW step, NEW allowed, NEW next \in TestSteps, ReadStep(step, allowed, next),
         SameStage(step, next), next \notin {"suite", "copy"}, step \notin {"suite", "copy"},
         next = "result" => (allowed => test.stack \in {stack, UnreadStack})
  PROVE  TestInv'
<1>1. /\ test # NoTest /\ test.at = step /\ UNCHANGED servingVars /\ UNCHANGED <<dag, stored, container>>
      /\ \/ allowed /\ test' = [test EXCEPT !.at = next] /\ UNCHANGED <<served, stacks>>
         \/ TestRefused
  BY DEF ReadStep, TestAt, TestGoes
<1>2. CASE TestRefused
  BY <1>1, <1>2, RefusedSound
<1>3. CASE allowed /\ test' = [test EXCEPT !.at = next] /\ UNCHANGED <<served, stacks>>
  <2>1. test \in TestRunRecords /\ ~container
    BY <1>1 DEF TestInv, TestTyped, TestStage
  <2>2. GoesTo(next)
    BY <1>3, <2>1 DEF GoesTo, TestRunRecords
  <2> QED BY <1>1, <1>3, <2>1, <2>2, StepSound
<1> QED BY <1>1, <1>2, <1>3

\* The stack commit of the run is the environment's, when it is read at all.
LEMMA ReadFactsSound ==
  ASSUME TestInv, ReadFacts
  PROVE  TestInv'
<1>1. /\ test # NoTest /\ test.at = "facts" /\ test \in TestRunRecords /\ TestTyped /\ TestStage
      /\ UNCHANGED <<entry, template, revision, pods, stack, container, served, stacks>>
  BY DEF ReadFacts, TestAt, servingVars, TestInv, TestTyped
<1>2. /\ test' \in TestRunRecords /\ test'.at = "lock" /\ test'.stack \in {stack, 0}
      /\ test'.after = test.after /\ test'.services = test.services /\ test'.left = test.left
  <2>1. PICK read \in {stack, 0} : test' = [test EXCEPT !.at = "lock", !.stack = read]
    BY DEF ReadFacts, StackReads, UnreadStack
  <2>2. read \in Nat
    BY <1>1 DEF TestTyped
  <2> QED BY <1>1, <2>1, <2>2 DEF TestRunRecords, TestSteps
<1>3. TestTyped' /\ TestStage'
  BY <1>1, <1>2 DEF TestTyped, TestStage, TestBegins, TestLooks, TestExecutes, TestConcludes
<1>4. ~test.after
  BY <1>1 DEF TestStage, TestBegins
<1>5. NotedSound'
  BY <1>1, <1>2, <1>4 DEF NotedSound, Started, TestExecutes, TestTyped
<1>6. \A s \in test'.services : TargetSound(s)'
  BY <1>2, <1>4 DEF TargetSound, TestBegins
<1> QED BY <1>3, <1>5, <1>6 DEF TestInv

\* With the entries the run is judged by, every target is still to be looked at.
LEMMA CaptureTargetsSound ==
  ASSUME TestInv, CaptureTargets
  PROVE  TestInv'
<1>1. /\ test # NoTest /\ test.at = "lock" /\ test \in TestRunRecords /\ TestTyped /\ TestStage /\ NotedSound
      /\ UNCHANGED servingVars /\ UNCHANGED container
  BY DEF CaptureTargets, TestAt, TestInv, TestTyped
<1>2. CASE TestRefused
  BY <1>1, <1>2, RefusedSound
<1>3. CASE test' = [test EXCEPT !.at = "target", !.expected = entry] /\ UNCHANGED <<served, stacks>>
  <2>1. UNCHANGED <<entry, template, revision, pods, stack>>
    BY <1>1 DEF servingVars
  <2>2. /\ test' \in TestRunRecords /\ test'.at = "target" /\ test'.after = test.after
        /\ test'.services = test.services /\ test'.left = test.left /\ test'.stack = test.stack
    BY <1>1, <1>3 DEF TestRunRecords, TestSteps, TestTyped
  <2>3. ~test.after /\ test.left = test.services /\ test.services # {}
    BY <1>1 DEF TestStage, TestBegins
  <2>4. TestTyped' /\ TestStage'
    BY <1>1, <2>1, <2>2, <2>3 DEF TestTyped, TestStage, TestBegins, TestLooks, TestExecutes, TestConcludes
  <2>5. NotedSound'
    BY <1>1, <2>1, <2>2, <2>3 DEF NotedSound, Started, TestExecutes
  <2>6. \A s \in test'.services : TargetSound(s)'
    BY <2>2, <2>3 DEF TargetSound
  <2> QED BY <2>4, <2>5, <2>6 DEF TestInv
<1> QED BY <1>1, <1>2, <1>3 DEF CaptureTargets

\* The target that is looked at is one that is left.
LEMMA CheckedIsLeft ==
  ASSUME TestInv, test # NoTest, test.at \in TestLooks
  PROVE  Checked \in test.left /\ Checked \in test.services /\ Checked \in TestTargets
<1>1. test \in TestRunRecords /\ test.left # {} /\ test.left \subseteq test.services
  BY DEF TestInv, TestTyped, TestStage
<1> QED BY <1>1 DEF Checked, TestRunRecords

\* A complete rollout at the expected image: the target serves it, or its
\* revision is a later one than noted before the tests.
LEMMA CheckDeploymentSound ==
  ASSUME TestInv, CheckDeployment
  PROVE  TestInv'
<1>1. /\ test # NoTest /\ test.at = "deployment" /\ test \in TestRunRecords /\ TestTyped /\ TestStage /\ NotedSound
      /\ UNCHANGED servingVars /\ UNCHANGED container /\ \A s \in test.services : TargetSound(s)
  BY DEF CheckDeployment, TestAt, TestInv, TestTyped
<1>2. CASE TestRefused
  BY <1>1, <1>2, RefusedSound
<1>3. CASE RolloutComplete(Checked) /\ test' = [test EXCEPT !.at = "running", !.moved = FALSE]
           /\ UNCHANGED <<served, stacks>>
  <2>1. UNCHANGED <<entry, template, revision, pods, stack>>
    BY <1>1 DEF servingVars
  <2>2. /\ test' \in TestRunRecords /\ test'.at = "running" /\ test'.after = test.after
        /\ test'.services = test.services /\ test'.left = test.left /\ test'.stack = test.stack
        /\ test'.expected = test.expected /\ test'.revision = test.revision /\ test'.moved = FALSE
    BY <1>1, <1>3 DEF TestRunRecords, TestSteps
  <2>3. TestTyped' /\ TestStage'
    BY <1>1, <2>1, <2>2 DEF TestTyped, TestStage, TestBegins, TestLooks, TestExecutes, TestConcludes
  <2>4. NotedSound'
    BY <1>1, <1>3, <2>1, <2>2 DEF NotedSound, Started, TestExecutes
  <2>5. RolledOut(Checked) /\ Checked' = Checked
    BY <1>3, <2>2 DEF RolloutComplete, RolledOut, Checked
  <2>6. ASSUME NEW s \in test.services PROVE TargetSound(s)'
    <3>1. /\ RolledOut(s)' = RolledOut(s) /\ HasMoved(s)' = HasMoved(s)
          /\ OnlyExpectedServed(s)' = OnlyExpectedServed(s) /\ ServesExpected(s)' = ServesExpected(s)
      BY <1>1, <1>3, <2>1, <2>2
      DEF RolledOut, HasMoved, OnlyExpectedServed, ServesExpected, Started, TestExecutes
    <3>2. test.at \notin TestBegins /\ TargetSound(s)
      BY <1>1 DEF TestBegins
    <3>3. ASSUME s = Checked, test.after PROVE ServesExpected(s) \/ revision[s] > test.revision[s]
      <4>1. s \in test.left
        BY <1>1, <3>3, CheckedIsLeft DEF TestLooks
      <4>2. ServesExpected(s) \/ HasMoved(s)
        BY <3>2, <3>3, <4>1 DEF TargetSound
      <4> QED BY <2>5, <3>3, <4>2 DEF HasMoved, RolledOut
    <3> QED BY <2>1, <2>2, <2>5, <3>1, <3>2, <3>3 DEF TargetSound
  <2> QED BY <2>2, <2>3, <2>4, <2>6 DEF TestInv
<1> QED BY <1>1, <1>2, <1>3 DEF CheckDeployment

\* The revision noted is the one of the look, or it is the one noted before.
LEMMA CheckRevisionSound ==
  ASSUME TestInv, CheckRevision
  PROVE  TestInv'
<1> DEFINE c == Checked
           left == test.left \ {c}
           noted == [test.revision EXCEPT ![c] = revision[c]]
<1>1. /\ test # NoTest /\ test.at = "revision" /\ test \in TestRunRecords /\ TestTyped /\ TestStage /\ NotedSound
      /\ UNCHANGED servingVars /\ UNCHANGED container /\ \A s \in test.services : TargetSound(s)
  BY DEF CheckRevision, TestAt, TestInv, TestTyped
<1>2. CASE TestRefused
  BY <1>1, <1>2, RefusedSound
<1>3. CASE ~TestRefused
  <2>1. /\ SameRevision /\ UNCHANGED <<served, stacks>>
        /\ test' = [test EXCEPT !.at = AfterCheck(left), !.left = left, !.revision = noted]
    BY <1>1, <1>3 DEF CheckRevision, TestRunRecords
  <2>2. UNCHANGED <<entry, template, revision, pods, stack>>
    BY <1>1 DEF servingVars
  <2>3. c \in test.left /\ c \in test.services /\ c \in TestTargets
    BY <1>1, CheckedIsLeft DEF TestLooks
  <2>4. noted \in [TestTargets -> Nat] /\ left \subseteq TestTargets /\ noted[c] = revision[c]
        /\ \A s \in TestTargets : s # c => noted[s] = test.revision[s]
    BY <1>1, <2>3 DEF TestRunRecords, TestTyped
  <2>5. AfterCheck(left) = IF left # {} THEN "target" ELSE IF ~test.after THEN "start"
                           ELSE IF test.smoke THEN "stillDeployable" ELSE "result"
    BY DEF AfterCheck
  <2> DEFINE next == AfterCheck(left)
  <2>6. next \in TestSteps
    BY <2>5 DEF TestSteps
  <2> HIDE DEF left, noted, next
  <2>7. /\ test' \in TestRunRecords /\ test'.at = next /\ test'.after = test.after /\ test'.smoke = test.smoke
        /\ test'.services = test.services /\ test'.left = left /\ test'.stack = test.stack
        /\ test'.expected = test.expected /\ test'.revision = noted
    BY <1>1, <2>1, <2>4, <2>6 DEF TestRunRecords, next
  <2>8. TestTyped'
    BY <1>1, <2>2, <2>7 DEF TestTyped
  <2>9. TestStage'
    <3>1. test.services # {} /\ left \subseteq test.services /\ ~container
      BY <1>1 DEF TestStage, left
    <3> QED BY <1>1, <2>5, <2>7, <3>1 DEF next, TestStage, TestBegins, TestLooks, TestExecutes, TestConcludes
  <2>10. NotedSound'
    <3>1. test.stack <= stack /\ (test.after => Started) /\ (Started' => test.after)
      BY <1>1, <2>5, <2>7 DEF next, NotedSound, Started, TestExecutes
    <3>2. ~(next = "result" /\ test.smoke)
      BY <2>5 DEF next
    <3> QED BY <1>1, <2>1, <2>2, <2>7, <3>1, <3>2 DEF NotedSound
  <2>11. next \notin {"running", "revision"} /\ next \notin TestExecutes
    BY <2>5 DEF next, TestExecutes
  <2>12. ASSUME NEW s \in test.services PROVE TargetSound(s)'
    <3>1. /\ RolledOut(s)' = RolledOut(s) /\ OnlyExpectedServed(s)' = OnlyExpectedServed(s)
          /\ Started' = Started
      BY <1>1, <2>1, <2>2, <2>7, <2>11 DEF RolledOut, OnlyExpectedServed, Started, TestExecutes
    <3>2. test.at \notin TestBegins /\ TargetSound(s) /\ s \in TestTargets
      BY <1>1 DEF TestBegins, TestRunRecords
    <3>3. CASE s # c
      <4>1. noted[s] = test.revision[s] /\ (s \in left <=> s \in test.left)
        BY <2>4, <3>2, <3>3 DEF left
      <4>2. ServesExpected(s)' = ServesExpected(s) /\ HasMoved(s)' = HasMoved(s)
        BY <2>2, <2>7, <3>1, <4>1 DEF ServesExpected, HasMoved
      <4> QED BY <2>7, <2>11, <3>1, <3>2, <4>1, <4>2 DEF TargetSound
    <3>4. CASE s = c /\ test.after
      <4>1. revision[s] = test.revision[s] /\ revision[s] \in Nat
        BY <1>1, <2>1, <3>2, <3>4 DEF SameRevision, TestTyped
      <4>2. ServesExpected(s)
        BY <1>1, <3>2, <3>4, <4>1 DEF TargetSound
      <4>3. OnlyExpectedServed(s)
        BY <3>4, <4>2 DEF ServesExpected, Started
      <4>4. s \notin left
        BY <3>4 DEF left
      <4> QED BY <2>7, <2>11, <3>1, <3>4, <4>3, <4>4 DEF TargetSound
    <3>5. CASE s = c /\ ~test.after
      <4>1. revision'[s] = test'.revision[s]
        BY <2>2, <2>4, <2>7, <3>5
      <4>2. ~Started
        BY <1>1, <3>5 DEF Started, TestExecutes
      <4>3. IF test.moved THEN template[s] # test.expected[s] ELSE RolledOut(s)
        BY <1>1, <3>2, <3>5 DEF TargetSound
      <4>4. ServesExpected(s)' \/ HasMoved(s)'
        BY <2>2, <2>7, <3>1, <4>1, <4>2, <4>3 DEF ServesExpected, HasMoved
      <4> QED BY <2>7, <2>11, <3>5, <4>4 DEF TargetSound
    <3> QED BY <3>3, <3>4, <3>5
  <2> QED BY <2>7, <2>8, <2>9, <2>10, <2>12 DEF TestInv
<1> QED BY <1>2, <1>3

\* When the tests start, what is served is what the pods of the targets run.
LEMMA ExecutionStartsSound ==
  ASSUME TestInv, ExecutionStarts
  PROVE  TestInv'
<1> DEFINE next == IF test.smoke THEN "echo" ELSE "suite"
<1>1. /\ test # NoTest /\ test.at = "start" /\ test \in TestRunRecords /\ TestTyped /\ TestStage /\ NotedSound
      /\ container' = ~test.smoke /\ served' = Served /\ stacks' = {stack}
      /\ test' = [test EXCEPT !.at = next] /\ \A s \in test.services : TargetSound(s)
  BY DEF ExecutionStarts, TestAt, TestGoes, TestInv, TestTyped
<1>2. UNCHANGED <<entry, template, revision, pods, stack>>
  BY DEF ExecutionStarts, servingVars
<1>3. /\ test' \in TestRunRecords /\ test'.at = next /\ test'.smoke = test.smoke /\ test'.after = test.after
      /\ test'.services = test.services /\ test'.left = test.left /\ test'.expected = test.expected
      /\ test'.revision = test.revision /\ test'.stack = test.stack
  BY <1>1 DEF TestRunRecords, TestSteps
<1>4. ~test.after /\ test.left = {} /\ test.services # {} /\ test.services \subseteq TestTargets
  BY <1>1 DEF TestStage, TestRunRecords
<1>5. next \in TestExecutes /\ (next = "suite" <=> ~test.smoke) /\ next \in {"suite", "echo"}
  BY <1>1 DEF TestExecutes, TestRunRecords
<1> HIDE DEF next
<1>6. TestTyped'
  BY <1>1, <1>2, <1>3 DEF TestTyped
<1>7. TestStage'
  BY <1>1, <1>3, <1>4, <1>5 DEF TestStage, TestBegins, TestLooks, TestExecutes, TestConcludes
<1>8. NotedSound'
  <2>1. Served \subseteq test.services \X TestImages
    BY DEF Served
  <2>2. {stack} \subseteq test.stack .. stack /\ test.stack <= stack
    BY <1>1 DEF NotedSound, TestTyped, TestRunRecords
  <2> QED BY <1>1, <1>2, <1>3, <1>5, <2>1, <2>2 DEF NotedSound, TestExecutes
<1>9. ASSUME NEW s \in test.services PROVE TargetSound(s)'
  <2>1. ServesExpected(s) \/ HasMoved(s)
    BY <1>1, <1>4 DEF TargetSound, TestBegins
  <2>2. RolledOut(s)' = RolledOut(s) /\ HasMoved(s)' = HasMoved(s)
    BY <1>2, <1>3 DEF RolledOut, HasMoved
  <2>3. RolledOut(s) => OnlyExpectedServed(s)'
    BY <1>1, <1>3 DEF RolledOut, OnlyExpectedServed, Served
  <2>4. ServesExpected(s) => ServesExpected(s)'
    BY <1>2, <1>3, <2>2, <2>3 DEF ServesExpected
  <2> QED BY <1>3, <1>4, <1>5, <2>1, <2>2, <2>4 DEF TargetSound, TestExecutes
<1> QED BY <1>3, <1>6, <1>7, <1>8, <1>9 DEF TestInv

\* After the tests every target is to be looked at again.
LEMMA LookAgainSound ==
  ASSUME TestInv, test # NoTest, test.at \in TestExecutes \ {"suite", "copy"},
         NEW verdict \in {"none", "passed", "failed"}, LookAgain(verdict),
         UNCHANGED servingVars, UNCHANGED <<container, served, stacks>>
  PROVE  TestInv'
<1>1. /\ test \in TestRunRecords /\ TestTyped /\ TestStage /\ NotedSound /\ \A s \in test.services : TargetSound(s)
      /\ UNCHANGED <<entry, template, revision, pods, stack>>
  BY DEF TestInv, TestTyped, servingVars
<1>2. /\ test' \in TestRunRecords /\ test'.at = "target" /\ test'.smoke = test.smoke /\ test'.after = TRUE
      /\ test'.services = test.services /\ test'.left = test.services /\ test'.expected = test.expected
      /\ test'.revision = test.revision /\ test'.stack = test.stack
  BY <1>1 DEF LookAgain, TestRunRecords, TestSteps
<1>3. ~test.after /\ test.left = {} /\ test.services # {} /\ ~container /\ Started
  BY <1>1 DEF TestStage, Started
<1>4. TestTyped' /\ TestStage'
  BY <1>1, <1>2, <1>3 DEF TestTyped, TestStage, TestBegins, TestLooks, TestExecutes, TestConcludes
<1>5. NotedSound'
  BY <1>1, <1>2, <1>3 DEF NotedSound, Started, TestExecutes
<1>6. ASSUME NEW s \in test.services PROVE TargetSound(s)'
  <2>1. ServesExpected(s) \/ HasMoved(s)
    BY <1>1, <1>3 DEF TargetSound, TestBegins, TestExecutes
  <2>2. RolledOut(s)' = RolledOut(s) /\ HasMoved(s)' = HasMoved(s) /\ OnlyExpectedServed(s)' = OnlyExpectedServed(s)
    BY <1>1, <1>2 DEF RolledOut, HasMoved, OnlyExpectedServed
  <2>3. ServesExpected(s) => ServesExpected(s)'
    BY <1>1, <1>2, <1>3, <2>2 DEF ServesExpected
  <2> QED BY <1>2, <2>1, <2>2, <2>3 DEF TargetSound
<1> QED BY <1>2, <1>4, <1>5, <1>6 DEF TestInv

\* The other steps of a run: its suite, its workflow runs and its clock.
LEMMA RunStepSound ==
  ASSUME TestInv,
         \/ SuiteEnds \/ CopyReports \/ SuiteDies \/ JudgeSuite
         \/ \E step \in {"echo", "ingest"} : SubmitDag(step) \/ PollDag(step, IF step = "echo" THEN "ingest" ELSE "record")
         \/ ReadRecordBack \/ Report \/ TestDeadline
  PROVE  TestInv'
<1>1. /\ test # NoTest /\ test \in TestRunRecords /\ TestTyped /\ TestStage /\ UNCHANGED servingVars
  BY DEF SuiteEnds, CopyReports, SuiteDies, JudgeSuite, SubmitDag, PollDag, ReadRecordBack, Report,
         TestDeadline, TestAt, TestInv, TestTyped
<1> DEFINE Onward(at) == /\ GoesTo(at) /\ SameStage(test.at, at) /\ UNCHANGED <<served, stacks>>
                         /\ container' => at \in {"suite", "copy"}
                         /\ at # "result"
<1>2. ASSUME NEW at, Onward(at) PROVE TestInv'
  BY <1>1, <1>2, StepSound
<1> DEFINE Again == /\ test.at \in TestExecutes \ {"suite", "copy"} /\ UNCHANGED <<container, served, stacks>>
                    /\ \E verdict \in {"none", "passed", "failed"} : LookAgain(verdict)
<1>3. ASSUME Again PROVE TestInv'
  BY <1>1, <1>3, LookAgainSound
<1>4. ASSUME TestRefused PROVE TestInv'
  BY <1>1, <1>4, RefusedSound
<1>5. CASE SuiteEnds
  <2>1. PICK v \in {"passed", "failed"} : test' = [test EXCEPT !.at = "copy", !.verdict = v]
    BY <1>5 DEF SuiteEnds
  <2>2. GoesTo("copy")
    BY <1>1, <2>1 DEF GoesTo, TestRunRecords, TestSteps
  <2>3. SameStage(test.at, "copy") /\ UNCHANGED <<served, stacks>>
    BY <1>5 DEF SuiteEnds, TestAt, SameStage, TestBegins, TestLooks, TestExecutes, TestConcludes
  <2> QED BY <1>2, <2>2, <2>3
<1>6. CASE CopyReports
  <2>1. TestRefused \/ (container' = FALSE /\ test' = [test EXCEPT !.at = "judge"] /\ UNCHANGED <<served, stacks>>)
    BY <1>6 DEF CopyReports, RemovalHolds, TestGoes
  <2>2. CASE container' = FALSE /\ test' = [test EXCEPT !.at = "judge"] /\ UNCHANGED <<served, stacks>>
    <3>1. GoesTo("judge")
      BY <1>1, <2>2 DEF GoesTo, TestRunRecords, TestSteps
    <3>2. SameStage(test.at, "judge")
      BY <1>6 DEF CopyReports, TestAt, SameStage, TestBegins, TestLooks, TestExecutes, TestConcludes
    <3> QED BY <1>2, <2>2, <3>1, <3>2
  <2> QED BY <1>4, <2>1, <2>2
<1>7. CASE SuiteDies \/ Report
  BY <1>4, <1>7 DEF SuiteDies, Report
<1>8. CASE JudgeSuite
  <2>1. TestRefused \/ (LookAgain(test.verdict) /\ UNCHANGED <<container, served, stacks>>)
    BY <1>8 DEF JudgeSuite
  <2>2. test.at \in TestExecutes \ {"suite", "copy"} /\ test.verdict \in {"none", "passed", "failed"}
    BY <1>1, <1>8 DEF JudgeSuite, TestAt, TestExecutes, TestRunRecords
  <2> QED BY <1>3, <1>4, <2>1, <2>2
<1>9. ASSUME NEW overdue \in BOOLEAN, test' = [test EXCEPT !.overdue = overdue],
             UNCHANGED <<container, served, stacks>>, test.at \in {"echo", "ingest", "record"}
      PROVE  TestInv'
  <2>1. GoesTo(test.at)
    BY <1>1, <1>9 DEF GoesTo, TestRunRecords
  <2>2. SameStage(test.at, test.at) /\ ~container /\ test.at # "result"
    BY <1>1, <1>9 DEF SameStage, TestStage
  <2> QED BY <1>2, <1>9, <2>1, <2>2
<1>10. ASSUME UNCHANGED <<test, container, served, stacks>> PROVE TestInv'
  <2>1. UNCHANGED <<entry, template, revision, pods, stack>>
    BY <1>1 DEF servingVars
  <2> QED BY <1>10, <2>1
      DEF TestInv, TestTyped, TestStage, NotedSound, TargetSound, Started, RolledOut, ServesExpected,
          HasMoved, OnlyExpectedServed, Checked
<1>11. CASE TestDeadline
  <2>1. test' = [test EXCEPT !.overdue = TRUE] /\ UNCHANGED <<container, served, stacks>>
        /\ test.at \in {"echo", "ingest", "record"}
    BY <1>11 DEF TestDeadline, TestAt
  <2> QED BY <1>9, <2>1
<1>12. CASE \E step \in {"echo", "ingest"} : SubmitDag(step)
  <2>1. PICK step \in {"echo", "ingest"} : SubmitDag(step)
    BY <1>12
  <2>2. UNCHANGED <<container, served, stacks>> /\ test.at \in {"echo", "ingest", "record"}
        /\ test.at \in TestExecutes \ {"suite", "copy"}
    BY <2>1 DEF SubmitDag, TestAt, TestExecutes
  <2>3. test' = [test EXCEPT !.overdue = FALSE] \/ LookAgain("failed")
    BY <2>1 DEF SubmitDag
  <2> QED BY <1>3, <1>9, <2>2, <2>3
<1>13. CASE \E step \in {"echo", "ingest"} : PollDag(step, IF step = "echo" THEN "ingest" ELSE "record")
  <2>1. PICK step \in {"echo", "ingest"} : PollDag(step, IF step = "echo" THEN "ingest" ELSE "record")
    BY <1>13
  <2> DEFINE next == IF step = "echo" THEN "ingest" ELSE "record"
  <2>2. UNCHANGED <<container, served, stacks>> /\ test.at = step
        /\ test.at \in TestExecutes \ {"suite", "copy"} /\ next \in {"ingest", "record"}
    BY <2>1 DEF PollDag, TestAt, TestExecutes
  <2>3. test' = [test EXCEPT !.at = next, !.overdue = FALSE] \/ LookAgain("failed") \/ UNCHANGED test
    BY <2>1 DEF PollDag
  <2>4. CASE test' = [test EXCEPT !.at = next, !.overdue = FALSE]
    <3>1. GoesTo(next)
      BY <1>1, <2>2, <2>4 DEF GoesTo, TestRunRecords, TestSteps
    <3>2. SameStage(test.at, next) /\ ~container /\ next # "result"
      BY <1>1, <2>2 DEF TestStage, SameStage, TestBegins, TestLooks, TestExecutes, TestConcludes
    <3> QED BY <1>2, <2>2, <3>1, <3>2
  <2> QED BY <1>3, <1>10, <2>2, <2>3, <2>4
<1>14. CASE ReadRecordBack
  <2>1. UNCHANGED <<container, served, stacks>> /\ test.at \in TestExecutes \ {"suite", "copy"}
    BY <1>14 DEF ReadRecordBack, TestAt, TestExecutes
  <2>2. LookAgain("passed") \/ LookAgain("failed") \/ UNCHANGED test
    BY <1>14 DEF ReadRecordBack
  <2> QED BY <1>3, <1>10, <2>1, <2>2
<1> QED BY <1>5, <1>6, <1>7, <1>8, <1>11, <1>12, <1>13, <1>14

\* What the invariant does not look at may change.
LEMMA OthersSound ==
  ASSUME TestInv, UNCHANGED <<template, revision, pods, stack, container, test, served, stacks>>,
         entry' \in [TestTargets -> TestImages]
  PROVE  TestInv'
BY DEF TestInv, TestTyped, TestStage, NotedSound, TargetSound, Started, RolledOut, ServesExpected,
       HasMoved, OnlyExpectedServed, Checked

\* A rollout of a target is a later revision.
LEMMA FluxRollsOutSound ==
  ASSUME TestInv, ~TwoRollouts, NEW r \in TestTargets, FluxRollsOut(r)
  PROVE  TestInv'
<1>1. /\ template' = [template EXCEPT ![r] = entry[r]] /\ template[r] # entry[r]
      /\ revision' = [revision EXCEPT ![r] = revision[r] + 1]
      /\ test' = IF BetweenReads(r) THEN [test EXCEPT !.moved = TRUE] ELSE test
      /\ BetweenReads(r) => ~test.moved
      /\ UNCHANGED <<entry, pods, stack, container, served, stacks>> /\ TestTyped
  BY DEF FluxRollsOut, TestInv, TestTyped
<1>2. /\ template' \in [TestTargets -> TestImages] /\ revision' \in [TestTargets -> Nat]
      /\ template'[r] = entry[r] /\ revision'[r] = revision[r] + 1
      /\ \A s \in TestTargets : s # r => template'[s] = template[s] /\ revision'[s] = revision[s]
  BY <1>1 DEF TestTyped
<1>3. CASE test = NoTest
  <2>1. test' = test
    BY <1>1, <1>3 DEF BetweenReads, TestAt
  <2> QED BY <1>1, <1>2, <1>3, <2>1 DEF TestInv, TestTyped
<1>4. CASE test # NoTest
  <2>1. /\ test \in TestRunRecords /\ TestStage /\ NotedSound /\ \A s \in test.services : TargetSound(s)
    BY <1>4 DEF TestInv, TestTyped
  <2>2. /\ test' \in TestRunRecords /\ test'.at = test.at /\ test'.smoke = test.smoke /\ test'.after = test.after
        /\ test'.services = test.services /\ test'.left = test.left /\ test'.expected = test.expected
        /\ test'.revision = test.revision /\ test'.stack = test.stack
        /\ test'.moved = IF BetweenReads(r) THEN TRUE ELSE test.moved
    BY <1>1, <2>1 DEF TestRunRecords
  <2>3. TestTyped' /\ TestStage' /\ NotedSound'
    BY <1>1, <1>2, <2>1, <2>2 DEF TestTyped, TestStage, NotedSound, Started
  <2>4. ASSUME NEW s \in test.services PROVE TargetSound(s)'
    <3>1. s \in TestTargets /\ TargetSound(s) /\ Checked' = Checked /\ Started' = Started
          /\ OnlyExpectedServed(s)' = OnlyExpectedServed(s)
          /\ revision[s] \in Nat /\ test.revision[s] \in Nat
      BY <1>1, <2>1, <2>2 DEF TestRunRecords, Checked, Started, OnlyExpectedServed, TestTyped
    <3>2. CASE s # r
      <4>1. /\ RolledOut(s)' = RolledOut(s) /\ ServesExpected(s)' = ServesExpected(s) /\ HasMoved(s)' = HasMoved(s)
        BY <1>1, <1>2, <2>2, <3>1, <3>2 DEF RolledOut, ServesExpected, HasMoved
      <4>2. s = Checked => test'.moved = test.moved
        BY <2>2, <3>2 DEF BetweenReads
      <4> QED BY <1>2, <2>2, <3>1, <3>2, <4>1, <4>2 DEF TargetSound
    <3>3. CASE s = r
      <4>1. ServesExpected(s) \/ HasMoved(s) => revision'[s] > test.revision[s]
        BY <1>2, <3>1, <3>3 DEF ServesExpected, HasMoved
      <4>2. revision[s] > test.revision[s] => revision'[s] > test.revision[s]
        BY <1>2, <3>1, <3>3
      <4>3. test.at \in {"running", "revision"} /\ s = Checked /\ ~test.after =>
              test'.moved /\ template'[s] # test.expected[s]
        BY <1>1, <1>2, <1>4, <2>2, <3>1, <3>3 DEF TargetSound, BetweenReads, TestAt, RolledOut
      <4>4. revision'[s] > test.revision[s] => HasMoved(s)'
        BY <2>2 DEF HasMoved
      <4> QED BY <2>2, <3>1, <4>1, <4>2, <4>3, <4>4 DEF TargetSound
    <3> QED BY <3>2, <3>3
  <2> QED BY <2>2, <2>3, <2>4 DEF TestInv
<1> QED BY <1>3, <1>4

\* Pods come and go only where the rollout is not complete.
LEMMA PodsBecomeSound ==
  ASSUME TestInv, NEW r \in TestTargets, PodStarts(r) \/ PodStops(r)
  PROVE  TestInv'
<1>1. TestTyped
  BY DEF TestInv
<1>2. PICK p : PodsBecome(r, p) /\ p \in SUBSET TestImages
  <2>1. template[r] \in TestImages /\ pods[r] \subseteq TestImages
    BY <1>1 DEF TestTyped
  <2>2. CASE PodStarts(r)
    BY <2>1, <2>2 DEF PodStarts
  <2>3. CASE PodStops(r)
    BY <2>1, <2>3 DEF PodStops
  <2> QED BY <2>2, <2>3
<1>3. ~(\E i : template[r] = i /\ pods[r] = {i})
  BY DEF PodStarts, PodStops
<1>4. /\ pods' = [pods EXCEPT ![r] = p]
      /\ served' = IF Executing /\ r \in test.services THEN served \union ({r} \X p) ELSE served
      /\ UNCHANGED <<entry, template, revision, stack, container, test, stacks>>
  BY <1>2 DEF PodsBecome
<1>5. pods' \in [TestTargets -> SUBSET TestImages] /\ \A s \in TestTargets : s # r => pods'[s] = pods[s]
  BY <1>1, <1>2, <1>4 DEF TestTyped
<1>6. TestTyped'
  BY <1>1, <1>4, <1>5 DEF TestTyped
<1>7. CASE test = NoTest
  BY <1>4, <1>6, <1>7 DEF TestInv
<1>8. CASE test # NoTest
  <2>1. /\ test \in TestRunRecords /\ TestStage /\ NotedSound /\ \A s \in test.services : TargetSound(s)
    BY <1>8 DEF TestInv, TestTyped
  <2>2. TestStage' /\ Started' = Started /\ Checked' = Checked
    BY <1>4, <2>1 DEF TestStage, Started, Checked
  <2>3. NotedSound'
    <3>1. Started => served' \subseteq test.services \X TestImages
      BY <1>2, <1>4, <2>1 DEF NotedSound
    <3> QED BY <1>4, <2>1, <2>2, <3>1 DEF NotedSound
  <2>4. ASSUME NEW s \in test.services PROVE TargetSound(s)'
    <3>1. s \in TestTargets /\ TargetSound(s) /\ HasMoved(s)' = HasMoved(s)
      BY <1>4, <2>1 DEF TestRunRecords, HasMoved
    <3>2. s # r => OnlyExpectedServed(s)' = OnlyExpectedServed(s)
      BY <1>4 DEF OnlyExpectedServed
    <3>3. CASE s # r
      <4>1. RolledOut(s)' = RolledOut(s) /\ ServesExpected(s)' = ServesExpected(s)
        BY <1>4, <1>5, <2>2, <3>1, <3>2, <3>3 DEF RolledOut, ServesExpected
      <4> QED BY <1>4, <2>2, <3>1, <3>2, <3>3, <4>1 DEF TargetSound
    <3>4. CASE s = r
      <4>1. ~RolledOut(s) /\ ~ServesExpected(s)
        BY <1>3, <3>4 DEF RolledOut, ServesExpected
      <4>2. test.after => served' = served
        BY <1>4, <2>1 DEF Executing, TestStage, TestExecutes
      <4>3. test.after => OnlyExpectedServed(s)' = OnlyExpectedServed(s)
        BY <1>4, <4>2 DEF OnlyExpectedServed
      <4> QED BY <1>4, <2>2, <3>1, <4>1, <4>3 DEF TargetSound
    <3> QED BY <3>3, <3>4
  <2> QED BY <1>4, <1>6, <2>2, <2>3, <2>4 DEF TestInv
<1> QED BY <1>7, <1>8

\* A later stack commit is noted while the tests execute.
LEMMA StackMovesSound ==
  ASSUME TestInv, ~StackReturns, StackMoves
  PROVE  TestInv'
<1>1. /\ stack' \in Nat /\ stack < stack' /\ stacks' = IF Executing THEN stacks \union {stack'} ELSE stacks
      /\ UNCHANGED <<entry, template, revision, pods, container, test, served>> /\ TestTyped /\ stack \in Nat
  BY DEF StackMoves, TestInv, TestTyped
<1>2. TestTyped'
  BY <1>1 DEF TestTyped
<1>3. CASE test # NoTest
  <2>1. test \in TestRunRecords /\ TestStage /\ NotedSound /\ \A s \in test.services : TargetSound(s)
    BY <1>3 DEF TestInv, TestTyped
  <2>2. TestStage' /\ \A s \in test.services : TargetSound(s)'
    BY <1>1, <2>1 DEF TestStage, TargetSound, Started, RolledOut, ServesExpected, HasMoved,
                      OnlyExpectedServed, Checked
  <2>3. NotedSound'
    <3>1. test.stack \in Nat /\ (test.stack <= stack => test.stack <= stack')
      BY <1>1, <2>1 DEF TestRunRecords
    <3>2. Started => stacks' \subseteq test.stack .. stack'
      <4>1. Started => stacks \subseteq test.stack .. stack /\ test.stack <= stack
        BY <2>1 DEF NotedSound, Started, TestStage, TestExecutes, TestBegins
      <4> QED BY <1>1, <3>1, <4>1
    <3>3. test.at = "result" => stacks' = stacks
      BY <1>1 DEF Executing
    <3>4. Started' = Started
      BY <1>1 DEF Started
    <3> QED BY <1>1, <2>1, <3>1, <3>2, <3>3, <3>4 DEF NotedSound
  <2> QED BY <1>1, <1>2, <2>2, <2>3 DEF TestInv
<1> QED BY <1>1, <1>2, <1>3 DEF TestInv

\* Every step of a run and of the cluster under it keeps the invariant.
LEMMA TestNextInv == ~TwoRollouts /\ ~StackReturns /\ TestInv /\ [TestNext]_testVars => TestInv'
<1> SUFFICES ASSUME ~TwoRollouts, ~StackReturns, TestInv, [TestNext]_testVars PROVE TestInv'
  OBVIOUS
<1>1. entry \in [TestTargets -> TestImages]
  BY DEF TestInv, TestTyped
<1>2. CASE RunGoesOn
  <2>1. CASE TestDeployable
    <3>1. SameStage("deployable", "facts") /\ "facts" \in TestSteps
      BY DEF SameStage, TestBegins, TestLooks, TestExecutes, TestConcludes, TestSteps
    <3> QED BY <2>1, <3>1, ReadStepSound DEF TestDeployable
  <2>2. CASE CheckTarget
    <3>1. SameStage("target", "live") /\ "live" \in TestSteps
      BY DEF SameStage, TestBegins, TestLooks, TestExecutes, TestConcludes, TestSteps
    <3> QED BY <2>2, <3>1, ReadStepSound DEF CheckTarget
  <2>3. CASE CheckLive
    <3>1. SameStage("live", "deployment") /\ "deployment" \in TestSteps
      BY DEF SameStage, TestBegins, TestLooks, TestExecutes, TestConcludes, TestSteps
    <3> QED BY <2>3, <3>1, ReadStepSound DEF CheckLive
  <2>4. CASE CheckPods
    <3>1. SameStage("running", "revision") /\ "revision" \in TestSteps
      BY DEF SameStage, TestBegins, TestLooks, TestExecutes, TestConcludes, TestSteps
    <3> QED BY <2>4, <3>1, ReadStepSound DEF CheckPods
  <2>5. CASE CheckStillDeployable
    <3>1. SameStage("stillDeployable", "sameStack") /\ "sameStack" \in TestSteps
      BY DEF SameStage, TestBegins, TestLooks, TestExecutes, TestConcludes, TestSteps
    <3> QED BY <2>5, <3>1, ReadStepSound DEF CheckStillDeployable
  <2>6. CASE CheckSameStack
    <3>1. SameStage("sameStack", "result") /\ "result" \in TestSteps
      BY DEF SameStage, TestBegins, TestLooks, TestExecutes, TestConcludes, TestSteps
    <3>2. PICK read \in StackReads : ReadStep("sameStack", SameStack(read), "result")
      BY <2>6 DEF CheckSameStack
    <3>3. SameStack(read) => test.stack \in {stack, UnreadStack}
      BY DEF SameStack, StackReads
    <3> QED BY <3>1, <3>2, <3>3, ReadStepSound
  <2>7. CASE BindFails \/ PreflightFails
    <3>1. test # NoTest /\ test \in TestRunRecords /\ TestStage /\ (test.at = "lock" \/ test.at = "start")
      BY <2>7 DEF BindFails, PreflightFails, TestAt, TestInv, TestTyped
    <3>2. ~container
      BY <3>1 DEF TestStage
    <3> QED BY <2>7, <3>2, RefusedSound DEF BindFails, PreflightFails
  <2> QED BY <1>2, <2>1, <2>2, <2>3, <2>4, <2>5, <2>6, <2>7, ReadFactsSound, CaptureTargetsSound,
             CheckDeploymentSound, CheckRevisionSound, ExecutionStartsSound, RunStepSound DEF RunGoesOn
<1>3. CASE DagAdvances \/ RecordAppears \/ MaintenanceFlips
  BY <1>1, <1>3, OthersSound DEF DagAdvances, RecordAppears, MaintenanceFlips, servingVars
<1>4. CASE TestDeadline
  BY <1>4, RunStepSound
<1>5. CASE StackMoves
  BY <1>5, StackMovesSound
<1>6. CASE TestStarts(TestTargets, TRUE)
  BY <1>6, TestStartsSound, TestAssumption
<1>7. ASSUME NEW s \in TestTargets, TestStarts({s}, FALSE) PROVE TestInv'
  BY <1>7, TestStartsSound
<1>8. ASSUME NEW s \in TestTargets, BorrowTarget(s) \/ ReturnTarget(s) \/ RefreshTarget(s) PROVE TestInv'
  <2>1. PICK i \in TestImages : EntryBecomes(s, i)
    BY <1>8 DEF BorrowTarget, ReturnTarget, RefreshTarget, TestImages
  <2> QED BY <1>1, <2>1, OthersSound DEF EntryBecomes
<1>9. ASSUME NEW s \in TestTargets, FluxRollsOut(s) PROVE TestInv'
  BY <1>9, FluxRollsOutSound
<1>10. ASSUME NEW s \in TestTargets, PodStarts(s) \/ PodStops(s) PROVE TestInv'
  BY <1>10, PodsBecomeSound
<1>11. CASE UNCHANGED testVars
  BY <1>1, <1>11, OthersSound DEF testVars
<1> QED BY <1>2, <1>3, <1>4, <1>5, <1>6, <1>7, <1>8, <1>9, <1>10, <1>11 DEF TestNext

\* What a verdict is of is what was served to the end.
LEMMA TestInvStands == TestInv => VerdictStands
<1> SUFFICES ASSUME TestInv, test # NoTest, test.at = "result"
             PROVE  /\ served \subseteq {<<s, test.expected[s]>> : s \in test.services}
                    /\ test.smoke /\ test.stack # UnreadStack => stacks \subseteq {test.stack}
                    /\ ~container
  BY DEF VerdictStands, VerdictIsOfTarget, VerdictLeavesNoContainer, TestAt
<1>1. TestStage /\ NotedSound /\ \A s \in test.services : TargetSound(s)
  BY DEF TestInv
<1>2. test.after /\ test.left = {} /\ ~container
  BY <1>1 DEF TestStage, TestConcludes
<1>3. /\ served \subseteq test.services \X TestImages
      /\ test.smoke /\ test.stack # UnreadStack => stacks \subseteq {test.stack}
  BY <1>1, <1>2 DEF NotedSound, Started
<1>4. \A s \in test.services : OnlyExpectedServed(s)
  BY <1>1, <1>2 DEF TargetSound
<1> QED BY <1>2, <1>3, <1>4 DEF OnlyExpectedServed

\* A verdict that `spi test` or the DAG smoke reports was given by the images
\* it names, whatever is borrowed, restored, refreshed and rolled out
\* meanwhile, and a smoke's by the stack commit it names, if it could read one;
\* unless a template moves twice between the reads of one look, or the stack
\* goes back to a commit that it has run before.
THEOREM VerdictAlwaysStands ==
  ASSUME ~TwoRollouts, ~StackReturns
  PROVE  TestSpec => []VerdictStands
<1>1. TestInv /\ [TestNext]_testVars => TestInv'
  BY TestNextInv
<1>2. TestInit => TestInv
  BY TestInitInv
<1>3. TestInv => VerdictStands
  BY TestInvStands
<1> QED BY <1>1, <1>2, <1>3, PTL DEF TestSpec

-----------------------------------------------------------------------------
(* The loads (Loads).                                                      *)

\* What a call can still have to do before a schema Job has completed: the
\* requirement is checked before the load's Jobs are planned.
EarlyTodos ==
  {<<[op |-> "deleteSchema"]>>, <<[op |-> "reconcile"]>>,
   <<[op |-> "deleteSchema"], [op |-> "reconcile"]>>,
   <<[op |-> "check"], [op |-> "plan"]>>,
   <<[op |-> "deleteSchema"], [op |-> "check"], [op |-> "plan"]>>,
   <<[op |-> "reconcile"], [op |-> "check"], [op |-> "plan"]>>,
   <<[op |-> "deleteSchema"], [op |-> "reconcile"], [op |-> "check"], [op |-> "plan"]>>}

LoadInv ==
  /\ DOMAIN loadCall = LoadCallers
  /\ \A c \in LoadCallers : loadCall[c] # NoLoad => "todo" \in DOMAIN loadCall[c]
  /\ schemaJob # NoLoad => "phase" \in DOMAIN schemaJob /\ schemaJob.phase \in JobPhases
  /\ schemaJob # NoLoad /\ schemaJob.phase = "complete" => registered
  /\ ~registered =>
       /\ \A p \in Scoped : jobs[p] = <<>>
       /\ \A c \in LoadCallers : loadCall[c] # NoLoad => loadCall[c].todo \in EarlyTodos

\* What such a call does next, and after it.
LEMMA EarlyTodoGoesOn ==
  ASSUME NEW todo \in EarlyTodos
  PROVE  /\ Head(todo).op \in {"deleteSchema", "reconcile", "check"}
         /\ Head(todo).op # "check" => Tail(todo) \in EarlyTodos \union {<<>>}
<1>1. CASE todo = <<[op |-> "deleteSchema"]>>
  BY <1>1
<1>2. CASE todo = <<[op |-> "reconcile"]>>
  BY <1>2
<1>3. CASE todo = <<[op |-> "deleteSchema"], [op |-> "reconcile"]>>
  BY <1>3 DEF EarlyTodos
<1>4. CASE todo = <<[op |-> "check"], [op |-> "plan"]>>
  BY <1>4
<1>5. CASE todo = <<[op |-> "deleteSchema"], [op |-> "check"], [op |-> "plan"]>>
  BY <1>5 DEF EarlyTodos
<1>6. CASE todo = <<[op |-> "reconcile"], [op |-> "check"], [op |-> "plan"]>>
  BY <1>6 DEF EarlyTodos
<1>7. CASE todo = <<[op |-> "deleteSchema"], [op |-> "reconcile"], [op |-> "check"], [op |-> "plan"]>>
  BY <1>7 DEF EarlyTodos
<1> QED BY <1>1, <1>2, <1>3, <1>4, <1>5, <1>6, <1>7 DEF EarlyTodos

\* A sequence that goes through one and then through another joins them.
LEMMA IsJoined ==
  ASSUME NEW S, NEW s \in Seq(S), NEW t \in Seq(S), NEW v \in Seq(S), Len(v) = Len(s) + Len(t),
         \A i \in 1..Len(v) : v[i] = IF i <= Len(s) THEN s[i] ELSE t[i - Len(s)]
  PROVE  s \o t = v
<1>1. /\ s \o t \in Seq(S) /\ Len(s \o t) = Len(s) + Len(t)
      /\ \A i \in 1..Len(s) + Len(t) : (s \o t)[i] = IF i <= Len(s) THEN s[i] ELSE t[i - Len(s)]
  BY ConcatProperties
<1>2. \A i \in 1..Len(s \o t) : (s \o t)[i] = v[i]
  BY <1>1
<1> QED BY <1>1, <1>2, SeqEqual

\* Short sequences, joined.
LEMMA JoinedSeqs ==
  ASSUME NEW a, NEW b, NEW c
  PROVE  /\ <<a>> \o <<b>> = <<a, b>>
         /\ <<a>> \o <<b, c>> = <<a, b, c>>
<1> DEFINE S == {a, b, c}
<1>3. <<a>> \o <<b>> = <<a, b>>
  <2> DEFINE s == <<a>>
             t == <<b>>
             v == <<a, b>>
  <2>1. /\ s \in Seq(S) /\ t \in Seq(S) /\ v \in Seq(S)
        /\ Len(s) = 1 /\ Len(t) = 1 /\ Len(v) = 2
        /\ s[1] = a /\ t[1] = b
        /\ v[1] = a /\ v[2] = b
    BY DEF S
  <2>2. \A i \in 1..2 : i = 1 \/ i = 2
    OBVIOUS
  <2> HIDE DEF s, t, v
  <2>3. \A i \in 1..Len(v) : v[i] = IF i <= Len(s) THEN s[i] ELSE t[i - Len(s)]
    BY <2>1, <2>2
  <2>4. s \o t = v
    <3>1. Len(v) = Len(s) + Len(t)
      BY <2>1
    <3> HIDE DEF S
    <3> QED BY <2>1, <2>3, <3>1, IsJoined
  <2> QED BY <2>4 DEF s, t, v
<1>4. <<a>> \o <<b, c>> = <<a, b, c>>
  <2> DEFINE s == <<a>>
             t == <<b, c>>
             v == <<a, b, c>>
  <2>1. /\ s \in Seq(S) /\ t \in Seq(S) /\ v \in Seq(S)
        /\ Len(s) = 1 /\ Len(t) = 2 /\ Len(v) = 3
        /\ s[1] = a /\ t[1] = b /\ t[2] = c
        /\ v[1] = a /\ v[2] = b /\ v[3] = c
    BY DEF S
  <2>2. \A i \in 1..3 : i = 1 \/ i = 2 \/ i = 3
    OBVIOUS
  <2> HIDE DEF s, t, v
  <2>3. \A i \in 1..Len(v) : v[i] = IF i <= Len(s) THEN s[i] ELSE t[i - Len(s)]
    BY <2>1, <2>2
  <2>4. s \o t = v
    <3>1. Len(v) = Len(s) + Len(t)
      BY <2>1
    <3> HIDE DEF S
    <3> QED BY <2>1, <2>3, <3>1, IsJoined
  <2> QED BY <2>4 DEF s, t, v
<1> QED BY <1>3, <1>4

\* Two commands and two commands are four.
LEMMA JoinedPairs ==
  ASSUME NEW a, NEW b, NEW c, NEW d
  PROVE  <<a, b>> \o <<c, d>> = <<a, b, c, d>>
<1> DEFINE S == {a, b, c, d}
<1> DEFINE s == <<a, b>>
           t == <<c, d>>
           v == <<a, b, c, d>>
<1>1. /\ s \in Seq(S) /\ t \in Seq(S) /\ v \in Seq(S)
      /\ Len(s) = 2 /\ Len(t) = 2 /\ Len(v) = 4
      /\ s[1] = a /\ s[2] = b /\ t[1] = c /\ t[2] = d
      /\ v[1] = a /\ v[2] = b /\ v[3] = c /\ v[4] = d
  BY DEF S
<1>2. \A i \in 1..4 : i = 1 \/ i = 2 \/ i = 3 \/ i = 4
  OBVIOUS
<1> HIDE DEF s, t, v
<1>3. \A i \in 1..Len(v) : v[i] = IF i <= Len(s) THEN s[i] ELSE t[i - Len(s)]
  BY <1>1, <1>2
<1>4. s \o t = v
  <2>1. Len(v) = Len(s) + Len(t)
    BY <1>1
  <2> HIDE DEF S
  <2> QED BY <1>1, <1>3, <2>1, IsJoined
<1> QED BY <1>4 DEF s, t, v

\* What a call starts with.
LEMMA StartsEarly ==
  ASSUME NEW force \in BOOLEAN, NEW wait \in BOOLEAN, NEW schemas \in BOOLEAN, NEW load \in BOOLEAN
  PROVE  (IF schemas THEN SchemaCommands(force, wait) ELSE <<>>)
           \o (IF load THEN <<[op |-> "check"], [op |-> "plan"]>> ELSE <<>>) \in EarlyTodos \union {<<>>}
<1> DEFINE first == IF schemas THEN SchemaCommands(force, wait) ELSE <<>>
           then == IF load THEN <<[op |-> "check"], [op |-> "plan"]>> ELSE <<>>
<1>1. first \in {<<>>, <<[op |-> "deleteSchema"]>>, <<[op |-> "deleteSchema"], [op |-> "reconcile"]>>}
  <2>1. <<[op |-> "deleteSchema"]>> \o <<[op |-> "reconcile"]>> = <<[op |-> "deleteSchema"], [op |-> "reconcile"]>>
    BY JoinedSeqs
  <2>2. <<[op |-> "deleteSchema"]>> \o <<>> = <<[op |-> "deleteSchema"]>>
    OBVIOUS
  <2> QED BY <2>1, <2>2 DEF SchemaCommands
<1>2. then \in {<<>>, <<[op |-> "check"], [op |-> "plan"]>>}
  OBVIOUS
<1> HIDE DEF first, then
<1>3. CASE then = <<>>
  <2>1. first \o <<>> = first
    BY <1>1
  <2> QED BY <1>1, <1>3, <2>1 DEF EarlyTodos, first, then
<1>4. CASE then = <<[op |-> "check"], [op |-> "plan"]>>
  <2>1. <<>> \o <<[op |-> "check"], [op |-> "plan"]>> = <<[op |-> "check"], [op |-> "plan"]>>
    OBVIOUS
  <2>2. <<[op |-> "deleteSchema"]>> \o <<[op |-> "check"], [op |-> "plan"]>>
          = <<[op |-> "deleteSchema"], [op |-> "check"], [op |-> "plan"]>>
    BY JoinedSeqs
  <2>3. <<[op |-> "deleteSchema"], [op |-> "reconcile"]>> \o <<[op |-> "check"], [op |-> "plan"]>>
          = <<[op |-> "deleteSchema"], [op |-> "reconcile"], [op |-> "check"], [op |-> "plan"]>>
    BY JoinedPairs
  <2>4. first \o then \in EarlyTodos
    BY <1>1, <1>4, <2>1, <2>2, <2>3 DEF EarlyTodos
  <2> QED BY <2>4 DEF first, then
<1> QED BY <1>2, <1>3, <1>4

\* No load has begun.
LEMMA LoadInitInv == LoadInit => LoadInv
BY DEF LoadInit, LoadInv

\* A call that ends has nothing to do.
LEMMA LoadCallEndsSound ==
  ASSUME LoadInv, NEW c \in LoadCallers, NEW how, LoadCallEnds(c, how), UNCHANGED <<jobs, registered>>,
         schemaJob' \in {schemaJob, NoLoad}
  PROVE  LoadInv'
BY DEF LoadInv, LoadCallEnds

\* A call that goes on does what it had left to do.
LEMMA LoadCallGoesOnSound ==
  ASSUME LoadInv, NEW c \in LoadCallers, NEW call,
         loadCall' = [loadCall EXCEPT ![c] = call], "todo" \in DOMAIN call,
         ~registered => call.todo \in EarlyTodos, UNCHANGED <<jobs, registered>>,
         schemaJob' \in {schemaJob, NoLoad}
  PROVE  LoadInv'
BY DEF LoadInv

\* Every step of a call keeps the invariant.
LEMMA LoadStepSound ==
  ASSUME LoadInv, NEW c \in LoadCallers, loadCall[c] # NoLoad, LoadStep(c)
  PROVE  LoadInv'
<1> DEFINE call == loadCall[c]
           todo == call.todo
<1>1. "todo" \in DOMAIN call /\ DOMAIN loadCall = LoadCallers
      /\ (~registered => todo \in EarlyTodos)
  BY DEF LoadInv
<1>2. ASSUME GoesOn(c, TodoAfter(c)), ~registered => Head(todo).op # "check",
             UNCHANGED <<jobs, registered, schemaJob>>
      PROVE  LoadInv'
  <2>1. CASE LoadCallEnds(c, "ok")
    BY <1>2, <2>1, LoadCallEndsSound
  <2>2. CASE TodoAfter(c) # <<>> /\ loadCall' = [loadCall EXCEPT ![c].todo = TodoAfter(c)]
    <3> DEFINE next == [call EXCEPT !.todo = TodoAfter(c)]
    <3>1. loadCall' = [loadCall EXCEPT ![c] = next] /\ "todo" \in DOMAIN next /\ next.todo = Tail(todo)
      BY <1>1, <2>2 DEF TodoAfter
    <3>2. ~registered => Tail(todo) \in EarlyTodos
      BY <1>1, <1>2, <2>2, EarlyTodoGoesOn DEF TodoAfter
    <3> HIDE DEF next
    <3> QED BY <1>2, <3>1, <3>2, LoadCallGoesOnSound
  <2> QED BY <1>2, <2>1, <2>2 DEF GoesOn
<1>3. CASE CheckRequired(c)
  <2>1. SchemaState(call.image) \in Satisfying => registered
    <3>1. schemaJob # NoLoad => schemaJob.phase \in {"running", "complete", "failed"}
      BY DEF LoadInv, JobPhases
    <3>2. SchemaState(call.image) \in {"complete", "stale"} => schemaJob # NoLoad /\ schemaJob.phase = "complete"
      BY <3>1 DEF SchemaState
    <3> QED BY <3>2 DEF Satisfying, LoadInv
  <2>2. UNCHANGED <<jobs, registered, schemaJob>>
    BY <1>3 DEF CheckRequired, loadedVars
  <2>3. CASE registered /\ GoesOn(c, TodoAfter(c))
    BY <1>2, <2>2, <2>3
  <2>4. CASE Refuse(c)
    BY <2>2, <2>4, LoadCallEndsSound DEF Refuse
  <2> QED BY <1>3, <2>1, <2>3, <2>4 DEF CheckRequired
<1>4. CASE PlanJobs(c)
  <2>1. UNCHANGED <<jobs, registered, schemaJob>> /\ Head(todo).op = "plan"
    BY <1>4 DEF PlanJobs, loadedVars, LoadAt, NextOp
  <2>2. registered
    BY <1>1, <2>1, EarlyTodoGoesOn
  <2>3. CASE LoadCallEnds(c, "ok")
    BY <2>1, <2>3, LoadCallEndsSound
  <2>4. CASE ~LoadCallEnds(c, "ok")
    <3> DEFINE next == [call EXCEPT !.todo = JobCommands(call), !.again = Recreated(call),
                                    !.alone = \A d \in LoadCallers \ {c} : loadCall[d] = NoLoad]
    <3>1. loadCall' = [loadCall EXCEPT ![c] = next]
      BY <1>1, <1>4, <2>4 DEF PlanJobs
    <3>2. "todo" \in DOMAIN next
      BY <1>1
    <3> HIDE DEF next
    <3> QED BY <2>1, <2>2, <3>1, <3>2, LoadCallGoesOnSound
  <2> QED BY <2>3, <2>4
<1>5. CASE DeleteSchemaJob(c)
  <2>1. UNCHANGED <<jobs, registered>> /\ schemaJob' = NoLoad /\ Head(todo).op = "deleteSchema"
    BY <1>5 DEF DeleteSchemaJob, LoadAt, NextOp
  <2>2. CASE LoadCallEnds(c, "ok")
    BY <2>1, <2>2, LoadCallEndsSound
  <2>3. CASE ~LoadCallEnds(c, "ok")
    <3> DEFINE next == [call EXCEPT !.todo = Tail(todo), !.started = TRUE, !.changed = TRUE]
    <3>1. loadCall' = [loadCall EXCEPT ![c] = next] /\ Tail(todo) # <<>>
      BY <1>1, <1>5, <2>3 DEF DeleteSchemaJob, TodoAfter
    <3>2. "todo" \in DOMAIN next /\ next.todo = Tail(todo)
      BY <1>1
    <3>3. ~registered => Tail(todo) \in EarlyTodos
      BY <1>1, <2>1, <3>1, EarlyTodoGoesOn
    <3> HIDE DEF next
    <3> QED BY <2>1, <3>1, <3>2, <3>3, LoadCallGoesOnSound
  <2> QED BY <2>2, <2>3
<1>6. CASE Reconciled(c)
  <2>1. UNCHANGED <<jobs, registered, schemaJob>> /\ Head(todo).op = "reconcile"
    BY <1>6 DEF Reconciled, loadedVars, LoadAt, NextOp
  <2> QED BY <1>2, <1>6, <2>1, LoadCallEndsSound DEF Reconciled
<1>7. ASSUME DeleteJob(c) \/ CreateJob(c) \/ AwaitJob(c) PROVE LoadInv'
  <2>1. Head(todo).op \in {"delete", "create", "await"}
    BY <1>7 DEF DeleteJob, CreateJob, AwaitJob, LoadAt, NextOp
  <2>2. registered
    BY <1>1, <2>1, EarlyTodoGoesOn
  <2>3. registered' = registered /\ schemaJob' = schemaJob
    BY <1>7 DEF DeleteJob, CreateJob, AwaitJob, loadedVars
  <2>4. \/ loadCall' = [loadCall EXCEPT ![c] = NoLoad]
        \/ loadCall' = [loadCall EXCEPT ![c] = [call EXCEPT !.todo = TodoAfter(c), !.changed = TRUE]]
        \/ loadCall' = [loadCall EXCEPT ![c] = [call EXCEPT !.todo = TodoAfter(c)]]
    BY <1>1, <1>7 DEF DeleteJob, CreateJob, AwaitJob, HasChanged, GoesOn, LoadCallEnds
  <2>5. /\ DOMAIN loadCall' = LoadCallers
        /\ \A d \in LoadCallers : loadCall'[d] # NoLoad => "todo" \in DOMAIN loadCall'[d]
    BY <1>1, <2>4 DEF LoadInv
  <2> QED BY <2>2, <2>3, <2>5 DEF LoadInv
<1> QED BY <1>3, <1>4, <1>5, <1>6, <1>7 DEF LoadStep

\* Every step of the calls and of the cluster keeps the invariant.
LEMMA LoadNextInv == LoadInv /\ [LoadNext]_loadVars => LoadInv'
<1> SUFFICES ASSUME LoadInv, [LoadNext]_loadVars PROVE LoadInv'
  OBVIOUS
<1>1. ASSUME NEW c \in LoadCallers, StartLoad(c) PROVE LoadInv'
  <2>1. UNCHANGED <<jobs, registered, schemaJob>>
    BY <1>1 DEF StartLoad, loadedVars
  <2>2. PICK force \in BOOLEAN, wait \in BOOLEAN, schemas \in BOOLEAN, load \in BOOLEAN :
          LET todo == (IF schemas THEN SchemaCommands(force, wait) ELSE <<>>)
                        \o IF load THEN <<[op |-> "check"], [op |-> "plan"]>> ELSE <<>>
          IN  /\ schemas \/ load
              /\ IF force THEN Disturb ELSE UNCHANGED disturbances
              /\ IF todo = <<>>
                   THEN said' = "ok" /\ UNCHANGED loadCall
                   ELSE /\ loadCall' = [d \in LoadCallers |->
                             IF d # c THEN Overtaken(d) ELSE
                             [source |-> registry, image |-> lockImage, force |-> force,
                              wait |-> wait, started |-> FALSE, changed |-> FALSE,
                              alone |-> FALSE, again |-> {}, todo |-> todo]]
                        /\ said' = "nothing"
    BY <1>1, Zenon DEF StartLoad
  <2> DEFINE todo == (IF schemas THEN SchemaCommands(force, wait) ELSE <<>>)
                       \o IF load THEN <<[op |-> "check"], [op |-> "plan"]>> ELSE <<>>
             new == [source |-> registry, image |-> lockImage, force |-> force,
                     wait |-> wait, started |-> FALSE, changed |-> FALSE, alone |-> FALSE,
                     again |-> {}, todo |-> todo]
  <2>3. todo \in EarlyTodos \union {<<>>}
    BY StartsEarly
  <2> HIDE DEF todo
  <2>4. CASE UNCHANGED loadCall
    BY <2>1, <2>4 DEF LoadInv
  <2>5. CASE todo # <<>> /\ loadCall' = [d \in LoadCallers |-> IF d # c THEN Overtaken(d) ELSE new]
    <3>1. "todo" \in DOMAIN new /\ new.todo \in EarlyTodos
      BY <2>3, <2>5
    <3>2. ASSUME NEW d \in LoadCallers, Overtaken(d) # NoLoad
          PROVE  loadCall[d] # NoLoad /\ "todo" \in DOMAIN Overtaken(d) /\ Overtaken(d).todo = loadCall[d].todo
      <4>1. loadCall[d] # NoLoad /\ Overtaken(d) = [loadCall[d] EXCEPT !.alone = FALSE]
        BY <3>2 DEF Overtaken
      <4>2. "todo" \in DOMAIN loadCall[d]
        BY <4>1 DEF LoadInv
      <4> QED BY <4>1, <4>2
    <3> HIDE DEF new
    <3>3. /\ DOMAIN loadCall' = LoadCallers /\ loadCall'[c] = new
          /\ \A d \in LoadCallers : d # c => loadCall'[d] = Overtaken(d)
      BY <2>5
    <3> QED BY <2>1, <3>1, <3>2, <3>3 DEF LoadInv
  <2> QED BY <2>2, <2>4, <2>5 DEF todo
<1>2. ASSUME NEW c \in LoadCallers, NotDeployable(c) PROVE LoadInv'
  BY <1>2 DEF NotDeployable, loadedVars, LoadInv
<1>3. ASSUME NEW c \in LoadCallers, NotSeeded(c) \/ LoadFails(c) PROVE LoadInv'
  <2>1. UNCHANGED <<jobs, registered, schemaJob>> /\ \E how : LoadCallEnds(c, how)
    BY <1>3 DEF NotSeeded, LoadFails, Refuse, loadedVars
  <2> QED BY <2>1, LoadCallEndsSound
<1>4. ASSUME NEW c \in LoadCallers, LoadStep(c) PROVE LoadInv'
  <2>1. loadCall[c] # NoLoad
    BY <1>4 DEF LoadStep, CheckRequired, PlanJobs, DeleteSchemaJob, Reconciled, DeleteJob, CreateJob,
                AwaitJob, LoadAt
  <2> QED BY <1>4, <2>1, LoadStepSound
<1>5. CASE FluxApplies
  BY <1>5 DEF FluxApplies, LoadInv, JobPhases
<1>6. CASE PinsMove
  BY <1>6 DEF PinsMove, loadedVars, LoadInv
<1>7. ASSUME NEW phase \in {"complete", "failed"}, SchemaJobEnds(phase) PROVE LoadInv'
  <2>1. schemaJob # NoLoad /\ "phase" \in DOMAIN schemaJob
    BY <1>7 DEF SchemaJobEnds, LoadInv
  <2>2. "phase" \in DOMAIN schemaJob' /\ schemaJob'.phase = phase
    BY <1>7, <2>1 DEF SchemaJobEnds
  <2>3. /\ UNCHANGED <<jobs, loadCall>> /\ (registered => registered') /\ (phase = "complete" => registered')
    BY <1>7 DEF SchemaJobEnds
  <2> QED BY <2>2, <2>3 DEF LoadInv, JobPhases
<1>8. ASSUME NEW phase \in {"complete", "failed"}, NEW p \in Scoped, JobEnds(p, phase) PROVE LoadInv'
  <2>1. jobs[p] # <<>>
    BY <1>8 DEF JobEnds
  <2>2. registered
    BY <2>1 DEF LoadInv
  <2> QED BY <1>8, <2>2 DEF JobEnds, LoadInv
<1>9. CASE UNCHANGED loadVars
  BY <1>9 DEF loadVars, LoadInv
<1> QED BY <1>1, <1>2, <1>3, <1>4, <1>5, <1>6, <1>7, <1>8, <1>9 DEF LoadNext

\* For any number of callers, partitions, sources and moves of the pins: no
\* Job of the load exists before a schema Job, of whatever image, has completed.
THEOREM NeverAheadAlways == LoadSpec => []NeverAheadOfSchemas
<1>1. LoadInv /\ [LoadNext]_loadVars => LoadInv'
  BY LoadNextInv
<1>2. LoadInv => NeverAheadOfSchemas
  BY DEF LoadInv, NeverAheadOfSchemas
<1> QED BY LoadInitInv, <1>1, <1>2, PTL DEF LoadSpec

-----------------------------------------------------------------------------
(* What the steps of a load leave: a planned deletion comes after the       *)
(* completion of what replaces the Job, spares a complete one, or makes     *)
(* room for a Job that is run again.                                        *)

\* Induction on the naturals up to a bound, in terms of a set.
LEMMA LoadUpTo ==
  ASSUME NEW n \in Nat, NEW S, 0 \in S, \A k \in 0..n - 1 : k \in S => k + 1 \in S
  PROVE  \A k \in 0..n : k \in S
<1> DEFINE T == {k \in 0..n : k \notin S}
<1>1. SUFFICES ASSUME T # {} PROVE FALSE
  OBVIOUS
<1>2. T \subseteq Nat
  OBVIOUS
<1>3. PICK t \in T : \A u \in T : ~(<<u, t>> \in OpToRel(<, Nat))
  BY <1>1, <1>2, NatLessThanWellFounded, WFMin
<1>4. \A u \in T : ~(u < t)
  BY <1>2, <1>3 DEF OpToRel
<1>5. t # 0
  OBVIOUS
<1>6. t - 1 \notin T /\ t - 1 \in 0..n - 1
  BY <1>4, <1>5
<1> QED BY <1>6

\* What holds of the first sequence of a list, and of every joining of one
\* more, holds of all of them joined.
LEMMA FlattenAlong ==
  ASSUME NEW S, NEW seqs \in Seq(Seq(S)), Len(seqs) > 0, NEW P,
         seqs[1] \in P[1], \A k \in 1..Len(seqs) - 1 : \A t \in P[k] : t \o seqs[k + 1] \in P[k + 1]
  PROVE  FlattenSeq(seqs) \in P[Len(seqs)]
<1> DEFINE n == Len(seqs)
           Step(f, i) == IF i = 1 THEN seqs[i] ELSE f[i - 1] \o seqs[i]
           Joins(f, k) == \A i \in 1..k : f[i] = Step(f, i)
           T == {k \in 0..n : \E f : DOMAIN f = 1..k /\ f = [i \in DOMAIN f |-> f[i]] /\ Joins(f, k)}
           Is(f) == f = [i \in 1..n |-> IF i = 1 THEN seqs[i] ELSE f[i - 1] \o seqs[i]]
           flat == CHOOSE f : Is(f)
<1>1. n \in Nat /\ n > 0
  BY LenProperties
<1>2. 0 \in T
  <2> DEFINE none == 0
             f == [i \in 1..none |-> seqs]
  <2>1. DOMAIN f = 1..none /\ f = [i \in DOMAIN f |-> f[i]] /\ \A i \in 1..none : FALSE
    OBVIOUS
  <2>2. Joins(f, none)
    BY <2>1
  <2>3. none \in 0..n /\ none = 0
    BY <1>1
  <2> HIDE DEF none, f, Joins, n
  <2>4. none \in T
    BY <2>1, <2>2, <2>3
  <2> QED BY <2>3, <2>4
<1>3. ASSUME NEW k \in 0..n - 1, k \in T PROVE k + 1 \in T
  <2>1. PICK f : DOMAIN f = 1..k /\ f = [i \in DOMAIN f |-> f[i]] /\ Joins(f, k)
    BY <1>3
  <2> DEFINE last == Step(f, k + 1)
             next == [i \in 1..k + 1 |-> IF i = k + 1 THEN last ELSE f[i]]
  <2>2. k \in Nat /\ k + 1 \in 1..n
    BY <1>1
  <2>3. DOMAIN next = 1..k + 1 /\ next = [i \in DOMAIN next |-> next[i]]
    OBVIOUS
  <2> HIDE DEF last
  <2>4. next[k + 1] = last /\ \A i \in 1..k : i # k + 1 /\ i \in 1..k + 1 /\ next[i] = f[i]
    BY <2>2
  <2> HIDE DEF next
  <2>5. ASSUME NEW i \in 1..k + 1 PROVE Step(next, i) = Step(f, i) /\ next[i] = Step(f, i)
    <3>1. i # 1 => i - 1 \in 1..k /\ next[i - 1] = f[i - 1]
      BY <2>2, <2>4
    <3>2. Step(next, i) = Step(f, i)
      BY <3>1
    <3>3. i = k + 1 \/ i \in 1..k
      BY <2>2
    <3>4. i = k + 1 => next[i] = Step(f, i)
      BY <2>4 DEF last
    <3>5. i \in 1..k => next[i] = Step(f, i)
      <4> HIDE DEF Step
      <4> QED BY <2>1, <2>4
    <3> HIDE DEF Step
    <3> QED BY <3>2, <3>3, <3>4, <3>5
  <2>6. Joins(next, k + 1)
    <3> HIDE DEF Step
    <3> QED BY <2>5
  <2> HIDE DEF Joins
  <2> QED BY <2>2, <2>3, <2>6
<1>4. n \in T
  <2>1. n \in Nat /\ \A k \in 0..n - 1 : k \in T => k + 1 \in T
    BY <1>1, <1>3
  <2> HIDE DEF T, n
  <2>2. \A k \in 0..n : k \in T
    BY <1>2, <2>1, LoadUpTo
  <2> QED BY <2>1, <2>2
<1>5. Is(flat)
  <2>1. PICK f : DOMAIN f = 1..n /\ f = [i \in DOMAIN f |-> f[i]] /\ Joins(f, n)
    BY <1>4
  <2>2. Is(f)
    <3>1. \A i \in 1..n : f[i] = IF i = 1 THEN seqs[i] ELSE f[i - 1] \o seqs[i]
      BY <2>1
    <3> HIDE DEF Joins
    <3> QED BY <2>1, <3>1
  <2> HIDE DEF Is
  <2> QED BY <2>2
<1>6. FlattenSeq(seqs) = flat[n]
  BY <1>1 DEF FlattenSeq
<1>7. \A i \in 1..n : flat[i] = IF i = 1 THEN seqs[i] ELSE flat[i - 1] \o seqs[i]
  <2> HIDE DEF flat
  <2> QED BY <1>5
<1> DEFINE E == {k \in 0..n : k # 0 => flat[k] \in P[k]}
<1> HIDE DEF flat
<1>8. 0 \in E
  BY <1>1
<1>9. ASSUME NEW k \in 0..n - 1, k \in E PROVE k + 1 \in E
  <2>1. k + 1 \in 1..n /\ (k + 1 = 1 <=> k = 0) /\ (k + 1) - 1 = k /\ (k # 0 => k \in 1..n - 1)
    BY <1>1
  <2>2. flat[k + 1] = IF k = 0 THEN seqs[k + 1] ELSE flat[k] \o seqs[k + 1]
    BY <1>7, <2>1
  <2>3. flat[k + 1] \in P[k + 1]
    BY <1>9, <2>1, <2>2
  <2> QED BY <2>1, <2>3
<1>10. n \in E
  <2>1. n \in Nat /\ \A k \in 0..n - 1 : k \in E => k + 1 \in E
    BY <1>1, <1>9
  <2> HIDE DEF E, n
  <2>2. \A k \in 0..n : k \in E
    BY <1>8, <2>1, LoadUpTo
  <2> QED BY <2>1, <2>2
<1> QED BY <1>1, <1>6, <1>10

\* What is in the parts is in the whole.
LEMMA FlattenIn ==
  ASSUME NEW S, NEW seqs \in Seq(Seq(S))
  PROVE  FlattenSeq(seqs) \in Seq(S)
<1>0. Len(seqs) \in Nat
  BY LenProperties
<1>1. CASE Len(seqs) = 0
  BY <1>1, EmptySeq DEF FlattenSeq
<1>2. CASE Len(seqs) > 0
  <2> DEFINE P == [k \in 1..Len(seqs) |-> Seq(S)]
  <2>1. \A k \in 1..Len(seqs) : P[k] = Seq(S) /\ seqs[k] \in Seq(S)
    BY ElementOfSeq
  <2>2. 1 \in 1..Len(seqs) /\ Len(seqs) \in 1..Len(seqs)
    BY <1>0, <1>2
  <2>3. ASSUME NEW k \in 1..Len(seqs) - 1, NEW t \in P[k] PROVE t \o seqs[k + 1] \in P[k + 1]
    <3>1. k \in 1..Len(seqs) /\ k + 1 \in 1..Len(seqs)
      BY <1>0
    <3> QED BY <2>1, <2>3, <3>1, ConcatProperties
  <2> HIDE DEF P
  <2>4. FlattenSeq(seqs) \in P[Len(seqs)]
    BY <1>2, <2>1, <2>2, <2>3, FlattenAlong
  <2> QED BY <2>1, <2>2, <2>4
<1> QED BY <1>0, <1>1, <1>2

JobCommand ==
  [op : {"create"}, partition : Scoped]
    \cup [op : {"await", "delete"}, partition : Scoped, commit : ToSet(Commits)]

IsDelete(x, p) == x.op = "delete" /\ x.partition = p

\* The Job whose completion comes before the i-th command stays.
Awaited(todo, i) == \E j \in 1..i :
  /\ todo[j].op = "await" /\ todo[j].partition = todo[i].partition
  /\ \A k \in j..i : IsDelete(todo[k], todo[i].partition) => todo[k].commit # todo[j].commit

\* A complete Job among `kept` stays up to the i-th command.
Spared(kept, todo, i) == \E job \in ToSet(kept[todo[i].partition]) :
  /\ job.phase = "complete"
  /\ \A k \in 1..i : IsDelete(todo[k], todo[i].partition) => todo[k].commit # NameOf(job)

\* The i-th command makes room for a Job that is run again.
Remade(todo, i, again) ==
  /\ todo[i].partition \in again
  /\ \E j \in DOMAIN todo : i < j /\ todo[j] = Create(todo[i].partition)

SafeAt(kept, todo, i, again) == Awaited(todo, i) \/ Spared(kept, todo, i) \/ Remade(todo, i, again)

\* Commands that leave a complete Job wherever they delete one.
SafeTodo(kept, todo, again) == \A i \in DOMAIN todo :
  todo[i].op = "delete" => SafeAt(kept, todo, i, again)

LateTodo(todo) == \A i \in DOMAIN todo : todo[i].op = "delete" => Awaited(todo, i)

\* A command of a plan is one of three.
LEMMA JobCommandIs ==
  ASSUME NEW x \in JobCommand
  PROVE  /\ x.partition \in Scoped /\ x.op \in {"create", "await", "delete"}
         /\ x.op # "create" => x.commit \in ToSet(Commits)
         /\ x.op = "create" => x = Create(x.partition)
<1>1. CASE x \in [op : {"create"}, partition : Scoped]
  BY <1>1 DEF Create
<1>2. CASE x \in [op : {"await", "delete"}, partition : Scoped, commit : ToSet(Commits)]
  BY <1>2
<1> QED BY <1>1, <1>2 DEF JobCommand

\* The three are commands of a plan.
LEMMA AreJobCommands ==
  ASSUME NEW p \in Scoped, NEW n \in ToSet(Commits)
  PROVE  Create(p) \in JobCommand /\ Await(p, n) \in JobCommand /\ Delete(p, n) \in JobCommand
BY DEF JobCommand, Create, Await, Delete

\* The positions of two lists of commands, joined.
LEMMA JoinedCommands ==
  ASSUME NEW s \in Seq(JobCommand), NEW t \in Seq(JobCommand), NEW st, st = s \o t
  PROVE  /\ st \in Seq(JobCommand) /\ Len(s) \in Nat /\ Len(t) \in Nat
         /\ DOMAIN s = 1..Len(s) /\ DOMAIN t = 1..Len(t) /\ DOMAIN st = 1..Len(s) + Len(t)
         /\ \A i \in 1..Len(s) : st[i] = s[i]
         /\ \A i \in Len(s) + 1..Len(s) + Len(t) : i - Len(s) \in 1..Len(t) /\ st[i] = t[i - Len(s)]
         /\ \A i \in 1..Len(t) : i + Len(s) \in Len(s) + 1..Len(s) + Len(t) /\ st[i + Len(s)] = t[i]
<1>1. /\ st \in Seq(JobCommand) /\ Len(st) = Len(s) + Len(t)
      /\ \A i \in 1..Len(s) + Len(t) : st[i] = IF i <= Len(s) THEN s[i] ELSE t[i - Len(s)]
  BY ConcatProperties
<1>2. /\ Len(s) \in Nat /\ Len(t) \in Nat
      /\ DOMAIN s = 1..Len(s) /\ DOMAIN t = 1..Len(t) /\ DOMAIN st = 1..Len(s) + Len(t)
  BY <1>1, LenProperties
<1>3. \A i \in 1..Len(s) : st[i] = s[i]
  BY <1>1, <1>2
<1>4. \A i \in Len(s) + 1..Len(s) + Len(t) : i - Len(s) \in 1..Len(t) /\ st[i] = t[i - Len(s)]
  BY <1>1, <1>2
<1>5. ASSUME NEW i \in 1..Len(t) PROVE i + Len(s) \in Len(s) + 1..Len(s) + Len(t) /\ st[i + Len(s)] = t[i]
  <2>1. i + Len(s) \in Len(s) + 1..Len(s) + Len(t) /\ (i + Len(s)) - Len(s) = i
    BY <1>2
  <2> QED BY <1>4, <2>1
<1> QED BY <1>1, <1>2, <1>3, <1>4, <1>5

\* The commands of a list stay safe, whatever follows them.
LEMMA SafeBefore ==
  ASSUME NEW kept, NEW s \in Seq(JobCommand), NEW t \in Seq(JobCommand), NEW again,
         NEW i \in 1..Len(s), SafeAt(kept, s, i, again)
  PROVE  SafeAt(kept, s \o t, i, again)
<1> DEFINE st == s \o t
<1>1. /\ Len(s) \in Nat /\ Len(t) \in Nat /\ DOMAIN s = 1..Len(s) /\ DOMAIN st = 1..Len(s) + Len(t)
      /\ \A k \in 1..Len(s) : st[k] = s[k]
  BY JoinedCommands
<1> HIDE DEF st
<1>2. i \in Nat /\ i <= Len(s) /\ st[i] = s[i] /\ \A k \in 1..i : k \in 1..Len(s) /\ st[k] = s[k]
  BY <1>1
<1>3. CASE Awaited(s, i)
  <2>1. PICK j \in 1..i : /\ s[j].op = "await" /\ s[j].partition = s[i].partition
                          /\ \A k \in j..i : IsDelete(s[k], s[i].partition) => s[k].commit # s[j].commit
    BY <1>3 DEF Awaited
  <2>2. st[j] = s[j] /\ \A k \in j..i : k \in 1..i /\ st[k] = s[k]
    BY <1>2
  <2>3. Awaited(st, i)
    BY <1>2, <2>1, <2>2 DEF Awaited
  <2> QED BY <2>3 DEF SafeAt, st
<1>4. CASE Spared(kept, s, i)
  <2>1. Spared(kept, st, i)
    BY <1>2, <1>4 DEF Spared
  <2> QED BY <2>1 DEF SafeAt, st
<1>5. CASE Remade(s, i, again)
  <2>1. PICK j \in 1..Len(s) : i < j /\ s[j] = Create(s[i].partition)
    BY <1>1, <1>5 DEF Remade
  <2>2. j \in 1..Len(s) + Len(t) /\ st[j] = s[j]
    BY <1>1
  <2>3. Remade(st, i, again)
    BY <1>1, <1>2, <1>5, <2>1, <2>2 DEF Remade
  <2> QED BY <2>3 DEF SafeAt, st
<1> QED BY <1>3, <1>4, <1>5 DEF SafeAt

\* A command that a completion comes before stays so, whatever precedes the list.
LEMMA AwaitedAfter ==
  ASSUME NEW s \in Seq(JobCommand), NEW t \in Seq(JobCommand), NEW i \in 1..Len(t), Awaited(t, i)
  PROVE  Awaited(s \o t, i + Len(s))
<1> DEFINE st == s \o t
           m == Len(s)
<1>1. /\ m \in Nat /\ Len(t) \in Nat
      /\ \A k \in 1..Len(t) : st[k + m] = t[k]
  BY JoinedCommands
<1> HIDE DEF st, m
<1>2. PICK j \in 1..i : /\ t[j].op = "await" /\ t[j].partition = t[i].partition
                        /\ \A k \in j..i : IsDelete(t[k], t[i].partition) => t[k].commit # t[j].commit
  BY DEF Awaited
<1>3. st[i + m] = t[i] /\ st[j + m] = t[j] /\ j + m \in 1..i + m
  BY <1>1
<1>4. ASSUME NEW k \in j + m..i + m PROVE k - m \in j..i /\ st[k] = t[k - m]
  <2>1. k - m \in j..i /\ k - m \in 1..Len(t) /\ (k - m) + m = k
    BY <1>1
  <2> QED BY <1>1, <2>1
<1>5. Awaited(st, i + m)
  BY <1>2, <1>3, <1>4 DEF Awaited
<1> QED BY <1>5 DEF st, m

\* Safe commands and late ones after them are safe.
LEMMA SafeThenLate ==
  ASSUME NEW kept, NEW s \in Seq(JobCommand), NEW t \in Seq(JobCommand), NEW again,
         SafeTodo(kept, s, again), LateTodo(t)
  PROVE  SafeTodo(kept, s \o t, again) /\ (LateTodo(s) => LateTodo(s \o t))
<1> DEFINE st == s \o t
<1>1. /\ Len(s) \in Nat /\ Len(t) \in Nat
      /\ DOMAIN s = 1..Len(s) /\ DOMAIN t = 1..Len(t) /\ DOMAIN st = 1..Len(s) + Len(t)
      /\ \A i \in 1..Len(s) : st[i] = s[i]
      /\ \A i \in Len(s) + 1..Len(s) + Len(t) : i - Len(s) \in 1..Len(t) /\ st[i] = t[i - Len(s)]
  BY JoinedCommands
<1>2. ASSUME NEW i \in 1..Len(s), st[i].op = "delete"
      PROVE  SafeAt(kept, st, i, again) /\ (LateTodo(s) => Awaited(st, i))
  <2>1. s[i].op = "delete" /\ SafeAt(kept, s, i, again)
    BY <1>1, <1>2 DEF SafeTodo
  <2>2. ASSUME LateTodo(s) PROVE Awaited(st, i)
    <3>1. PICK j \in 1..i : /\ s[j].op = "await" /\ s[j].partition = s[i].partition
                            /\ \A k \in j..i : IsDelete(s[k], s[i].partition) => s[k].commit # s[j].commit
      BY <1>1, <2>1, <2>2 DEF LateTodo, Awaited
    <3> HIDE DEF st
    <3>2. st[i] = s[i] /\ st[j] = s[j] /\ \A k \in j..i : k \in 1..Len(s) /\ st[k] = s[k]
      BY <1>1
    <3> QED BY <3>1, <3>2 DEF Awaited
  <2> QED BY <2>1, <2>2, SafeBefore
<1>3. ASSUME NEW i \in Len(s) + 1..Len(s) + Len(t), st[i].op = "delete"
      PROVE  Awaited(st, i)
  <2>1. i - Len(s) \in 1..Len(t) /\ t[i - Len(s)].op = "delete" /\ (i - Len(s)) + Len(s) = i
    BY <1>1, <1>3
  <2>2. Awaited(t, i - Len(s))
    BY <1>1, <2>1 DEF LateTodo
  <2> QED BY <2>1, <2>2, AwaitedAfter
<1> HIDE DEF st
<1>4. \A i \in DOMAIN st : i \in 1..Len(s) \/ i \in Len(s) + 1..Len(s) + Len(t)
  BY <1>1
<1>5. SafeTodo(kept, st, again)
  BY <1>2, <1>3, <1>4 DEF SafeTodo, SafeAt
<1>6. LateTodo(s) => LateTodo(st)
  BY <1>2, <1>3, <1>4 DEF LateTodo
<1> QED BY <1>5, <1>6 DEF st

\* Safe commands of one partition after safe ones of others are safe.
LEMMA SafeThenOther ==
  ASSUME NEW kept, NEW s \in Seq(JobCommand), NEW t \in Seq(JobCommand), NEW again,
         SafeTodo(kept, s, again), SafeTodo(kept, t, again),
         \A i \in DOMAIN s, j \in DOMAIN t : s[i].partition # t[j].partition
  PROVE  SafeTodo(kept, s \o t, again)
<1> DEFINE st == s \o t
           m == Len(s)
<1>1. /\ m \in Nat /\ Len(t) \in Nat
      /\ DOMAIN s = 1..m /\ DOMAIN t = 1..Len(t) /\ DOMAIN st = 1..m + Len(t)
      /\ \A i \in 1..m : st[i] = s[i]
      /\ \A i \in m + 1..m + Len(t) : i - m \in 1..Len(t) /\ st[i] = t[i - m]
      /\ \A i \in 1..Len(t) : i + m \in m + 1..m + Len(t) /\ st[i + m] = t[i]
  BY JoinedCommands
<1>2. ASSUME NEW i \in 1..m, st[i].op = "delete" PROVE SafeAt(kept, st, i, again)
  <2>1. SafeAt(kept, s, i, again)
    BY <1>1, <1>2 DEF SafeTodo
  <2> QED BY <2>1, SafeBefore
<1> HIDE DEF st, m
<1>3. ASSUME NEW i \in m + 1..m + Len(t), st[i].op = "delete" PROVE SafeAt(kept, st, i, again)
  <2> DEFINE h == i - m
             p == t[h].partition
  <2>1. h \in 1..Len(t) /\ st[i] = t[h] /\ h + m = i /\ SafeAt(kept, t, h, again)
    BY <1>1, <1>3 DEF SafeTodo
  <2> HIDE DEF h
  <2>2. CASE Awaited(t, h)
    <3>1. Awaited(st, h + m)
      BY <2>1, <2>2, AwaitedAfter DEF st, m
    <3> QED BY <2>1, <3>1 DEF SafeAt
  <2>3. CASE Spared(kept, t, h)
    <3>1. PICK job \in ToSet(kept[p]) : /\ job.phase = "complete"
                                        /\ \A k \in 1..h : IsDelete(t[k], p) => t[k].commit # NameOf(job)
      BY <2>3 DEF Spared
    <3>2. ASSUME NEW k \in 1..i, IsDelete(st[k], p) PROVE st[k].commit # NameOf(job)
      <4>1. CASE k \in 1..m
        BY <1>1, <2>1, <3>2, <4>1 DEF IsDelete
      <4>2. CASE k \in m + 1..m + Len(t)
        <5>1. k - m \in 1..h /\ st[k] = t[k - m]
          BY <1>1, <2>1, <3>2, <4>2
        <5> QED BY <3>1, <3>2, <5>1
      <4>3. k \in 1..m \/ k \in m + 1..m + Len(t)
        BY <1>1, <2>1
      <4> QED BY <4>1, <4>2, <4>3
    <3>3. Spared(kept, st, i)
      BY <2>1, <3>1, <3>2 DEF Spared
    <3> QED BY <3>3 DEF SafeAt
  <2>4. CASE Remade(t, h, again)
    <3>1. PICK j \in 1..Len(t) : h < j /\ t[j] = Create(p)
      BY <1>1, <2>4 DEF Remade
    <3>2. j + m \in DOMAIN st /\ i < j + m /\ st[j + m] = t[j]
      BY <1>1, <2>1, <3>1
    <3>3. Remade(st, i, again)
      BY <2>1, <2>4, <3>1, <3>2 DEF Remade
    <3> QED BY <3>3 DEF SafeAt
  <2> QED BY <2>1, <2>2, <2>3, <2>4 DEF SafeAt
<1>4. \A i \in DOMAIN st : i \in 1..m \/ i \in m + 1..m + Len(t)
  BY <1>1
<1>5. SafeTodo(kept, st, again)
  BY <1>2, <1>3, <1>4 DEF SafeTodo
<1> QED BY <1>5 DEF st

Job == [source : Sources, phase : JobPhases]

JobsSound ==
  /\ jobs \in [Scoped -> Seq(Job)]
  /\ \A p \in Scoped : \A i, j \in DOMAIN jobs[p] : NameOf(jobs[p][i]) = NameOf(jobs[p][j]) => i = j

OneSourcePerCommit == \A s, t \in Sources : CommitOf[s] = CommitOf[t] => s = t

\* A function on the first positions is a sequence.
LEMMA PositionsAreSeq ==
  ASSUME NEW S, NEW n \in Nat, NEW f \in [1..n -> S]
  PROVE  f \in Seq(S) /\ Len(f) = n
BY SeqDef, LenProperties

\* The elements of a sequence.
LEMMA CommandsOf ==
  ASSUME NEW S, NEW s \in Seq(S)
  PROVE  /\ Len(s) \in Nat /\ DOMAIN s = 1..Len(s) /\ \A i \in 1..Len(s) : s[i] \in S
         /\ ToSet(s) = {s[i] : i \in 1..Len(s)}
         /\ s # <<>> => Last(s) \in S /\ Last(s) \in ToSet(s) /\ Last(s) = s[Len(s)] /\ Len(s) \in 1..Len(s)
<1>1. Len(s) \in Nat /\ DOMAIN s = 1..Len(s) /\ \A i \in 1..Len(s) : s[i] \in S
  BY LenProperties, ElementOfSeq
<1>2. ToSet(s) = {s[i] : i \in 1..Len(s)}
  BY <1>1 DEF ToSet
<1>3. s # <<>> => Len(s) \in 1..Len(s)
  BY <1>1, EmptySeq
<1> QED BY <1>1, <1>2, <1>3 DEF Last

\* The names of a partition's Jobs are commits, and each names one of them.
LEMMA JobNames ==
  ASSUME JobsSound, NEW p \in Scoped
  PROVE  /\ jobs[p] \in Seq(Job) /\ Names(jobs[p]) \in Seq(ToSet(Commits))
         /\ \A job \in ToSet(jobs[p]) : job \in Job /\ NameOf(job) \in ToSet(Names(jobs[p]))
         /\ \A n \in ToSet(Names(jobs[p])) : n \in ToSet(Commits)
         /\ jobs[p] # <<>> => Last(jobs[p]) \in ToSet(jobs[p])
<1> DEFINE s == jobs[p]
           names == Names(s)
<1>1. /\ s \in Seq(Job) /\ Len(s) \in Nat /\ DOMAIN s = 1..Len(s) /\ \A i \in 1..Len(s) : s[i] \in Job
      /\ ToSet(s) = {s[i] : i \in 1..Len(s)} /\ (s # <<>> => Last(s) \in ToSet(s))
  BY CommandsOf DEF JobsSound
<1> HIDE DEF s
<1>2. \A job \in Job : NameOf(job) \in ToSet(Commits)
  BY LoadAssumption DEF NameOf, Job
<1>3. names \in [1..Len(s) -> ToSet(Commits)] /\ \A i \in 1..Len(s) : names[i] = NameOf(s[i])
  BY <1>1, <1>2 DEF Names
<1> HIDE DEF names
<1>4. names \in Seq(ToSet(Commits)) /\ Len(names) = Len(s)
  BY <1>1, <1>3, PositionsAreSeq
<1>5. ToSet(names) = {names[i] : i \in 1..Len(s)} /\ \A i \in 1..Len(s) : names[i] \in ToSet(Commits)
  BY <1>4, CommandsOf
<1>6. \A job \in ToSet(s) : job \in Job /\ NameOf(job) \in ToSet(names)
  BY <1>1, <1>3, <1>5
<1> QED BY <1>1, <1>4, <1>5, <1>6 DEF s, names

\* The deletions planned are those chosen.
LEMMA DeletesChosen ==
  ASSUME NEW p \in Scoped, NEW commits \in Seq(ToSet(Commits)), NEW chosen
  PROVE  /\ Deletes(p, commits, chosen) \in Seq(JobCommand)
         /\ \A i \in DOMAIN Deletes(p, commits, chosen) :
              LET x == Deletes(p, commits, chosen)[i]
              IN  x.op = "delete" /\ x.partition = p /\ x.commit \in chosen
<1> DEFINE D == {Delete(p, n) : n \in chosen \cap ToSet(Commits)}
           seqs == [i \in DOMAIN commits |-> IF commits[i] \in chosen THEN <<Delete(p, commits[i])>> ELSE <<>>]
           s == Deletes(p, commits, chosen)
<1>1. Len(commits) \in Nat /\ DOMAIN commits = 1..Len(commits) /\ \A i \in 1..Len(commits) : commits[i] \in ToSet(Commits)
  BY CommandsOf
<1>2. ASSUME NEW i \in 1..Len(commits) PROVE seqs[i] \in Seq(D)
  <2>1. CASE commits[i] \in chosen
    <3>1. Delete(p, commits[i]) \in D
      BY <1>1, <2>1
    <3> DEFINE x == Delete(p, commits[i])
    <3> HIDE DEF x, D
    <3>2. <<x>> \in Seq(D)
      BY <3>1 DEF x
    <3> QED BY <1>1, <2>1, <3>2 DEF x
  <2>2. CASE commits[i] \notin chosen
    BY <1>1, <2>2, EmptySeq
  <2> QED BY <2>1, <2>2
<1>3. seqs \in [1..Len(commits) -> Seq(D)]
  <2> HIDE DEF D
  <2> QED BY <1>1, <1>2
<1>4. s = FlattenSeq(seqs)
  BY DEF Deletes
<1> HIDE DEF seqs, s
<1>5. seqs \in Seq(Seq(D))
  BY <1>1, <1>3, PositionsAreSeq
<1>6. s \in Seq(D)
  BY <1>4, <1>5, FlattenIn
<1>7. D \subseteq JobCommand /\ \A x \in D : x.op = "delete" /\ x.partition = p /\ x.commit \in chosen
  BY AreJobCommands DEF Delete
<1> HIDE DEF D
<1>8. DOMAIN s = 1..Len(s) /\ Len(s) \in Nat /\ \A i \in 1..Len(s) : s[i] \in D
  BY <1>6, CommandsOf
<1>9. s \in Seq(JobCommand)
  BY <1>6, <1>7, <1>8
<1> QED BY <1>7, <1>8, <1>9 DEF s

\* What a call does in a partition, by the newest Job.
LEMMA LoadPlanned ==
  ASSUME JobsSound, NEW p \in Scoped, NEW pinned, NEW force \in BOOLEAN
  PROVE  LET existing == jobs[p]
             action == PlanLoad(existing, pinned, force)
         IN  /\ action \in {"create", "wait", "recreate", "supersede", "none"}
             /\ action = "create" <=> existing = <<>>
             /\ action \in {"none", "supersede"} => Last(existing).phase = "complete"
             /\ action = "supersede" => Last(existing).source # pinned
<1>1. jobs[p] # <<>> => Last(jobs[p]).phase \in {"running", "complete", "failed"}
  BY JobNames DEF Job, JobPhases
<1> QED BY <1>1 DEF PlanLoad

\* One command is a list of commands.
LEMMA OneCommand ==
  ASSUME NEW x \in JobCommand
  PROVE  <<x>> \in Seq(JobCommand) /\ Len(<<x>>) = 1 /\ <<x>>[1] = x /\ DOMAIN <<x>> = 1..1
OBVIOUS

\* Commands that spare a complete Job of the partition are safe.
LEMMA SparingSafe ==
  ASSUME NEW p \in Scoped, NEW s \in Seq(JobCommand), NEW again, NEW job \in ToSet(jobs[p]),
         job.phase = "complete",
         \A i \in DOMAIN s : s[i].partition = p /\ (s[i].op = "delete" => s[i].commit # NameOf(job))
  PROVE  SafeTodo(jobs, s, again)
<1> SUFFICES ASSUME NEW i \in DOMAIN s PROVE Spared(jobs, s, i)
  BY DEF SafeTodo, SafeAt
<1>1. \A k \in 1..i : k \in DOMAIN s
  BY CommandsOf
<1> QED BY <1>1 DEF Spared, IsDelete

\* What a call does at once in a partition is safe when it is not forced.
LEMMA AtOnceSafe ==
  ASSUME JobsSound, NEW p \in Scoped, NEW call \in LoadCalls
  PROVE  /\ AtOnce(p, call) \in Seq(JobCommand)
         /\ \A i \in DOMAIN AtOnce(p, call) : AtOnce(p, call)[i].partition = p
         /\ ~call.force /\ OneSourcePerCommit => SafeTodo(jobs, AtOnce(p, call), Recreated(call))
<1> DEFINE existing == jobs[p]
           action == PlanLoad(existing, call.source, call.force)
           names == Names(existing)
           todo == AtOnce(p, call)
           again == Recreated(call)
<1>1. /\ action \in {"create", "wait", "recreate", "supersede", "none"}
      /\ action = "create" <=> existing = <<>>
      /\ action \in {"none", "supersede"} => Last(existing).phase = "complete"
      /\ action = "supersede" => Last(existing).source # call.source
  <2>1. call.force \in BOOLEAN
    BY DEF LoadCalls
  <2> QED BY <2>1, LoadPlanned
<1>2. /\ existing \in Seq(Job) /\ names \in Seq(ToSet(Commits))
      /\ existing # <<>> => Last(existing) \in ToSet(existing) /\ Last(existing) \in Job
  BY JobNames
<1>3. /\ action = "none" => todo = Deletes(p, names, ToSet(names) \ {NameOf(Last(existing))})
      /\ action = "wait" => todo = <<>>
      /\ action \notin {"none", "wait"} =>
           todo = Deletes(p, Commits, Doomed(existing, call.source, action)) \o <<Create(p)>>
  BY DEF AtOnce
<1>4. action = "recreate" <=> p \in again
  BY DEF Recreated
<1> HIDE DEF todo, action, again
<1>5. CASE action = "none"
  <2> DEFINE chosen == ToSet(names) \ {NameOf(Last(existing))}
  <2>1. todo = Deletes(p, names, chosen) /\ existing # <<>>
    BY <1>1, <1>3, <1>5
  <2>2. /\ Deletes(p, names, chosen) \in Seq(JobCommand)
        /\ \A i \in DOMAIN Deletes(p, names, chosen) :
             LET x == Deletes(p, names, chosen)[i] IN x.op = "delete" /\ x.partition = p /\ x.commit \in chosen
    BY <1>2, DeletesChosen
  <2>3. \A i \in DOMAIN todo : todo[i].partition = p /\ todo[i].commit # NameOf(Last(existing))
    BY <2>1, <2>2
  <2>4. todo \in Seq(JobCommand)
    BY <2>1, <2>2
  <2>5. SafeTodo(jobs, todo, again)
    BY <1>1, <1>2, <1>5, <2>1, <2>3, <2>4, SparingSafe
  <2> QED BY <2>3, <2>4, <2>5 DEF todo, again
<1>6. CASE action = "wait"
  <2>1. todo = <<>>
    BY <1>3, <1>6
  <2>2. todo \in Seq(JobCommand) /\ DOMAIN todo = {}
    BY <2>1, EmptySeq
  <2>3. SafeTodo(jobs, todo, again)
    BY <2>2 DEF SafeTodo
  <2> QED BY <2>2, <2>3 DEF todo, again
<1>7. CASE action \in {"create", "recreate", "supersede"}
  <2> DEFINE doomed == Doomed(existing, call.source, action)
             d == Deletes(p, Commits, doomed)
             e == <<Create(p)>>
  <2>1. todo = d \o e
    BY <1>3, <1>7
  <2>2. d \in Seq(JobCommand) /\ \A i \in DOMAIN d : d[i].op = "delete" /\ d[i].partition = p /\ d[i].commit \in doomed
    BY DeletesChosen, LoadAssumption
  <2>3. Create(p) \in JobCommand /\ Create(p).op = "create" /\ Create(p).partition = p
    BY DEF JobCommand, Create
  <2>4. e \in Seq(JobCommand) /\ Len(e) = 1 /\ e[1] = Create(p) /\ DOMAIN e = 1..1
    BY <2>3, OneCommand
  <2> HIDE DEF d, e, doomed
  <2>5. /\ todo \in Seq(JobCommand) /\ DOMAIN d = 1..Len(d) /\ Len(d) \in Nat /\ DOMAIN todo = 1..Len(d) + 1
        /\ \A i \in 1..Len(d) : todo[i] = d[i]
        /\ todo[Len(d) + 1] = Create(p)
    <3> DEFINE de == d \o e
    <3>0. d \in Seq(JobCommand) /\ e \in Seq(JobCommand)
      BY <2>2, <2>4
    <3>1. /\ de \in Seq(JobCommand) /\ DOMAIN d = 1..Len(d) /\ Len(d) \in Nat /\ DOMAIN de = 1..Len(d) + Len(e)
          /\ \A i \in 1..Len(d) : de[i] = d[i]
          /\ \A i \in 1..Len(e) : de[i + Len(d)] = e[i]
      BY <3>0, JoinedCommands
    <3> HIDE DEF de
    <3>2. 1 \in 1..Len(e) /\ 1 + Len(d) = Len(d) + 1
      BY <2>4, <3>1
    <3>3. todo = de
      BY <2>1 DEF de
    <3> QED BY <2>4, <3>1, <3>2, <3>3
  <2>6. \A i \in DOMAIN todo : i \in 1..Len(d) \/ i = Len(d) + 1
    BY <2>5
  <2>7. \A i \in DOMAIN todo : todo[i].partition = p
    BY <2>2, <2>3, <2>5, <2>6
  <2>8. ASSUME ~call.force, OneSourcePerCommit PROVE SafeTodo(jobs, todo, again)
    <3>1. CASE action = "recreate"
      <4>1. ASSUME NEW i \in DOMAIN todo, todo[i].op = "delete" PROVE Remade(todo, i, again)
        <5>1. i \in 1..Len(d) /\ i < Len(d) + 1 /\ Len(d) + 1 \in DOMAIN todo
          BY <2>3, <2>5, <2>6, <4>1
        <5> QED BY <1>4, <2>5, <2>7, <3>1, <5>1 DEF Remade
      <4> QED BY <4>1 DEF SafeTodo, SafeAt
    <3>2. CASE action = "create"
      <4>1. ToSet(names) = {}
        BY <1>1, <1>2, <3>2 DEF Names, ToSet
      <4>2. doomed = {}
        BY <4>1 DEF doomed, Doomed
      <4> QED BY <2>2, <2>3, <2>5, <2>6, <4>2 DEF SafeTodo
    <3>3. CASE action = "supersede"
      <4>1. existing # <<>> /\ Last(existing).phase = "complete" /\ Last(existing).source # call.source
        BY <1>1, <3>3
      <4>2. Last(existing).source \in Sources /\ call.source \in Sources
        BY <1>2, <4>1 DEF Job, LoadCalls
      <4>3. CommitOf[call.source] # NameOf(Last(existing))
        BY <2>8, <4>1, <4>2 DEF OneSourcePerCommit, NameOf
      <4>4. \A n \in doomed : n # NameOf(Last(existing))
        BY <3>3, <4>3 DEF doomed, Doomed
      <4>5. \A i \in DOMAIN todo : todo[i].op = "delete" => todo[i].commit # NameOf(Last(existing))
        BY <2>2, <2>3, <2>5, <2>6, <4>4
      <4> QED BY <1>2, <2>5, <2>7, <4>1, <4>5, SparingSafe
    <3> QED BY <1>7, <3>1, <3>2, <3>3
  <2> QED BY <2>5, <2>7, <2>8 DEF todo, again
<1> QED BY <1>1, <1>5, <1>6, <1>7

\* What a call does in a partition after every Job was created comes after the
\* completion of the Job it keeps.
LEMMA AfterwardsLate ==
  ASSUME JobsSound, NEW p \in Scoped, NEW call \in LoadCalls
  PROVE  Afterwards(p, call) \in Seq(JobCommand) /\ LateTodo(Afterwards(p, call))
<1> DEFINE existing == jobs[p]
           action == PlanLoad(existing, call.source, call.force)
           names == Names(existing)
           doomed == Doomed(existing, call.source, action)
           todo == Afterwards(p, call)
           wanted == CommitOf[call.source]
<1>1. /\ action \in {"create", "wait", "recreate", "supersede", "none"}
      /\ action = "create" <=> existing = <<>>
  <2>1. call.force \in BOOLEAN
    BY DEF LoadCalls
  <2> QED BY <2>1, LoadPlanned
<1>2. /\ names \in Seq(ToSet(Commits)) /\ \A job \in ToSet(existing) : NameOf(job) \in ToSet(names)
      /\ \A n \in ToSet(names) : n \in ToSet(Commits)
      /\ existing # <<>> => Last(existing) \in ToSet(existing)
  BY JobNames
<1>3. /\ action = "none" => todo = <<>>
      /\ action = "wait" => todo = <<Await(p, NameOf(Last(existing)))>>
      /\ action \notin {"none", "wait"} =>
           todo = <<Await(p, wanted)>> \o Deletes(p, names, ToSet(names) \ doomed)
  BY DEF Afterwards
<1>4. wanted \in ToSet(Commits)
  BY LoadAssumption DEF LoadCalls
<1>5. wanted \notin ToSet(names) \ doomed
  BY DEF Doomed
<1> HIDE DEF todo, action, doomed, wanted
<1>6. CASE action = "none"
  <2>1. todo = <<>>
    BY <1>3, <1>6
  <2>2. todo \in Seq(JobCommand) /\ DOMAIN todo = {}
    BY <2>1, EmptySeq
  <2> QED BY <2>2 DEF LateTodo, todo
<1>7. ASSUME NEW n \in ToSet(Commits)
      PROVE  /\ <<Await(p, n)>> \in Seq(JobCommand) /\ Len(<<Await(p, n)>>) = 1
             /\ <<Await(p, n)>>[1] = Await(p, n) /\ DOMAIN <<Await(p, n)>> = 1..1
             /\ Await(p, n).op = "await" /\ Await(p, n).partition = p /\ Await(p, n).commit = n
  <2>1. Await(p, n) \in JobCommand /\ Await(p, n).op = "await" /\ Await(p, n).partition = p /\ Await(p, n).commit = n
    BY DEF JobCommand, Await
  <2> QED BY <2>1, OneCommand
<1>8. CASE action = "wait"
  <2> DEFINE n == NameOf(Last(existing))
  <2>1. n \in ToSet(Commits)
    BY <1>1, <1>2, <1>8
  <2> HIDE DEF n
  <2>2. todo = <<Await(p, n)>>
    BY <1>3, <1>8 DEF n
  <2>3. LateTodo(todo)
    BY <1>7, <2>1, <2>2 DEF LateTodo
  <2> QED BY <1>7, <2>1, <2>2, <2>3 DEF todo
<1>9. CASE action \notin {"none", "wait"}
  <2> DEFINE chosen == ToSet(names) \ doomed
             a == <<Await(p, wanted)>>
             d == Deletes(p, names, chosen)
  <2>1. todo = a \o d
    BY <1>3, <1>9
  <2>2. d \in Seq(JobCommand) /\ \A i \in DOMAIN d : d[i].op = "delete" /\ d[i].partition = p /\ d[i].commit \in chosen
    BY <1>2, DeletesChosen
  <2>3. a \in Seq(JobCommand) /\ Len(a) = 1 /\ a[1] = Await(p, wanted)
        /\ Await(p, wanted).op = "await" /\ Await(p, wanted).partition = p /\ Await(p, wanted).commit = wanted
    BY <1>4, <1>7
  <2>4. wanted \notin chosen
    BY <1>5
  <2> HIDE DEF a, d, chosen
  <2>5. /\ todo \in Seq(JobCommand) /\ Len(d) \in Nat /\ DOMAIN d = 1..Len(d) /\ DOMAIN todo = 1..1 + Len(d)
        /\ todo[1] = Await(p, wanted)
        /\ \A i \in 2..1 + Len(d) : i - 1 \in 1..Len(d) /\ todo[i] = d[i - 1]
    <3> DEFINE ad == a \o d
    <3>0. a \in Seq(JobCommand) /\ d \in Seq(JobCommand)
      BY <2>2, <2>3
    <3>1. /\ ad \in Seq(JobCommand) /\ Len(d) \in Nat /\ DOMAIN d = 1..Len(d) /\ DOMAIN ad = 1..Len(a) + Len(d)
          /\ \A i \in 1..Len(a) : ad[i] = a[i]
          /\ \A i \in Len(a) + 1..Len(a) + Len(d) : i - Len(a) \in 1..Len(d) /\ ad[i] = d[i - Len(a)]
      BY <3>0, JoinedCommands
    <3> HIDE DEF ad
    <3>2. todo = ad /\ 1 \in 1..Len(a)
      BY <2>1, <2>3 DEF ad
    <3> QED BY <2>3, <3>1, <3>2
  <2>6. ASSUME NEW i \in DOMAIN todo, todo[i].op = "delete" PROVE Awaited(todo, i)
    <3>1. i \in 2..1 + Len(d) /\ todo[i].partition = p /\ 1 \in 1..i
      <4>1. i # 1
        BY <2>3, <2>5, <2>6
      <4>2. i \in 2..1 + Len(d) /\ 1 \in 1..i
        BY <2>5, <4>1
      <4> QED BY <2>2, <2>5, <4>2
    <3>2. \A k \in 1..i : IsDelete(todo[k], p) => todo[k].commit # wanted
      <4> SUFFICES ASSUME NEW k \in 1..i, IsDelete(todo[k], p) PROVE todo[k].commit # wanted
        OBVIOUS
      <4>1. k = 1 \/ k \in 2..1 + Len(d)
        BY <2>5, <3>1
      <4>2. CASE k = 1
        BY <2>3, <2>5, <4>2 DEF IsDelete
      <4>3. CASE k \in 2..1 + Len(d)
        BY <2>2, <2>4, <2>5, <4>3
      <4> QED BY <4>1, <4>2, <4>3
    <3> QED BY <2>3, <2>5, <3>1, <3>2 DEF Awaited
  <2>7. LateTodo(todo)
    BY <2>6 DEF LateTodo
  <2> QED BY <2>5, <2>7 DEF todo
<1> QED BY <1>6, <1>8, <1>9

\* The partitions of the first positions.
FirstPartitions(k) == {Partitions[j] : j \in 1..k}

\* The plan of a call is made of commands, and safe when it is not forced.
LEMMA JobPlanSafe ==
  ASSUME JobsSound, NEW call \in LoadCalls
  PROVE  /\ JobCommands(call) \in Seq(JobCommand)
         /\ ~call.force /\ OneSourcePerCommit => SafeTodo(jobs, JobCommands(call), Recreated(call))
<1> DEFINE n == Len(Partitions)
           first == [i \in DOMAIN Partitions |-> AtOnce(Partitions[i], call)]
           then == [i \in DOMAIN Partitions |-> Afterwards(Partitions[i], call)]
           again == Recreated(call)
           plain == ~call.force /\ OneSourcePerCommit
           late == IF call.wait THEN FlattenSeq(then) ELSE <<>>
<1>1. /\ n \in Nat /\ DOMAIN Partitions = 1..n /\ \A i \in 1..n : Partitions[i] \in Scoped
      /\ \A i, j \in 1..n : Partitions[i] = Partitions[j] => i = j
  <2>1. n \in Nat /\ DOMAIN Partitions = 1..n /\ \A i \in 1..n : Partitions[i] \in Scoped
    BY LoadAssumption, CommandsOf DEF Scoped
  <2> QED BY <2>1, LoadAssumption DEF IsInjective
<1>2. \A i \in 1..n : /\ first[i] \in Seq(JobCommand)
                      /\ \A j \in DOMAIN first[i] : first[i][j].partition = Partitions[i]
                      /\ plain => SafeTodo(jobs, first[i], again)
  BY <1>1, AtOnceSafe
<1>3. \A i \in 1..n : then[i] \in Seq(JobCommand) /\ LateTodo(then[i])
  BY <1>1, AfterwardsLate
<1>4. JobCommands(call) = FlattenSeq(first) \o late
  BY DEF JobCommands
<1>5. first \in [1..n -> Seq(JobCommand)] /\ then \in [1..n -> Seq(JobCommand)]
  BY <1>1, <1>2, <1>3
<1> HIDE DEF first, then, again, plain, n
<1>6. first \in Seq(Seq(JobCommand)) /\ then \in Seq(Seq(JobCommand)) /\ Len(first) = n /\ Len(then) = n
  BY <1>1, <1>5, PositionsAreSeq
<1>7. <<>> \in Seq(JobCommand) /\ SafeTodo(jobs, <<>>, again) /\ LateTodo(<<>>)
  BY EmptySeq DEF SafeTodo, LateTodo
<1>8. FlattenSeq(first) \in Seq(JobCommand) /\ (plain => SafeTodo(jobs, FlattenSeq(first), again))
  <2>1. CASE n = 0
    <3>1. first = <<>>
      BY <1>6, <2>1, EmptySeq
    <3>2. FlattenSeq(first) = <<>>
      BY <1>6, <2>1, <3>1 DEF FlattenSeq
    <3> QED BY <1>7, <3>2
  <2>2. CASE n > 0
    <3> DEFINE P == [k \in 1..n |-> {t \in Seq(JobCommand) :
                       /\ \A j \in DOMAIN t : t[j].partition \in FirstPartitions(k)
                       /\ plain => SafeTodo(jobs, t, again)}]
    <3>1. first[1] \in P[1]
      <4>1. 1 \in 1..n /\ Partitions[1] \in FirstPartitions(1)
        BY <1>1, <2>2 DEF FirstPartitions
      <4> QED BY <1>2, <4>1
    <3>2. ASSUME NEW k \in 1..n - 1, NEW t \in P[k] PROVE t \o first[k + 1] \in P[k + 1]
      <4> DEFINE u == first[k + 1]
                 tu == t \o u
      <4>1. k \in 1..n /\ k + 1 \in 1..n
        BY <1>1
      <4>2. /\ t \in Seq(JobCommand) /\ \A j \in DOMAIN t : t[j].partition \in FirstPartitions(k)
            /\ plain => SafeTodo(jobs, t, again)
        BY <3>2, <4>1
      <4>3. /\ u \in Seq(JobCommand) /\ \A j \in DOMAIN u : u[j].partition = Partitions[k + 1]
            /\ plain => SafeTodo(jobs, u, again)
        BY <1>2, <4>1
      <4> HIDE DEF P, u
      <4>4. Partitions[k + 1] \notin FirstPartitions(k)
        <5>1. \A j \in 1..k : j \in 1..n /\ j # k + 1
          BY <1>1
        <5> QED BY <1>1, <4>1, <5>1 DEF FirstPartitions
      <4>5. plain => SafeTodo(jobs, tu, again)
        BY <4>2, <4>3, <4>4, SafeThenOther
      <4>6. FirstPartitions(k + 1) = FirstPartitions(k) \cup {Partitions[k + 1]}
        <5>1. 1..k + 1 = (1..k) \cup {k + 1}
          BY <1>1
        <5> QED BY <5>1 DEF FirstPartitions
      <4>7. tu \in Seq(JobCommand) /\ \A j \in DOMAIN tu : tu[j].partition \in FirstPartitions(k + 1)
        <5>1. /\ tu \in Seq(JobCommand) /\ Len(t) \in Nat /\ Len(u) \in Nat
              /\ DOMAIN t = 1..Len(t) /\ DOMAIN u = 1..Len(u) /\ DOMAIN tu = 1..Len(t) + Len(u)
              /\ \A i \in 1..Len(t) : tu[i] = t[i]
              /\ \A i \in Len(t) + 1..Len(t) + Len(u) : i - Len(t) \in 1..Len(u) /\ tu[i] = u[i - Len(t)]
          BY <4>2, <4>3, JoinedCommands
        <5> HIDE DEF tu
        <5>2. \A j \in DOMAIN tu : j \in 1..Len(t) \/ j \in Len(t) + 1..Len(t) + Len(u)
          BY <5>1
        <5> QED BY <4>2, <4>3, <4>6, <5>1, <5>2
      <4>8. tu \in P[k + 1]
        <5> HIDE DEF tu
        <5> QED BY <4>1, <4>5, <4>7 DEF P
      <4> QED BY <4>8 DEF tu, u
    <3> HIDE DEF P
    <3>3. FlattenSeq(first) \in P[n]
      BY <1>6, <2>2, <3>1, <3>2, FlattenAlong
    <3>4. n \in 1..n
      BY <1>1, <2>2
    <3> QED BY <3>3, <3>4 DEF P
  <2> QED BY <1>1, <2>1, <2>2
<1>9. FlattenSeq(then) \in Seq(JobCommand) /\ LateTodo(FlattenSeq(then))
  <2>1. CASE n = 0
    <3>1. then = <<>>
      BY <1>6, <2>1, EmptySeq
    <3>2. FlattenSeq(then) = <<>>
      BY <1>6, <2>1, <3>1 DEF FlattenSeq
    <3> QED BY <1>7, <3>2
  <2>2. CASE n > 0
    <3> DEFINE P == [k \in 1..n |-> {t \in Seq(JobCommand) : LateTodo(t)}]
    <3>1. \A k \in 1..n : then[k] \in P[k] /\ P[k] = {t \in Seq(JobCommand) : LateTodo(t)}
      BY <1>3
    <3> HIDE DEF P
    <3>2. ASSUME NEW k \in 1..n - 1, NEW t \in P[k] PROVE t \o then[k + 1] \in P[k + 1]
      <4>1. k \in 1..n /\ k + 1 \in 1..n
        BY <1>1
      <4>2. t \in Seq(JobCommand) /\ LateTodo(t) /\ then[k + 1] \in Seq(JobCommand) /\ LateTodo(then[k + 1])
        BY <1>3, <3>1, <3>2, <4>1
      <4>3. SafeTodo(jobs, t, again)
        BY <4>2 DEF SafeTodo, LateTodo, SafeAt
      <4>4. LateTodo(t \o then[k + 1]) /\ t \o then[k + 1] \in Seq(JobCommand)
        BY <4>2, <4>3, SafeThenLate, ConcatProperties
      <4> QED BY <3>1, <4>1, <4>4
    <3>3. 1 \in 1..n /\ n \in 1..n
      BY <1>1, <2>2
    <3>4. FlattenSeq(then) \in P[n]
      BY <1>6, <2>2, <3>1, <3>2, <3>3, FlattenAlong
    <3> QED BY <3>1, <3>3, <3>4
  <2> QED BY <1>1, <2>1, <2>2
<1>10. late \in Seq(JobCommand) /\ LateTodo(late)
  BY <1>7, <1>9
<1> HIDE DEF late
<1>11. JobCommands(call) \in Seq(JobCommand)
  BY <1>4, <1>8, <1>10, ConcatProperties
<1>12. plain => SafeTodo(jobs, JobCommands(call), again)
  BY <1>4, <1>8, <1>10, SafeThenLate
<1> QED BY <1>11, <1>12 DEF plain, again

\* What is left of a plan.
LEMMA CommandsLeft ==
  ASSUME NEW todo \in Seq(JobCommand), todo # <<>>
  PROVE  /\ Tail(todo) \in Seq(JobCommand) /\ Len(todo) \in Nat /\ Len(todo) > 0 /\ DOMAIN todo = 1..Len(todo)
         /\ Head(todo) = todo[1] /\ todo[1] \in JobCommand
         /\ DOMAIN Tail(todo) = 1..Len(todo) - 1 /\ \A i \in 1..Len(todo) - 1 : Tail(todo)[i] = todo[i + 1]
<1>1. /\ Head(todo) \in JobCommand /\ Tail(todo) \in Seq(JobCommand) /\ Len(Tail(todo)) = Len(todo) - 1
      /\ \A i \in 1..Len(Tail(todo)) : Tail(todo)[i] = todo[i + 1]
  BY HeadTailProperties
<1>2. Head(todo) = todo[1]
  OBVIOUS
<1>3. DOMAIN Tail(todo) = 1..Len(Tail(todo)) /\ Len(todo) \in Nat /\ DOMAIN todo = 1..Len(todo)
  BY <1>1, LenProperties
<1>4. Len(todo) > 0
  BY <1>3, EmptySeq
<1> QED BY <1>1, <1>2, <1>3, <1>4

\* Safe commands stay safe once the first has run, when what they spare is kept
\* and a Job that was waited for is complete.
LEMMA SafeGoesOn ==
  ASSUME NEW before, NEW after, NEW todo \in Seq(JobCommand), todo # <<>>, NEW again,
         SafeTodo(before, todo, again),
         \A p \in Scoped : \A job \in ToSet(before[p]) :
           job.phase = "complete" /\ ~(IsDelete(Head(todo), p) /\ Head(todo).commit = NameOf(job))
             => job \in ToSet(after[p]),
         Head(todo).op = "await" => \E job \in ToSet(after[Head(todo).partition]) :
           job.phase = "complete" /\ NameOf(job) = Head(todo).commit
  PROVE  SafeTodo(after, Tail(todo), again)
<1> DEFINE rest == Tail(todo)
           n == Len(todo)
<1>1. /\ rest \in Seq(JobCommand) /\ n \in Nat /\ n > 0 /\ DOMAIN todo = 1..n /\ Head(todo) = todo[1]
      /\ DOMAIN rest = 1..n - 1 /\ \A i \in 1..n - 1 : rest[i] = todo[i + 1]
  BY CommandsLeft
<1>2. \A i \in 1..n : todo[i] \in JobCommand
  BY CommandsOf
<1> HIDE DEF rest, n
<1>3. SUFFICES ASSUME NEW i \in 1..n - 1, rest[i].op = "delete" PROVE SafeAt(after, rest, i, again)
  BY <1>1 DEF SafeTodo, rest
<1> DEFINE p == rest[i].partition
<1>4. /\ i + 1 \in 1..n /\ todo[i + 1] = rest[i] /\ 1 \in 1..i + 1
      /\ SafeAt(before, todo, i + 1, again)
  <2>1. i + 1 \in 1..n /\ todo[i + 1] = rest[i] /\ 1 \in 1..i + 1
    BY <1>1
  <2> DEFINE h == i + 1
  <2>2. h \in DOMAIN todo /\ todo[h].op = "delete"
    BY <1>1, <1>3, <2>1
  <2> HIDE DEF h
  <2>3. SafeAt(before, todo, h, again)
    BY <2>2 DEF SafeTodo
  <2> QED BY <2>1, <2>3 DEF h
<1>5. p \in Scoped
  BY <1>2, <1>4, JobCommandIs
<1>6. \A k \in 1..i : k + 1 \in 1..i + 1 /\ rest[k] = todo[k + 1]
  BY <1>1, <1>3
<1>7. CASE Awaited(todo, i + 1)
  <2>1. PICK j \in 1..i + 1 : /\ todo[j].op = "await" /\ todo[j].partition = p
                              /\ \A k \in j..i + 1 : IsDelete(todo[k], p) => todo[k].commit # todo[j].commit
    BY <1>4, <1>7 DEF Awaited
  <2>2. CASE j = 1
    <3>1. PICK job \in ToSet(after[p]) : job.phase = "complete" /\ NameOf(job) = todo[j].commit
      BY <1>1, <2>1, <2>2
    <3>2. \A k \in 1..i : IsDelete(rest[k], p) => rest[k].commit # NameOf(job)
      BY <1>6, <2>1, <2>2, <3>1
    <3> QED BY <3>1, <3>2 DEF SafeAt, Spared
  <2>3. CASE j # 1
    <3> DEFINE h == j - 1
    <3>1. h \in 1..i /\ h + 1 = j
      BY <1>3, <2>1, <2>3
    <3> HIDE DEF h
    <3>2. rest[h] = todo[j]
      BY <1>6, <3>1
    <3>3. \A k \in h..i : IsDelete(rest[k], p) => rest[k].commit # rest[h].commit
      <4> SUFFICES ASSUME NEW k \in h..i, IsDelete(rest[k], p) PROVE rest[k].commit # rest[h].commit
        OBVIOUS
      <4>1. k \in 1..i /\ k + 1 \in j..i + 1
        BY <1>3, <3>1
      <4> QED BY <1>6, <2>1, <3>2, <4>1
    <3> QED BY <2>1, <3>1, <3>2, <3>3 DEF SafeAt, Awaited
  <2> QED BY <2>2, <2>3
<1>8. CASE Spared(before, todo, i + 1)
  <2>1. PICK job \in ToSet(before[p]) :
          /\ job.phase = "complete"
          /\ \A k \in 1..i + 1 : IsDelete(todo[k], p) => todo[k].commit # NameOf(job)
    BY <1>4, <1>8 DEF Spared
  <2>2. job \in ToSet(after[p])
    BY <1>1, <1>4, <1>5, <2>1
  <2>3. \A k \in 1..i : IsDelete(rest[k], p) => rest[k].commit # NameOf(job)
    BY <1>6, <2>1
  <2> QED BY <2>1, <2>2, <2>3 DEF SafeAt, Spared
<1>9. CASE Remade(todo, i + 1, again)
  <2>1. PICK j \in 1..n : i + 1 < j /\ todo[j] = Create(p)
    BY <1>1, <1>4, <1>9 DEF Remade
  <2>2. j - 1 \in 1..n - 1 /\ i < j - 1 /\ (j - 1) + 1 = j
    BY <1>1, <1>3, <2>1
  <2>3. rest[j - 1] = Create(p) /\ j - 1 \in DOMAIN rest
    BY <1>1, <2>1, <2>2
  <2> QED BY <1>4, <1>9, <2>2, <2>3 DEF SafeAt, Remade
<1> QED BY <1>4, <1>7, <1>8, <1>9 DEF SafeAt

\* Safe commands stay safe when complete Jobs are kept.
LEMMA SafeMeanwhile ==
  ASSUME NEW before, NEW after, NEW todo \in Seq(JobCommand), NEW again, SafeTodo(before, todo, again),
         \A p \in Scoped : \A job \in ToSet(before[p]) : job.phase = "complete" => job \in ToSet(after[p])
  PROVE  SafeTodo(after, todo, again)
<1> SUFFICES ASSUME NEW i \in DOMAIN todo, todo[i].op = "delete" PROVE SafeAt(after, todo, i, again)
  BY DEF SafeTodo
<1>1. todo[i] \in JobCommand
  BY CommandsOf
<1>2. todo[i].partition \in Scoped
  BY <1>1, JobCommandIs
<1>3. Spared(before, todo, i) => Spared(after, todo, i)
  BY <1>2 DEF Spared
<1> QED BY <1>3 DEF SafeTodo, SafeAt

\* A deletion that is safe now leaves a complete Job, unless it makes room for one
\* that is run again.
LEMMA SafeDeletion ==
  ASSUME NEW before, NEW todo \in Seq(JobCommand), todo # <<>>, NEW again, SafeTodo(before, todo, again),
         Head(todo).op = "delete",
         ~(Head(todo).partition \in again /\ Create(Head(todo).partition) \in ToSet(todo))
  PROVE  \E job \in ToSet(before[Head(todo).partition]) :
           job.phase = "complete" /\ NameOf(job) # Head(todo).commit
<1>1. /\ Head(todo) = todo[1] /\ Len(todo) \in Nat /\ Len(todo) > 0 /\ DOMAIN todo = 1..Len(todo)
      /\ ToSet(todo) = {todo[i] : i \in 1..Len(todo)}
  BY CommandsLeft, CommandsOf
<1>2. 1 \in DOMAIN todo /\ SafeAt(before, todo, 1, again)
  BY <1>1 DEF SafeTodo
<1>3. ~Awaited(todo, 1)
  <2>1. \A j \in 1..1 : todo[j].op = "delete"
    BY <1>1
  <2> QED BY <2>1 DEF Awaited
<1>4. ~Remade(todo, 1, again)
  BY <1>1 DEF Remade
<1>5. Spared(before, todo, 1)
  BY <1>2, <1>3, <1>4 DEF SafeAt
<1> QED BY <1>1, <1>5 DEF Spared, IsDelete

\* A sequence without its i-th element.
LEMMA RemovedAt ==
  ASSUME NEW S, NEW s \in Seq(S), NEW i \in 1..Len(s)
  PROVE  /\ RemoveAt(s, i) \in Seq(S) /\ Len(s) \in Nat /\ DOMAIN RemoveAt(s, i) = 1..Len(s) - 1
         /\ \A k \in 1..Len(s) - 1 : RemoveAt(s, i)[k] = IF k < i THEN s[k] ELSE s[k + 1]
<1> DEFINE n == Len(s)
           a == SubSeq(s, 1, i - 1)
           b == SubSeq(s, i + 1, n)
           ab == a \o b
<1>1. n \in Nat /\ \A k \in 1..n : s[k] \in S
  BY CommandsOf
<1>2. /\ a \in Seq(S) /\ Len(a) = i - 1 /\ \A k \in 1..i - 1 : a[k] = s[k]
  <2>1. \A k \in 1..i - 1 : s[k] \in S
    BY <1>1
  <2>2. /\ a \in Seq(S) /\ Len(a) = IF 1 <= i - 1 THEN (i - 1) - 1 + 1 ELSE 0
        /\ \A k \in 1..(i - 1) - 1 + 1 : a[k] = s[1 + k - 1]
    BY <1>1, <2>1, SubSeqProperties
  <2> HIDE DEF a
  <2>3. \A k \in 1..i - 1 : k \in 1..(i - 1) - 1 + 1 /\ 1 + k - 1 = k
    BY <1>1
  <2>4. Len(a) = i - 1
    BY <1>1, <2>2
  <2> QED BY <2>2, <2>3, <2>4
<1>3. /\ b \in Seq(S) /\ Len(b) = n - i /\ \A k \in 1..n - i : b[k] = s[i + k]
  <2>1. \A k \in i + 1..n : s[k] \in S
    BY <1>1
  <2>2. /\ b \in Seq(S) /\ Len(b) = IF i + 1 <= n THEN n - (i + 1) + 1 ELSE 0
        /\ \A k \in 1..n - (i + 1) + 1 : b[k] = s[(i + 1) + k - 1]
    BY <1>1, <2>1, SubSeqProperties
  <2> HIDE DEF b
  <2>3. \A k \in 1..n - i : k \in 1..n - (i + 1) + 1 /\ (i + 1) + k - 1 = i + k
    BY <1>1
  <2>4. Len(b) = n - i
    BY <1>1, <2>2
  <2> QED BY <2>2, <2>3, <2>4
<1> HIDE DEF a, b
<1>4. /\ ab \in Seq(S) /\ Len(ab) = Len(a) + Len(b)
      /\ \A k \in 1..Len(a) + Len(b) : ab[k] = IF k <= Len(a) THEN a[k] ELSE b[k - Len(a)]
  BY <1>2, <1>3, ConcatProperties
<1>5. ab = RemoveAt(s, i)
  BY DEF RemoveAt, a, b, ab
<1> HIDE DEF ab, n
<1>6. Len(ab) = n - 1 /\ DOMAIN ab = 1..n - 1
  BY <1>1, <1>2, <1>3, <1>4, LenProperties
<1>7. ASSUME NEW k \in 1..n - 1 PROVE ab[k] = IF k < i THEN s[k] ELSE s[k + 1]
  <2>1. ab[k] = IF k <= Len(a) THEN a[k] ELSE b[k - Len(a)]
    BY <1>1, <1>2, <1>3, <1>4
  <2>2. CASE k < i
    BY <1>1, <1>2, <2>1, <2>2
  <2>3. CASE ~(k < i)
    <3>1. k - Len(a) \in 1..n - i /\ i + (k - Len(a)) = k + 1
      BY <1>1, <1>2, <2>3
    <3>2. b[k - Len(a)] = s[k + 1]
      BY <1>3, <3>1
    <3> QED BY <1>2, <2>1, <2>3, <3>2
  <2> QED BY <2>2, <2>3
<1> QED BY <1>1, <1>4, <1>5, <1>6, <1>7 DEF n

\* Jobs of which no two have a name.
OneOfAName(s) == \A i, j \in DOMAIN s : NameOf(s[i]) = NameOf(s[j]) => i = j

\* A deletion takes the Job of the name alone.
LEMMA WithoutOne ==
  ASSUME JobsSound, NEW p \in Scoped, NEW commit
  PROVE  /\ Without(p, commit) \in Seq(Job) /\ OneOfAName(Without(p, commit))
         /\ \A job \in ToSet(jobs[p]) : NameOf(job) # commit => job \in ToSet(Without(p, commit))
<1> DEFINE s == jobs[p]
           at == {i \in DOMAIN s : NameOf(s[i]) = commit}
           h == CHOOSE i \in at : TRUE
           w == Without(p, commit)
<1>1. /\ s \in Seq(Job) /\ OneOfAName(s) /\ Len(s) \in Nat /\ DOMAIN s = 1..Len(s)
      /\ ToSet(s) = {s[i] : i \in 1..Len(s)}
  BY CommandsOf DEF JobsSound, OneOfAName
<1>2. w = IF at = {} THEN s ELSE RemoveAt(s, h)
  BY DEF Without
<1> HIDE DEF w, s
<1>3. CASE at = {}
  BY <1>1, <1>2, <1>3 DEF w, s
<1>4. CASE at # {}
  <2>1. h \in 1..Len(s) /\ NameOf(s[h]) = commit
    <3>1. h \in at
      BY <1>4
    <3> QED BY <1>1, <3>1
  <2> HIDE DEF h
  <2>2. /\ w \in Seq(Job) /\ DOMAIN w = 1..Len(s) - 1
        /\ \A k \in 1..Len(s) - 1 : w[k] = IF k < h THEN s[k] ELSE s[k + 1]
    BY <1>1, <1>2, <1>4, <2>1, RemovedAt
  <2> DEFINE from(k) == IF k < h THEN k ELSE k + 1
  <2>3. \A k \in 1..Len(s) - 1 : from(k) \in 1..Len(s) /\ w[k] = s[from(k)]
    BY <1>1, <2>1, <2>2
  <2>4. \A k, l \in 1..Len(s) - 1 : from(k) = from(l) => k = l
    BY <1>1, <2>1
  <2>5. OneOfAName(w)
    <3> SUFFICES ASSUME NEW k \in 1..Len(s) - 1, NEW l \in 1..Len(s) - 1, NameOf(w[k]) = NameOf(w[l])
                 PROVE  k = l
      BY <2>2 DEF OneOfAName
    <3> HIDE DEF from
    <3>1. from(k) = from(l)
      BY <1>1, <2>3 DEF OneOfAName
    <3> QED BY <2>4, <3>1
  <2>6. ASSUME NEW job \in ToSet(s), NameOf(job) # commit PROVE job \in ToSet(w)
    <3>1. PICK i \in 1..Len(s) : job = s[i]
      BY <1>1
    <3>2. i # h
      BY <2>1, <2>6, <3>1
    <3> DEFINE k == IF i < h THEN i ELSE i - 1
    <3>3. k \in 1..Len(s) - 1 /\ w[k] = s[i]
      BY <1>1, <2>1, <2>2, <3>2
    <3>4. ToSet(w) = {w[j] : j \in 1..Len(s) - 1}
      BY <2>2 DEF ToSet
    <3> HIDE DEF k
    <3> QED BY <3>1, <3>3, <3>4
  <2> QED BY <2>2, <2>5, <2>6 DEF w, s
<1> QED BY <1>3, <1>4

\* A call that has not planned its Jobs yet.
BeforeJobs == EarlyTodos \cup {<<[op |-> "plan"]>>}

LoadCallSound(c) ==
  /\ \/ /\ loadCall[c].todo \in BeforeJobs /\ ~loadCall[c].alone
        /\ loadCall[c].changed => loadCall[c].started
     \/ loadCall[c].todo \in Seq(JobCommand) /\ loadCall[c].todo # <<>>
  /\ loadCall[c].alone => \A d \in LoadCallers \ {c} : loadCall[d] = NoLoad
  /\ OneSourcePerCommit /\ loadCall[c].alone /\ ~loadCall[c].force =>
       SafeTodo(jobs, loadCall[c].todo, loadCall[c].again)

LoadStepsInv ==
  /\ registry \in Sources /\ lockImage \in SchemaImages /\ JobsSound
  /\ loadCall \in [LoadCallers -> LoadCalls \cup {NoLoad}]
  /\ \A c \in LoadCallers : loadCall[c] # NoLoad => LoadCallSound(c)

\* Commands of either kind are commands.
LEMMA AreCommands ==
  /\ BeforeJobs \subseteq Seq(Command)
  /\ Seq(JobCommand) \subseteq Seq(Command)
<1>1. JobCommand \subseteq Command
  BY DEF JobCommand, Command
<1>2. Seq(JobCommand) \subseteq Seq(Command)
  <2> SUFFICES ASSUME NEW s \in Seq(JobCommand) PROVE s \in Seq(Command)
    OBVIOUS
  <2>1. Len(s) \in Nat /\ s \in [1..Len(s) -> JobCommand]
    BY LenProperties
  <2> QED BY <1>1, <2>1, SeqDef
<1> DEFINE a == [op |-> "check"]
           b == [op |-> "plan"]
           c == [op |-> "reconcile"]
           d == [op |-> "deleteSchema"]
<1>3. a \in Command /\ b \in Command /\ c \in Command /\ d \in Command
  BY DEF Command
<1>4. BeforeJobs = {<<d>>, <<c>>, <<d, c>>, <<a, b>>, <<d, a, b>>, <<c, a, b>>, <<d, c, a, b>>, <<b>>}
  BY Zenon DEF BeforeJobs, EarlyTodos
<1> HIDE DEF a, b, c, d
<1>5. <<d>> \in Seq(Command) /\ <<c>> \in Seq(Command) /\ <<b>> \in Seq(Command)
  BY <1>3
<1>6. <<d, c>> \in Seq(Command) /\ <<a, b>> \in Seq(Command)
  BY <1>3
<1>7. <<d, a, b>> \in Seq(Command) /\ <<c, a, b>> \in Seq(Command)
  BY <1>3
<1>8. <<d, c, a, b>> \in Seq(Command)
  BY <1>3
<1> QED BY <1>2, <1>4, <1>5, <1>6, <1>7, <1>8

\* What a call that has not planned its Jobs does next, and after it.
LEMMA BeforeJobsGoOn ==
  ASSUME NEW todo \in BeforeJobs
  PROVE  /\ todo # <<>> /\ Head(todo).op \in {"deleteSchema", "reconcile", "check", "plan"}
         /\ Tail(todo) \in BeforeJobs \cup {<<>>}
<1>1. CASE todo = <<[op |-> "deleteSchema"]>>
  <2>1. Tail(todo) = <<>>
    BY <1>1
  <2> QED BY <1>1, <2>1 DEF BeforeJobs, EarlyTodos
<1>2. CASE todo = <<[op |-> "reconcile"]>>
  <2>1. Tail(todo) = <<>>
    BY <1>2
  <2> QED BY <1>2, <2>1 DEF BeforeJobs, EarlyTodos
<1>3. CASE todo = <<[op |-> "deleteSchema"], [op |-> "reconcile"]>>
  <2>1. Tail(todo) = <<[op |-> "reconcile"]>>
    BY <1>3
  <2> QED BY <1>3, <2>1 DEF BeforeJobs, EarlyTodos
<1>4. CASE todo = <<[op |-> "check"], [op |-> "plan"]>>
  <2>1. Tail(todo) = <<[op |-> "plan"]>>
    BY <1>4
  <2> QED BY <1>4, <2>1 DEF BeforeJobs, EarlyTodos
<1>5. CASE todo = <<[op |-> "deleteSchema"], [op |-> "check"], [op |-> "plan"]>>
  <2>1. Tail(todo) = <<[op |-> "check"], [op |-> "plan"]>>
    BY <1>5
  <2> QED BY <1>5, <2>1 DEF BeforeJobs, EarlyTodos
<1>6. CASE todo = <<[op |-> "reconcile"], [op |-> "check"], [op |-> "plan"]>>
  <2>1. Tail(todo) = <<[op |-> "check"], [op |-> "plan"]>>
    BY <1>6
  <2> QED BY <1>6, <2>1 DEF BeforeJobs, EarlyTodos
<1>7. CASE todo = <<[op |-> "deleteSchema"], [op |-> "reconcile"], [op |-> "check"], [op |-> "plan"]>>
  <2>1. Tail(todo) = <<[op |-> "reconcile"], [op |-> "check"], [op |-> "plan"]>>
    BY <1>7
  <2> QED BY <1>7, <2>1 DEF BeforeJobs, EarlyTodos
<1>8. CASE todo = <<[op |-> "plan"]>>
  BY <1>8
<1> QED BY <1>1, <1>2, <1>3, <1>4, <1>5, <1>6, <1>7, <1>8 DEF BeforeJobs, EarlyTodos

\* What holds of the call that goes on as `next` once the Jobs are as they are
\* after the step.
LoadCallStays(c, next, after) ==
  /\ \/ next.todo \in BeforeJobs /\ ~next.alone /\ (next.changed => next.started)
     \/ next.todo \in Seq(JobCommand) /\ next.todo # <<>>
  /\ next.alone => \A d \in LoadCallers \ {c} : loadCall[d] = NoLoad
  /\ OneSourcePerCommit /\ next.alone /\ ~next.force => SafeTodo(after, next.todo, next.again)

\* A step of a call keeps the invariant when it leaves that call in order: the
\* other calls are not alone.
LEMMA LoadCallMoves ==
  ASSUME LoadStepsInv, NEW c \in LoadCallers, loadCall[c] # NoLoad,
         NEW next \in LoadCalls \cup {NoLoad}, loadCall' = [loadCall EXCEPT ![c] = next],
         JobsSound', UNCHANGED <<registry, lockImage>>,
         next # NoLoad => LoadCallStays(c, next, jobs')
  PROVE  LoadStepsInv'
<1>1. loadCall \in [LoadCallers -> LoadCalls \cup {NoLoad}]
  BY DEF LoadStepsInv
<1>2. loadCall' \in [LoadCallers -> LoadCalls \cup {NoLoad}] /\ loadCall'[c] = next
      /\ \A d \in LoadCallers \ {c} : loadCall'[d] = loadCall[d]
  BY <1>1
<1>3. registry' \in Sources /\ lockImage' \in SchemaImages
  BY DEF LoadStepsInv
<1>4. ASSUME NEW d \in LoadCallers, loadCall'[d] # NoLoad PROVE LoadCallSound(d)'
  <2>1. CASE d = c
    BY <1>2, <1>4, <2>1 DEF LoadCallStays, LoadCallSound
  <2>2. CASE d # c
    <3>1. loadCall'[d] = loadCall[d] /\ loadCall[d] # NoLoad
      BY <1>2, <1>4, <2>2
    <3>2. LoadCallSound(d)
      BY <3>1 DEF LoadStepsInv
    <3>3. ~loadCall[d].alone
      BY <2>2, <3>2 DEF LoadCallSound
    <3> QED BY <3>1, <3>2, <3>3 DEF LoadCallSound
  <2> QED BY <2>1, <2>2
<1> QED BY <1>2, <1>3, <1>4 DEF LoadStepsInv

\* A call that ends leaves the others as they are.
LEMMA LoadCallLeaves ==
  ASSUME LoadStepsInv, NEW c \in LoadCallers, loadCall[c] # NoLoad, NEW how, LoadCallEnds(c, how),
         JobsSound', UNCHANGED <<registry, lockImage>>
  PROVE  LoadStepsInv'
<1>1. loadCall' = [loadCall EXCEPT ![c] = NoLoad] /\ NoLoad \in LoadCalls \cup {NoLoad}
  BY DEF LoadCallEnds
<1> QED BY <1>1, LoadCallMoves

\* The Jobs change on their own, and none that is complete goes.
LEMMA LoadCallsWait ==
  ASSUME LoadStepsInv, UNCHANGED loadCall, JobsSound', registry' \in Sources, lockImage' \in SchemaImages,
         \A p \in Scoped : \A job \in ToSet(jobs[p]) : job.phase = "complete" => job \in ToSet(jobs'[p])
  PROVE  LoadStepsInv'
<1>1. ASSUME NEW c \in LoadCallers, loadCall'[c] # NoLoad PROVE LoadCallSound(c)'
  <2>1. loadCall[c] # NoLoad /\ LoadCallSound(c) /\ loadCall'[c] = loadCall[c]
    BY <1>1 DEF LoadStepsInv
  <2>2. SafeTodo(jobs, loadCall[c].todo, loadCall[c].again) => SafeTodo(jobs', loadCall[c].todo, loadCall[c].again)
    <3>1. CASE loadCall[c].todo \in Seq(JobCommand)
      BY <3>1, SafeMeanwhile
    <3>2. CASE loadCall[c].todo \in BeforeJobs
      <4>1. ~(\E i \in DOMAIN loadCall[c].todo : loadCall[c].todo[i].op = "delete")
        BY <3>2 DEF BeforeJobs, EarlyTodos
      <4> QED BY <4>1 DEF SafeTodo
    <3> QED BY <2>1, <3>1, <3>2 DEF LoadCallSound
  <2> QED BY <2>1, <2>2 DEF LoadCallSound
<1> QED BY <1>1 DEF LoadStepsInv

\* Jobs that are as they were.
LEMMA JobsAsTheyWere ==
  ASSUME JobsSound, UNCHANGED jobs
  PROVE  JobsSound' /\ \A p \in Scoped : ToSet(jobs'[p]) = ToSet(jobs[p])
BY DEF JobsSound, NameOf

\* A Job that is created is the only one of its name.
LEMMA JobsAfterCreate ==
  ASSUME JobsSound, NEW p \in Scoped, NEW pinned \in Sources, Named(p, CommitOf[pinned]) = {},
         jobs' = [jobs EXCEPT ![p] = Append(@, [source |-> pinned, phase |-> "running"])]
  PROVE  /\ JobsSound'
         /\ \A q \in Scoped : ToSet(jobs[q]) \subseteq ToSet(jobs'[q])
<1> DEFINE s == jobs[p]
           new == [source |-> pinned, phase |-> "running"]
           t == Append(s, new)
<1>1. new \in Job /\ NameOf(new) = CommitOf[pinned]
  BY DEF Job, JobPhases, NameOf
<1>2. /\ s \in Seq(Job) /\ Len(s) \in Nat /\ DOMAIN s = 1..Len(s) /\ \A i \in 1..Len(s) : s[i] \in Job
      /\ ToSet(s) = {s[i] : i \in 1..Len(s)}
  BY CommandsOf DEF JobsSound
<1>3. \A i \in 1..Len(s) : NameOf(s[i]) # CommitOf[pinned]
  BY <1>2 DEF Named
<1>4. jobs' = [jobs EXCEPT ![p] = t] /\ jobs \in [Scoped -> Seq(Job)]
  BY DEF JobsSound
<1> HIDE DEF new
<1>5. /\ t \in Seq(Job) /\ Len(t) = Len(s) + 1 /\ t[Len(s) + 1] = new
      /\ \A i \in 1..Len(s) : t[i] = s[i]
  BY <1>1, <1>2, AppendProperties
<1> HIDE DEF t
<1>6. DOMAIN t = 1..Len(s) + 1 /\ ToSet(t) = {t[i] : i \in 1..Len(s) + 1}
  BY <1>2, <1>5, CommandsOf
<1>7. /\ jobs' \in [Scoped -> Seq(Job)] /\ jobs'[p] = t
      /\ \A q \in Scoped \ {p} : jobs'[q] = jobs[q]
  BY <1>4, <1>5
<1>8. ASSUME NEW i \in 1..Len(s) + 1, NEW j \in 1..Len(s) + 1, NameOf(t[i]) = NameOf(t[j]) PROVE i = j
  <2>1. \A k \in 1..Len(s) + 1 : k \in 1..Len(s) \/ k = Len(s) + 1
    BY <1>2
  <2>2. \A k, l \in 1..Len(s) : NameOf(s[k]) = NameOf(s[l]) => k = l
    BY <1>2 DEF JobsSound
  <2> QED BY <1>1, <1>3, <1>5, <1>8, <2>1, <2>2
<1>9. ASSUME NEW q \in Scoped
      PROVE  /\ \A i, j \in DOMAIN jobs'[q] : NameOf(jobs'[q][i]) = NameOf(jobs'[q][j]) => i = j
             /\ ToSet(jobs[q]) \subseteq ToSet(jobs'[q])
  <2>1. CASE q = p
    <3>1. \A i \in 1..Len(s) : i \in 1..Len(s) + 1 /\ t[i] = s[i]
      BY <1>2, <1>5
    <3>2. ToSet(s) \subseteq ToSet(t)
      BY <1>2, <1>6, <3>1
    <3>3. \A i, j \in DOMAIN t : NameOf(t[i]) = NameOf(t[j]) => i = j
      BY <1>6, <1>8
    <3> HIDE DEF s
    <3> QED BY <1>7, <2>1, <3>2, <3>3 DEF s
  <2>2. CASE q # p
    BY <1>7, <2>2 DEF JobsSound
  <2> QED BY <2>1, <2>2
<1> QED BY <1>7, <1>9 DEF JobsSound, NameOf

\* A Job that ends keeps its name, and the complete ones stay.
LEMMA JobsAfterEnd ==
  ASSUME JobsSound, NEW p \in Scoped, NEW phase \in {"complete", "failed"}, JobEnds(p, phase)
  PROVE  /\ JobsSound'
         /\ \A q \in Scoped : \A job \in ToSet(jobs[q]) : job.phase = "complete" => job \in ToSet(jobs'[q])
<1>1. PICK h \in DOMAIN jobs[p] : jobs[p][h].phase = "running" /\ jobs' = [jobs EXCEPT ![p][h].phase = phase]
  BY DEF JobEnds
<1> DEFINE s == jobs[p]
           over == [s[h] EXCEPT !.phase = phase]
           t == [s EXCEPT ![h] = over]
<1>2. /\ s \in Seq(Job) /\ Len(s) \in Nat /\ DOMAIN s = 1..Len(s) /\ \A i \in 1..Len(s) : s[i] \in Job
      /\ ToSet(s) = {s[i] : i \in 1..Len(s)}
  BY CommandsOf DEF JobsSound
<1>3. over \in Job /\ NameOf(over) = NameOf(s[h])
  BY <1>1, <1>2 DEF Job, JobPhases, NameOf
<1>4. jobs' = [jobs EXCEPT ![p] = t] /\ jobs \in [Scoped -> Seq(Job)]
  BY <1>1 DEF JobsSound
<1> HIDE DEF over
<1>5. /\ t \in Seq(Job) /\ DOMAIN t = 1..Len(s) /\ t[h] = over /\ h \in 1..Len(s)
      /\ \A i \in 1..Len(s) \ {h} : t[i] = s[i]
  <2>1. t \in [1..Len(s) -> Job] /\ t[h] = over /\ h \in 1..Len(s) /\ \A i \in 1..Len(s) \ {h} : t[i] = s[i]
    BY <1>1, <1>2, <1>3, LenProperties
  <2> HIDE DEF t
  <2> QED BY <1>2, <2>1, PositionsAreSeq
<1>6. ToSet(t) = {t[i] : i \in 1..Len(s)}
  BY <1>5 DEF ToSet
<1> HIDE DEF t
<1>7. /\ jobs' \in [Scoped -> Seq(Job)] /\ jobs'[p] = t
      /\ \A q \in Scoped \ {p} : jobs'[q] = jobs[q]
  BY <1>4, <1>5
<1>8. \A i \in 1..Len(s) : NameOf(t[i]) = NameOf(s[i])
  BY <1>3, <1>5
<1>9. ASSUME NEW q \in Scoped
      PROVE  /\ \A i, j \in DOMAIN jobs'[q] : NameOf(jobs'[q][i]) = NameOf(jobs'[q][j]) => i = j
             /\ \A job \in ToSet(jobs[q]) : job.phase = "complete" => job \in ToSet(jobs'[q])
  <2>1. CASE q = p
    <3>1. \A i, j \in 1..Len(s) : NameOf(s[i]) = NameOf(s[j]) => i = j
      BY <1>2 DEF JobsSound
    <3>2. ASSUME NEW job \in ToSet(s), job.phase = "complete" PROVE job \in ToSet(t)
      <4>1. PICK i \in 1..Len(s) : job = s[i]
        BY <1>2
      <4>2. i # h
        BY <1>1, <3>2, <4>1
      <4> QED BY <1>5, <1>6, <4>1, <4>2
    <3> QED BY <1>5, <1>7, <1>8, <2>1, <3>1, <3>2
  <2>2. CASE q # p
    BY <1>7, <2>2 DEF JobsSound
  <2> QED BY <2>1, <2>2
<1> QED BY <1>7, <1>9 DEF JobsSound, NameOf

\* A Job that is deleted takes none of another name with it.
LEMMA JobsAfterDelete ==
  ASSUME JobsSound, NEW p \in Scoped, NEW commit,
         jobs' = [jobs EXCEPT ![p] = Without(p, commit)]
  PROVE  /\ JobsSound'
         /\ \A q \in Scoped : \A job \in ToSet(jobs[q]) :
              ~(q = p /\ NameOf(job) = commit) => job \in ToSet(jobs'[q])
<1> DEFINE t == Without(p, commit)
<1>1. /\ t \in Seq(Job) /\ OneOfAName(t)
      /\ \A job \in ToSet(jobs[p]) : NameOf(job) # commit => job \in ToSet(t)
  BY WithoutOne
<1>2. jobs' = [jobs EXCEPT ![p] = t] /\ jobs \in [Scoped -> Seq(Job)]
  BY DEF JobsSound
<1> HIDE DEF t
<1>3. /\ jobs' \in [Scoped -> Seq(Job)] /\ jobs'[p] = t
      /\ \A q \in Scoped \ {p} : jobs'[q] = jobs[q]
  BY <1>1, <1>2
<1>4. ASSUME NEW q \in Scoped
      PROVE  \A i, j \in DOMAIN jobs'[q] : NameOf(jobs'[q][i]) = NameOf(jobs'[q][j]) => i = j
  <2>1. CASE q = p
    BY <1>1, <1>3, <2>1 DEF OneOfAName
  <2>2. CASE q # p
    BY <1>3, <2>2 DEF JobsSound
  <2> QED BY <2>1, <2>2
<1>5. JobsSound'
  BY <1>3, <1>4 DEF JobsSound, NameOf
<1> QED BY <1>1, <1>3, <1>5

\* A call under way.
LEMMA LoadCallTyped ==
  ASSUME LoadStepsInv, NEW c \in LoadCallers, loadCall[c] # NoLoad
  PROVE  loadCall[c] \in LoadCalls /\ LoadCallSound(c)
BY DEF LoadStepsInv

\* A call that has not planned its Jobs.
LEMMA EarlyCall ==
  ASSUME LoadStepsInv, NEW c \in LoadCallers, loadCall[c] # NoLoad,
         NextOp(c) \notin {"create", "await", "delete"}
  PROVE  /\ loadCall[c].todo \in BeforeJobs /\ ~loadCall[c].alone
         /\ loadCall[c].changed => loadCall[c].started
<1> DEFINE todo == loadCall[c].todo
<1>1. LoadCallSound(c)
  BY LoadCallTyped
<1>2. ~(todo \in Seq(JobCommand) /\ todo # <<>>)
  <2>1. todo \in Seq(JobCommand) /\ todo # <<>> => Head(todo) \in JobCommand
    BY CommandsLeft
  <2> QED BY <2>1, JobCommandIs DEF NextOp
<1> QED BY <1>1, <1>2 DEF LoadCallSound

\* A call that has not planned its Jobs goes on with what it had left.
LEMMA EarlyCallGoesOn ==
  ASSUME LoadStepsInv, NEW c \in LoadCallers, loadCall[c] # NoLoad, UNCHANGED <<registry, lockImage, jobs>>,
         NextOp(c) \in {"check", "reconcile"}, GoesOn(c, TodoAfter(c))
  PROVE  LoadStepsInv'
<1> DEFINE call == loadCall[c]
           next == [call EXCEPT !.todo = TodoAfter(c)]
<1>1. call \in LoadCalls /\ LoadCallSound(c)
  BY LoadCallTyped
<1>2. JobsSound'
  BY JobsAsTheyWere DEF LoadStepsInv
<1>3. call.todo \in BeforeJobs
  BY EarlyCall
<1>4. CASE TodoAfter(c) = <<>>
  BY <1>2, <1>4, LoadCallLeaves DEF GoesOn
<1>5. CASE TodoAfter(c) # <<>>
  <2>1. TodoAfter(c) \in BeforeJobs
    BY <1>3, <1>5, BeforeJobsGoOn DEF TodoAfter
  <2>2. next \in LoadCalls
    <3>1. TodoAfter(c) \in Seq(Command)
      BY <2>1, AreCommands
    <3> HIDE DEF call
    <3> QED BY <1>1, <3>1 DEF LoadCalls
  <2>3. next.todo = TodoAfter(c) /\ next.alone = call.alone /\ next.changed = call.changed /\ next.started = call.started
    BY <1>1 DEF LoadCalls
  <2>4. loadCall' = [loadCall EXCEPT ![c] = next]
    BY <1>5 DEF GoesOn
  <2>5. ~call.alone /\ (call.changed => call.started)
    BY EarlyCall
  <2> HIDE DEF next
  <2>6. LoadCallStays(c, next, jobs')
    BY <2>1, <2>3, <2>5 DEF LoadCallStays
  <2> QED BY <1>2, <2>2, <2>4, <2>6, LoadCallMoves
<1> QED BY <1>4, <1>5

\* The commands of a plan that has begun.
LEMMA PlannedCall ==
  ASSUME LoadStepsInv, NEW c \in LoadCallers, loadCall[c] # NoLoad, NextOp(c) \in {"create", "await", "delete"}
  PROVE  /\ loadCall[c].todo \in Seq(JobCommand) /\ loadCall[c].todo # <<>>
         /\ Head(loadCall[c].todo) \in JobCommand
         /\ Tail(loadCall[c].todo) \in Seq(JobCommand)
<1>1. LoadCallSound(c)
  BY LoadCallTyped
<1>2. loadCall[c].todo \notin BeforeJobs
  BY BeforeJobsGoOn DEF NextOp
<1> QED BY <1>1, <1>2, CommandsLeft DEF LoadCallSound

\* A step of a plan leaves what is left of it safe, when no complete Job goes but
\* the one that is deleted and a Job that was waited for is complete.
LEMMA PlannedCallGoesOn ==
  ASSUME LoadStepsInv, NEW c \in LoadCallers, loadCall[c] # NoLoad, NextOp(c) \in {"create", "await", "delete"},
         UNCHANGED <<registry, lockImage>>, JobsSound', GoesOn(c, TodoAfter(c)) \/ HasChanged(c, TodoAfter(c)),
         \A p \in Scoped : \A job \in ToSet(jobs[p]) :
           job.phase = "complete" /\ ~(IsDelete(Head(loadCall[c].todo), p) /\ Head(loadCall[c].todo).commit = NameOf(job))
             => job \in ToSet(jobs'[p]),
         NextOp(c) = "await" => \E job \in ToSet(jobs'[Head(loadCall[c].todo).partition]) :
           job.phase = "complete" /\ NameOf(job) = Head(loadCall[c].todo).commit
  PROVE  LoadStepsInv'
<1> DEFINE call == loadCall[c]
           todo == call.todo
<1>1. call \in LoadCalls /\ LoadCallSound(c)
  BY LoadCallTyped
<1>2. todo \in Seq(JobCommand) /\ todo # <<>> /\ Tail(todo) \in Seq(JobCommand)
  BY PlannedCall
<1>3. CASE Tail(todo) = <<>>
  BY <1>3, LoadCallLeaves DEF GoesOn, HasChanged, TodoAfter
<1>4. CASE Tail(todo) # <<>>
  <2>1. ASSUME NEW next \in LoadCalls, loadCall' = [loadCall EXCEPT ![c] = next], next.todo = Tail(todo),
               next.alone = call.alone, next.force = call.force, next.again = call.again
        PROVE  LoadStepsInv'
    <3>1. OneSourcePerCommit /\ call.alone /\ ~call.force => SafeTodo(jobs, todo, call.again)
      BY <1>1 DEF LoadCallSound
    <3>2. ASSUME OneSourcePerCommit, call.alone, ~call.force PROVE SafeTodo(jobs', Tail(todo), call.again)
      <4>1. SafeTodo(jobs, todo, call.again)
        BY <3>1, <3>2
      <4>2. /\ \A p \in Scoped : \A job \in ToSet(jobs[p]) :
                 job.phase = "complete" /\ ~(IsDelete(Head(todo), p) /\ Head(todo).commit = NameOf(job))
                   => job \in ToSet(jobs'[p])
            /\ Head(todo).op = "await" => \E job \in ToSet(jobs'[Head(todo).partition]) :
                 job.phase = "complete" /\ NameOf(job) = Head(todo).commit
        BY DEF NextOp
      <4> HIDE DEF todo
      <4> QED BY <1>2, <4>1, <4>2, SafeGoesOn
    <3>3. call.alone => \A d \in LoadCallers \ {c} : loadCall[d] = NoLoad
      BY <1>1 DEF LoadCallSound
    <3>4. LoadCallStays(c, next, jobs')
      BY <1>2, <1>4, <2>1, <3>2, <3>3 DEF LoadCallStays
    <3> QED BY <2>1, <3>4, LoadCallMoves
  <2>2. CASE GoesOn(c, TodoAfter(c))
    <3> DEFINE next == [call EXCEPT !.todo = Tail(todo)]
    <3>1. next \in LoadCalls
      <4>1. Tail(todo) \in Seq(Command)
        BY <1>2, AreCommands
      <4> HIDE DEF call, todo
      <4> QED BY <1>1, <4>1 DEF LoadCalls
    <3>2. next.todo = Tail(todo) /\ next.alone = call.alone /\ next.force = call.force /\ next.again = call.again
      BY <1>1 DEF LoadCalls
    <3>3. loadCall' = [loadCall EXCEPT ![c] = next]
      BY <1>4, <2>2 DEF GoesOn, TodoAfter
    <3> HIDE DEF next
    <3> QED BY <2>1, <3>1, <3>2, <3>3
  <2>3. CASE HasChanged(c, TodoAfter(c))
    <3> DEFINE next == [call EXCEPT !.todo = Tail(todo), !.changed = TRUE]
    <3>1. next \in LoadCalls
      <4>1. Tail(todo) \in Seq(Command)
        BY <1>2, AreCommands
      <4> HIDE DEF call, todo
      <4> QED BY <1>1, <4>1 DEF LoadCalls
    <3>2. next.todo = Tail(todo) /\ next.alone = call.alone /\ next.force = call.force /\ next.again = call.again
      BY <1>1 DEF LoadCalls
    <3>3. loadCall' = [loadCall EXCEPT ![c] = next]
      BY <1>4, <2>3 DEF HasChanged, TodoAfter
    <3> HIDE DEF next
    <3> QED BY <2>1, <3>1, <3>2, <3>3
  <2> QED BY <2>2, <2>3
<1> QED BY <1>3, <1>4

\* Every step of a call keeps the invariant.
LEMMA LoadStepKeeps ==
  ASSUME LoadStepsInv, NEW c \in LoadCallers, loadCall[c] # NoLoad, LoadStep(c)
  PROVE  LoadStepsInv'
<1> DEFINE call == loadCall[c]
           todo == call.todo
<1>1. call \in LoadCalls /\ LoadCallSound(c)
  BY LoadCallTyped
<1>2. UNCHANGED jobs => JobsSound' /\ \A p \in Scoped : ToSet(jobs'[p]) = ToSet(jobs[p])
  BY JobsAsTheyWere DEF LoadStepsInv
<1>3. CASE CheckRequired(c)
  <2>1. UNCHANGED <<registry, lockImage, jobs>> /\ NextOp(c) = "check"
    BY <1>3 DEF CheckRequired, loadedVars, LoadAt
  <2>2. GoesOn(c, TodoAfter(c)) \/ Refuse(c)
    BY <1>3 DEF CheckRequired
  <2> QED BY <1>2, <2>1, <2>2, EarlyCallGoesOn, LoadCallLeaves DEF Refuse
<1>4. CASE PlanJobs(c)
  <2>1. UNCHANGED <<registry, lockImage, jobs>> /\ NextOp(c) = "plan"
    BY <1>4 DEF PlanJobs, loadedVars, LoadAt
  <2>2. CASE LoadCallEnds(c, "ok")
    BY <1>2, <2>1, <2>2, LoadCallLeaves
  <2>3. CASE ~LoadCallEnds(c, "ok")
    <3> DEFINE alone == \A d \in LoadCallers \ {c} : loadCall[d] = NoLoad
               next == [call EXCEPT !.todo = JobCommands(call), !.again = Recreated(call), !.alone = alone]
    <3>1. loadCall' = [loadCall EXCEPT ![c] = next] /\ JobCommands(call) # <<>>
      BY <1>4, <2>3 DEF PlanJobs
    <3>2. /\ JobCommands(call) \in Seq(JobCommand)
          /\ ~call.force /\ OneSourcePerCommit => SafeTodo(jobs, JobCommands(call), Recreated(call))
      BY <1>1, JobPlanSafe DEF LoadStepsInv
    <3>3. next \in LoadCalls
      <4>1. alone \in BOOLEAN
        OBVIOUS
      <4>2. JobCommands(call) \in Seq(Command) /\ Recreated(call) \subseteq Scoped
        BY <3>2, AreCommands DEF Recreated
      <4> HIDE DEF alone, call
      <4> QED BY <1>1, <4>1, <4>2 DEF LoadCalls
    <3>4. /\ next.todo = JobCommands(call) /\ next.again = Recreated(call) /\ next.force = call.force
          /\ next.alone <=> alone
      BY <1>1 DEF LoadCalls
    <3> HIDE DEF next
    <3>5. LoadCallStays(c, next, jobs')
      BY <2>1, <3>1, <3>2, <3>4 DEF LoadCallStays
    <3> QED BY <1>2, <2>1, <3>1, <3>3, <3>5, LoadCallMoves
  <2> QED BY <2>2, <2>3
<1>5. CASE DeleteSchemaJob(c)
  <2>1. UNCHANGED <<registry, lockImage, jobs>> /\ NextOp(c) = "deleteSchema"
    BY <1>5 DEF DeleteSchemaJob, LoadAt
  <2>2. CASE LoadCallEnds(c, "ok")
    BY <1>2, <2>1, <2>2, LoadCallLeaves
  <2>3. CASE ~LoadCallEnds(c, "ok")
    <3> DEFINE next == [call EXCEPT !.todo = TodoAfter(c), !.started = TRUE, !.changed = TRUE]
    <3>1. loadCall' = [loadCall EXCEPT ![c] = next] /\ TodoAfter(c) # <<>>
      BY <1>5, <2>3 DEF DeleteSchemaJob
    <3>3. todo \in BeforeJobs /\ ~call.alone
      BY <2>1, EarlyCall
    <3>4. TodoAfter(c) \in BeforeJobs
      BY <3>1, <3>3, BeforeJobsGoOn DEF TodoAfter
    <3>5. next \in LoadCalls
      <4>1. TodoAfter(c) \in Seq(Command)
        BY <3>4, AreCommands
      <4> HIDE DEF call
      <4> QED BY <1>1, <4>1 DEF LoadCalls
    <3>6. next.todo = TodoAfter(c) /\ next.alone = call.alone /\ next.started
      BY <1>1 DEF LoadCalls
    <3> HIDE DEF next
    <3>7. LoadCallStays(c, next, jobs')
      BY <3>3, <3>4, <3>6 DEF LoadCallStays
    <3> QED BY <1>2, <2>1, <3>1, <3>5, <3>7, LoadCallMoves
  <2> QED BY <2>2, <2>3
<1>6. CASE Reconciled(c)
  <2>1. UNCHANGED <<registry, lockImage, jobs>> /\ NextOp(c) = "reconcile"
    BY <1>6 DEF Reconciled, loadedVars, LoadAt
  <2>2. GoesOn(c, TodoAfter(c)) \/ LoadCallEnds(c, "error")
    BY <1>6 DEF Reconciled
  <2> QED BY <1>2, <2>1, <2>2, EarlyCallGoesOn, LoadCallLeaves
<1>7. CASE DeleteJob(c)
  <2> DEFINE x == Head(todo)
  <2>1. UNCHANGED <<registry, lockImage>> /\ NextOp(c) = "delete" /\ HasChanged(c, TodoAfter(c))
        /\ jobs' = [jobs EXCEPT ![x.partition] = Without(x.partition, x.commit)]
    BY <1>7 DEF DeleteJob, LoadAt
  <2>2. x \in JobCommand /\ x.op = "delete"
    BY <2>1, PlannedCall DEF NextOp
  <2>3. x.partition \in Scoped
    BY <2>2, JobCommandIs
  <2>4. /\ JobsSound'
        /\ \A q \in Scoped : \A job \in ToSet(jobs[q]) :
             ~(q = x.partition /\ NameOf(job) = x.commit) => job \in ToSet(jobs'[q])
    <3>1. JobsSound
      BY DEF LoadStepsInv
    <3> HIDE DEF x
    <3> QED BY <2>1, <2>3, <3>1, JobsAfterDelete
  <2>5. \A p \in Scoped : \A job \in ToSet(jobs[p]) :
           job.phase = "complete" /\ ~(IsDelete(x, p) /\ x.commit = NameOf(job)) => job \in ToSet(jobs'[p])
    BY <2>2, <2>4 DEF IsDelete
  <2> QED BY <2>1, <2>4, <2>5, PlannedCallGoesOn
<1>8. CASE CreateJob(c)
  <2> DEFINE p == Head(todo).partition
             pinned == call.source
             named == Named(p, CommitOf[pinned])
  <2>1. UNCHANGED <<registry, lockImage>> /\ NextOp(c) = "create"
    BY <1>8 DEF CreateJob, LoadAt
  <2>2. Head(todo) \in JobCommand /\ ~IsDelete(Head(todo), p)
    BY <2>1, PlannedCall DEF NextOp, IsDelete
  <2>3. p \in Scoped /\ pinned \in Sources
    BY <1>1, <2>2, JobCommandIs DEF LoadCalls
  <2>4. \/ /\ named = {} /\ HasChanged(c, TodoAfter(c))
           /\ jobs' = [jobs EXCEPT ![p] = Append(@, [source |-> pinned, phase |-> "running"])]
        \/ UNCHANGED jobs /\ (GoesOn(c, TodoAfter(c)) \/ LoadCallEnds(c, "error"))
    BY <1>8 DEF CreateJob
  <2>5. CASE /\ named = {} /\ HasChanged(c, TodoAfter(c))
             /\ jobs' = [jobs EXCEPT ![p] = Append(@, [source |-> pinned, phase |-> "running"])]
    <3>1. JobsSound' /\ \A q \in Scoped : ToSet(jobs[q]) \subseteq ToSet(jobs'[q])
      <4>1. JobsSound
        BY DEF LoadStepsInv
      <4> HIDE DEF p, pinned
      <4> QED BY <2>3, <2>5, <4>1, JobsAfterCreate
    <3> QED BY <2>1, <2>5, <3>1, PlannedCallGoesOn
  <2>6. CASE UNCHANGED jobs /\ GoesOn(c, TodoAfter(c))
    BY <1>2, <2>1, <2>6, PlannedCallGoesOn
  <2>7. CASE UNCHANGED jobs /\ LoadCallEnds(c, "error")
    BY <1>2, <2>1, <2>7, LoadCallLeaves
  <2> QED BY <2>4, <2>5, <2>6, <2>7
<1>9. CASE AwaitJob(c)
  <2> DEFINE a == Head(todo)
             named == Named(a.partition, a.commit)
  <2>1. UNCHANGED <<registry, lockImage, jobs>> /\ NextOp(c) = "await"
    BY <1>9 DEF AwaitJob, LoadAt, loadedVars
  <2>2. \/ LoadCallEnds(c, "error")
        \/ /\ \E job \in named : job.phase = "complete"
           /\ GoesOn(c, TodoAfter(c))
    BY <1>9 DEF AwaitJob
  <2>3. CASE LoadCallEnds(c, "error")
    BY <1>2, <2>1, <2>3, LoadCallLeaves
  <2>4. CASE (\E job \in named : job.phase = "complete") /\ GoesOn(c, TodoAfter(c))
    <3>1. \E job \in ToSet(jobs[a.partition]) : job.phase = "complete" /\ NameOf(job) = a.commit
      BY <2>4 DEF Named
    <3>2. a.partition \in Scoped
      BY <2>1, PlannedCall, JobCommandIs
    <3> QED BY <1>2, <2>1, <2>4, <3>1, <3>2, PlannedCallGoesOn
  <2> QED BY <2>2, <2>3, <2>4
<1> QED BY <1>3, <1>4, <1>5, <1>6, <1>7, <1>8, <1>9 DEF LoadStep

\* The mark of no call is none of the calls.
LEMMA NoLoadIsNoCall == NoLoad \notin LoadCalls
BY LoadAssumption

\* No load has begun, and nothing was created.
LEMMA LoadStepsInitInv == LoadInit => LoadStepsInv
<1> SUFFICES ASSUME LoadInit PROVE LoadStepsInv
  OBVIOUS
<1>1. registry \in Sources /\ lockImage \in SchemaImages
  BY LoadAssumption DEF LoadInit
<1>2. JobsSound
  BY EmptySeq DEF LoadInit, JobsSound
<1> QED BY <1>1, <1>2 DEF LoadInit, LoadStepsInv

\* A call that begins is not alone any more, and neither are the others.
LEMMA LoadStarts ==
  ASSUME LoadStepsInv, NEW c \in LoadCallers, StartLoad(c)
  PROVE  /\ LoadStepsInv' /\ UNCHANGED jobs
         /\ \A d \in LoadCallers : loadCall[d] # NoLoad => loadCall'[d] # NoLoad
<1>1. UNCHANGED <<registry, lockImage, jobs>> /\ loadCall[c] = NoLoad
  BY DEF StartLoad, loadedVars
<1>2. JobsSound' /\ \A p \in Scoped : ToSet(jobs'[p]) = ToSet(jobs[p])
  BY <1>1, JobsAsTheyWere DEF LoadStepsInv
<1>3. registry' \in Sources /\ lockImage' \in SchemaImages
  BY <1>1 DEF LoadStepsInv
<1>4. PICK force \in BOOLEAN, wait \in BOOLEAN, schemas \in BOOLEAN, load \in BOOLEAN :
        LET todo == (IF schemas THEN SchemaCommands(force, wait) ELSE <<>>)
                      \o IF load THEN <<[op |-> "check"], [op |-> "plan"]>> ELSE <<>>
        IN  /\ schemas \/ load
            /\ IF force THEN Disturb ELSE UNCHANGED disturbances
            /\ IF todo = <<>>
                 THEN said' = "ok" /\ UNCHANGED loadCall
                 ELSE /\ loadCall' = [d \in LoadCallers |->
                           IF d # c THEN Overtaken(d) ELSE
                           [source |-> registry, image |-> lockImage, force |-> force,
                            wait |-> wait, started |-> FALSE, changed |-> FALSE,
                            alone |-> FALSE, again |-> {}, todo |-> todo]]
                      /\ said' = "nothing"
  BY Zenon DEF StartLoad
<1> DEFINE todo == (IF schemas THEN SchemaCommands(force, wait) ELSE <<>>)
                     \o IF load THEN <<[op |-> "check"], [op |-> "plan"]>> ELSE <<>>
           new == [source |-> registry, image |-> lockImage, force |-> force,
                   wait |-> wait, started |-> FALSE, changed |-> FALSE, alone |-> FALSE,
                   again |-> {}, todo |-> todo]
<1>5. todo \in EarlyTodos \union {<<>>}
  BY StartsEarly
<1> HIDE DEF todo
<1>6. CASE UNCHANGED loadCall
  BY <1>1, <1>2, <1>3, <1>6, LoadCallsWait
<1>7. CASE todo # <<>> /\ loadCall' = [d \in LoadCallers |-> IF d # c THEN Overtaken(d) ELSE new]
  <2>1. todo \in BeforeJobs /\ todo \in Seq(Command)
    BY <1>5, <1>7, AreCommands DEF BeforeJobs
  <2>2. new \in LoadCalls /\ new.todo = todo /\ ~new.alone /\ ~new.changed
    BY <2>1, Zenon DEF LoadCalls, LoadStepsInv
  <2> HIDE DEF new
  <2>3. ASSUME NEW d \in LoadCallers
        PROVE  /\ Overtaken(d) \in LoadCalls \cup {NoLoad}
               /\ loadCall[d] = NoLoad => Overtaken(d) = NoLoad
               /\ loadCall[d] # NoLoad =>
                    /\ Overtaken(d) # NoLoad /\ ~Overtaken(d).alone
                    /\ Overtaken(d).todo = loadCall[d].todo /\ Overtaken(d).changed = loadCall[d].changed
                    /\ Overtaken(d).started = loadCall[d].started
    <3>1. CASE loadCall[d] = NoLoad
      BY <3>1 DEF Overtaken
    <3>2. CASE loadCall[d] # NoLoad
      <4>1. loadCall[d] \in LoadCalls /\ Overtaken(d) = [loadCall[d] EXCEPT !.alone = FALSE]
        BY <3>2, LoadCallTyped DEF Overtaken
      <4> DEFINE over == [loadCall[d] EXCEPT !.alone = FALSE]
      <4>2. /\ over \in LoadCalls /\ ~over.alone /\ over.todo = loadCall[d].todo
            /\ over.changed = loadCall[d].changed /\ over.started = loadCall[d].started
        BY <4>1 DEF LoadCalls
      <4> HIDE DEF over
      <4>3. over # NoLoad
        BY <4>2, NoLoadIsNoCall
      <4> QED BY <3>2, <4>1, <4>2, <4>3 DEF over
    <3> QED BY <3>1, <3>2
  <2>4. /\ loadCall' \in [LoadCallers -> LoadCalls \cup {NoLoad}] /\ loadCall'[c] = new
        /\ \A d \in LoadCallers \ {c} : loadCall'[d] = Overtaken(d)
    BY <1>7, <2>2, <2>3
  <2>5. ASSUME NEW d \in LoadCallers, loadCall'[d] # NoLoad PROVE LoadCallSound(d)'
    <3>1. CASE d = c
      BY <2>1, <2>2, <2>4, <3>1 DEF LoadCallSound
    <3>2. CASE d # c
      <4>1. loadCall[d] # NoLoad
        BY <2>3, <2>4, <2>5, <3>2
      <4>2. LoadCallSound(d) /\ loadCall'[d] = Overtaken(d)
        BY <2>4, <3>2, <4>1 DEF LoadStepsInv
      <4>3. /\ ~loadCall'[d].alone /\ loadCall'[d].todo = loadCall[d].todo
            /\ loadCall'[d].changed = loadCall[d].changed /\ loadCall'[d].started = loadCall[d].started
        BY <2>3, <4>1, <4>2
      <4> QED BY <4>2, <4>3 DEF LoadCallSound
    <3> QED BY <3>1, <3>2
  <2>6. LoadStepsInv'
    BY <1>2, <1>3, <2>4, <2>5 DEF LoadStepsInv
  <2>7. \A d \in LoadCallers : loadCall[d] # NoLoad => loadCall'[d] # NoLoad
    BY <1>1, <2>3, <2>4
  <2> QED BY <1>1, <2>6, <2>7
<1> QED BY <1>4, <1>6, <1>7 DEF todo

\* Every step of the calls, of the Jobs and of the pins keeps the invariant.
LEMMA LoadStepsNextInv == LoadStepsInv /\ [LoadNext]_loadVars => LoadStepsInv'
<1> SUFFICES ASSUME LoadStepsInv, [LoadNext]_loadVars PROVE LoadStepsInv'
  OBVIOUS
<1>0. UNCHANGED jobs => JobsSound' /\ \A p \in Scoped : ToSet(jobs'[p]) = ToSet(jobs[p])
  BY JobsAsTheyWere DEF LoadStepsInv
<1>1. registry \in Sources /\ lockImage \in SchemaImages
  BY DEF LoadStepsInv
<1>2. ASSUME NEW c \in LoadCallers, StartLoad(c) PROVE LoadStepsInv'
  BY <1>2, LoadStarts
<1>3. ASSUME NEW c \in LoadCallers, NotDeployable(c) PROVE LoadStepsInv'
  BY <1>0, <1>1, <1>3, LoadCallsWait DEF NotDeployable, loadedVars
<1>4. ASSUME NEW c \in LoadCallers, NotSeeded(c) \/ LoadFails(c) PROVE LoadStepsInv'
  <2>1. /\ UNCHANGED <<registry, lockImage, jobs>> /\ loadCall[c] # NoLoad
        /\ \E how : LoadCallEnds(c, how)
    BY <1>4 DEF NotSeeded, LoadFails, Refuse, LoadAt, loadedVars
  <2> QED BY <1>0, <2>1, LoadCallLeaves
<1>5. ASSUME NEW c \in LoadCallers, LoadStep(c) PROVE LoadStepsInv'
  <2>1. loadCall[c] # NoLoad
    BY <1>5 DEF LoadStep, CheckRequired, PlanJobs, DeleteSchemaJob, Reconciled, DeleteJob, CreateJob,
                AwaitJob, LoadAt
  <2> QED BY <1>5, <2>1, LoadStepKeeps
<1>6. CASE FluxApplies
  BY <1>0, <1>1, <1>6, LoadCallsWait DEF FluxApplies
<1>7. CASE PinsMove
  BY <1>0, <1>1, <1>7, LoadCallsWait DEF PinsMove, loadedVars
<1>8. ASSUME NEW phase \in {"complete", "failed"}, SchemaJobEnds(phase) PROVE LoadStepsInv'
  BY <1>0, <1>1, <1>8, LoadCallsWait DEF SchemaJobEnds
<1>9. ASSUME NEW phase \in {"complete", "failed"}, NEW p \in Scoped, JobEnds(p, phase) PROVE LoadStepsInv'
  <2>1. UNCHANGED <<registry, lockImage, loadCall>> /\ JobsSound
    BY <1>9 DEF JobEnds, LoadStepsInv
  <2> QED BY <1>1, <1>9, <2>1, JobsAfterEnd, LoadCallsWait
<1>10. CASE UNCHANGED loadVars
  BY <1>0, <1>1, <1>10, LoadCallsWait DEF loadVars
<1> QED BY <1>2, <1>3, <1>4, <1>5, <1>6, <1>7, <1>8, <1>9, <1>10 DEF LoadNext

\* A call is refused only before it has changed anything: what was started
\* before the load that is refused makes it an error.
LEMMA RefusedClean ==
  ASSUME LoadStepsInv, LoadNext, NEW c \in LoadCallers, loadCall[c] # NoLoad, loadCall'[c] = NoLoad,
         said' = "refused"
  PROVE  ~loadCall[c].changed
<1>1. \A d \in LoadCallers : \A how : LoadCallEnds(d, how) =>
        said' = how /\ \A e \in LoadCallers \ {d} : loadCall'[e] = loadCall[e]
  BY DEF LoadCallEnds, LoadStepsInv
<1>2. ASSUME NEW d \in LoadCallers, Refuse(d), NextOp(d) \in {"check", "plan"} PROVE ~loadCall[c].changed
  <2>1. d = c
    BY <1>1, <1>2 DEF Refuse
  <2>2. ~loadCall[c].started
    BY <1>1, <1>2, <2>1 DEF Refuse
  <2>3. NextOp(c) \notin {"create", "await", "delete"}
    BY <1>2, <2>1
  <2> QED BY <2>2, <2>3, EarlyCall
<1>3. ASSUME NEW d \in LoadCallers, NEW how, how # "refused", LoadCallEnds(d, how) PROVE FALSE
  BY <1>1, <1>3
<1>4. ASSUME UNCHANGED loadCall PROVE FALSE
  BY <1>4
<1>5. ASSUME NEW d \in LoadCallers, NEW next, next # NoLoad, loadCall' = [loadCall EXCEPT ![d] = next] PROVE FALSE
  BY <1>5 DEF LoadStepsInv
<1>6. ASSUME NEW d \in LoadCallers, loadCall[d] # NoLoad, NEW todo \in Seq(Command), GoesOn(d, todo) PROVE FALSE
  <2> DEFINE next == [loadCall[d] EXCEPT !.todo = todo]
  <2>1. next # NoLoad
    <3>1. next \in LoadCalls
      <4>1. loadCall[d] \in LoadCalls
        BY <1>6, LoadCallTyped
      <4> QED BY <1>6, <4>1 DEF LoadCalls
    <3> HIDE DEF next
    <3> QED BY <3>1, NoLoadIsNoCall
  <2>2. \/ LoadCallEnds(d, "ok")
        \/ loadCall' = [loadCall EXCEPT ![d] = next]
    BY <1>6 DEF GoesOn
  <2> HIDE DEF next
  <2> QED BY <1>3, <1>5, <2>1, <2>2
<1>7. ASSUME NEW d \in LoadCallers, loadCall[d] # NoLoad, NEW todo \in Seq(Command), HasChanged(d, todo) PROVE FALSE
  <2> DEFINE next == [loadCall[d] EXCEPT !.todo = todo, !.changed = TRUE]
  <2>1. next # NoLoad
    <3>1. next \in LoadCalls
      <4>1. loadCall[d] \in LoadCalls
        BY <1>7, LoadCallTyped
      <4> QED BY <1>7, <4>1 DEF LoadCalls
    <3> HIDE DEF next
    <3> QED BY <3>1, NoLoadIsNoCall
  <2>2. \/ LoadCallEnds(d, "ok")
        \/ loadCall' = [loadCall EXCEPT ![d] = next]
    BY <1>7 DEF HasChanged
  <2> HIDE DEF next
  <2> QED BY <1>3, <1>5, <2>1, <2>2
<1>8. ASSUME NEW d \in LoadCallers, loadCall[d] # NoLoad PROVE TodoAfter(d) \in Seq(Command)
  <2>1. CASE NextOp(d) \in {"create", "await", "delete"}
    BY <1>8, <2>1, PlannedCall, AreCommands DEF TodoAfter
  <2>2. CASE NextOp(d) \notin {"create", "await", "delete"}
    BY <1>8, <2>2, EarlyCall, BeforeJobsGoOn, AreCommands, EmptySeq DEF TodoAfter
  <2> QED BY <2>1, <2>2
<1>9. ASSUME NEW d \in LoadCallers, LoadStep(d) PROVE ~loadCall[c].changed
  <2>1. loadCall[d] # NoLoad
    BY <1>9 DEF LoadStep, CheckRequired, PlanJobs, DeleteSchemaJob, Reconciled, DeleteJob, CreateJob,
                AwaitJob, LoadAt
  <2>2. TodoAfter(d) \in Seq(Command)
    BY <1>8, <2>1
  <2>3. CASE CheckRequired(d)
    <3>1. NextOp(d) = "check" /\ (GoesOn(d, TodoAfter(d)) \/ Refuse(d))
      BY <2>3 DEF CheckRequired, LoadAt
    <3> QED BY <1>2, <1>6, <2>1, <2>2, <3>1
  <2>4. CASE PlanJobs(d)
    <3> DEFINE alone == \A e \in LoadCallers \ {d} : loadCall[e] = NoLoad
               next == [loadCall[d] EXCEPT !.todo = JobCommands(loadCall[d]), !.again = Recreated(loadCall[d]),
                                           !.alone = alone]
    <3>1. LoadCallEnds(d, "ok") \/ loadCall' = [loadCall EXCEPT ![d] = next]
      BY <2>4 DEF PlanJobs
    <3>2. next \in LoadCalls
      <4>1. JobCommands(loadCall[d]) \in Seq(Command)
        BY <2>1, LoadCallTyped, JobPlanSafe, AreCommands DEF LoadStepsInv
      <4>2. alone \in BOOLEAN
        OBVIOUS
      <4>3. loadCall[d] \in LoadCalls /\ Recreated(loadCall[d]) \subseteq Scoped
        BY <2>1, LoadCallTyped DEF Recreated
      <4> HIDE DEF alone
      <4> QED BY <4>1, <4>2, <4>3 DEF LoadCalls
    <3> HIDE DEF next
    <3> QED BY <1>3, <1>5, <3>1, <3>2, NoLoadIsNoCall
  <2>5. CASE DeleteSchemaJob(d)
    <3> DEFINE next == [loadCall[d] EXCEPT !.todo = TodoAfter(d), !.started = TRUE, !.changed = TRUE]
    <3>1. LoadCallEnds(d, "ok") \/ loadCall' = [loadCall EXCEPT ![d] = next]
      BY <2>5 DEF DeleteSchemaJob
    <3>2. next \in LoadCalls
      <4>1. loadCall[d] \in LoadCalls
        BY <2>1, LoadCallTyped
      <4> QED BY <2>2, <4>1 DEF LoadCalls
    <3> HIDE DEF next
    <3> QED BY <1>3, <1>5, <3>1, <3>2, NoLoadIsNoCall
  <2>6. ASSUME Reconciled(d) \/ DeleteJob(d) \/ CreateJob(d) \/ AwaitJob(d) PROVE FALSE
    <3>1. GoesOn(d, TodoAfter(d)) \/ HasChanged(d, TodoAfter(d)) \/ LoadCallEnds(d, "error")
      BY <2>6 DEF Reconciled, DeleteJob, CreateJob, AwaitJob
    <3> QED BY <1>3, <1>6, <1>7, <2>1, <2>2, <3>1
  <2> QED BY <1>9, <2>3, <2>4, <2>5, <2>6 DEF LoadStep
<1>10. ASSUME NEW d \in LoadCallers, StartLoad(d) PROVE FALSE
  BY <1>10, LoadStarts
<1>11. ASSUME NEW d \in LoadCallers, NotDeployable(d) PROVE FALSE
  BY <1>4, <1>11 DEF NotDeployable
<1>12. ASSUME NEW d \in LoadCallers, NotSeeded(d) PROVE ~loadCall[c].changed
  BY <1>2, <1>12 DEF NotSeeded, LoadAt
<1>13. ASSUME NEW d \in LoadCallers, LoadFails(d) PROVE FALSE
  BY <1>3, <1>13 DEF LoadFails
<1>14. ASSUME FluxApplies \/ PinsMove \/ \E phase \in {"complete", "failed"} :
                SchemaJobEnds(phase) \/ \E p \in Scoped : JobEnds(p, phase)
       PROVE  FALSE
  BY <1>4, <1>14 DEF FluxApplies, PinsMove, SchemaJobEnds, JobEnds
<1> QED BY <1>9, <1>10, <1>11, <1>12, <1>13, <1>14 DEF LoadNext

\* A step that is no deletion leaves the complete Jobs.
LEMMA CompleteStay ==
  ASSUME LoadStepsInv, LoadNext, ~(\E c \in LoadCallers : DeleteJob(c)), NEW p \in Scoped,
         NEW job \in ToSet(jobs[p]), job.phase = "complete"
  PROVE  job \in ToSet(jobs'[p])
<1>1. JobsSound
  BY DEF LoadStepsInv
<1>2. CASE UNCHANGED jobs
  BY <1>2
<1>3. ASSUME NEW phase \in {"complete", "failed"}, NEW q \in Scoped, JobEnds(q, phase)
      PROVE  job \in ToSet(jobs'[p])
  BY <1>1, <1>3, JobsAfterEnd
<1>4. ASSUME NEW c \in LoadCallers, CreateJob(c) PROVE job \in ToSet(jobs'[p])
  <2> DEFINE q == Head(loadCall[c].todo).partition
             pinned == loadCall[c].source
             named == Named(q, CommitOf[pinned])
  <2>1. \/ /\ named = {}
           /\ jobs' = [jobs EXCEPT ![q] = Append(@, [source |-> pinned, phase |-> "running"])]
        \/ UNCHANGED jobs
    BY <1>4 DEF CreateJob
  <2>2. loadCall[c] # NoLoad /\ NextOp(c) = "create"
    BY <1>4 DEF CreateJob, LoadAt
  <2>3. q \in Scoped /\ pinned \in Sources
    BY <2>2, PlannedCall, JobCommandIs, LoadCallTyped DEF LoadCalls
  <2> HIDE DEF q, pinned
  <2> QED BY <1>1, <1>2, <2>1, <2>3, JobsAfterCreate DEF q, pinned
<1>5. ASSUME NEW c \in LoadCallers, StartLoad(c) \/ NotDeployable(c) \/ NotSeeded(c) \/ LoadFails(c)
               \/ CheckRequired(c) \/ PlanJobs(c) \/ DeleteSchemaJob(c) \/ Reconciled(c) \/ AwaitJob(c)
      PROVE  UNCHANGED jobs
  BY <1>5 DEF StartLoad, NotDeployable, NotSeeded, LoadFails, CheckRequired, PlanJobs, DeleteSchemaJob, Reconciled,
              AwaitJob, loadedVars
<1>6. ASSUME FluxApplies \/ PinsMove \/ \E phase \in {"complete", "failed"} : SchemaJobEnds(phase)
      PROVE  UNCHANGED jobs
  BY <1>6 DEF FluxApplies, PinsMove, SchemaJobEnds, loadedVars
<1> QED BY <1>2, <1>3, <1>4, <1>5, <1>6 DEF LoadNext, LoadStep

\* A partition whose newest Job is complete keeps a complete one.
LEMMA ReplacedComplete ==
  ASSUME LoadStepsInv, LoadNext, OneSourcePerCommit, NEW p \in Scoped,
         jobs[p] # <<>>, Last(jobs[p]).phase = "complete",
         \A c \in LoadCallers : loadCall[c] # NoLoad =>
           ~loadCall[c].force /\ loadCall[c].alone /\ ~RunsAgain(c, p)
  PROVE  \E i \in DOMAIN jobs'[p] : jobs'[p][i].phase = "complete"
<1>1. JobsSound /\ Last(jobs[p]) \in ToSet(jobs[p])
  BY JobNames DEF LoadStepsInv
<1>2. SUFFICES \E job \in ToSet(jobs'[p]) : job.phase = "complete"
  BY DEF ToSet
<1>3. CASE ~(\E c \in LoadCallers : DeleteJob(c))
  BY <1>1, <1>3, CompleteStay
<1>4. ASSUME NEW c \in LoadCallers, DeleteJob(c) PROVE \E job \in ToSet(jobs'[p]) : job.phase = "complete"
  <2> DEFINE todo == loadCall[c].todo
             x == Head(todo)
  <2>1. /\ loadCall[c] # NoLoad /\ NextOp(c) = "delete"
        /\ jobs' = [jobs EXCEPT ![x.partition] = Without(x.partition, x.commit)]
    BY <1>4 DEF DeleteJob, LoadAt
  <2>2. /\ todo \in Seq(JobCommand) /\ todo # <<>> /\ x.partition \in Scoped /\ x.op = "delete"
    BY <2>1, PlannedCall, JobCommandIs DEF NextOp
  <2>3. SafeTodo(jobs, todo, loadCall[c].again)
    BY <2>1, LoadCallTyped DEF LoadCallSound
  <2>4. \A q \in Scoped : \A job \in ToSet(jobs[q]) :
          ~(q = x.partition /\ NameOf(job) = x.commit) => job \in ToSet(jobs'[q])
    <3> HIDE DEF x
    <3> QED BY <1>1, <2>1, <2>2, JobsAfterDelete
  <2>5. CASE x.partition # p
    BY <1>1, <2>4, <2>5
  <2>6. CASE x.partition = p
    <3>1. ~(x.partition \in loadCall[c].again /\ Create(x.partition) \in ToSet(todo))
      BY <2>1, <2>6 DEF RunsAgain
    <3>2. PICK job \in ToSet(jobs[p]) : job.phase = "complete" /\ NameOf(job) # x.commit
      <4> HIDE DEF todo
      <4> QED BY <2>2, <2>3, <2>6, <3>1, SafeDeletion
    <3> QED BY <2>4, <2>6, <3>2
  <2> QED BY <2>5, <2>6
<1> QED BY <1>3, <1>4

\* For any callers, partitions, sources, commits and moves of the pins, when no two
\* sources share a commit: a call that is refused has changed nothing, and a
\* replacement clears a loaded partition only once it is complete itself.
THEOREM LoadStepsAlwaysHold == ASSUME OneSourcePerCommit PROVE LoadSpec => LoadStepsHold
<1>1. ASSUME LoadStepsInv, LoadNext, NEW c \in LoadCallers
      PROVE  (loadCall[c] # NoLoad /\ loadCall'[c] = NoLoad /\ said' = "refused") => ~loadCall[c].changed
  BY <1>1, RefusedClean
<1>2. LoadStepsInv /\ [LoadNext]_loadVars =>
        [\A c \in LoadCallers :
           (loadCall[c] # NoLoad /\ loadCall'[c] = NoLoad /\ said' = "refused") => ~loadCall[c].changed]_loadVars
  BY <1>1
<1>3. ASSUME LoadStepsInv, LoadNext, NEW p \in Scoped,
             jobs[p] # <<>>, Last(jobs[p]).phase = "complete",
             \A c \in LoadCallers : loadCall[c] # NoLoad =>
               ~loadCall[c].force /\ loadCall[c].alone /\ ~RunsAgain(c, p)
      PROVE  \E i \in DOMAIN jobs'[p] : jobs'[p][i].phase = "complete"
  BY <1>3, ReplacedComplete
<1>4. LoadStepsInv /\ [LoadNext]_loadVars =>
        [\A p \in Scoped :
           (/\ jobs[p] # <<>> /\ Last(jobs[p]).phase = "complete"
            /\ \A c \in LoadCallers : loadCall[c] # NoLoad =>
                 ~loadCall[c].force /\ loadCall[c].alone /\ ~RunsAgain(c, p)) =>
             \E i \in DOMAIN jobs'[p] : jobs'[p][i].phase = "complete"]_loadVars
  BY <1>3
<1> QED BY <1>2, <1>4, LoadStepsInitInv, LoadStepsNextInv, PTL
        DEF LoadSpec, LoadStepsHold, RefusalIsClean, ReplacedOnceComplete
=============================================================================
