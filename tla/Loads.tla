------------------------------- MODULE Loads -------------------------------
(***************************************************************************)
(* `spi load` as loads.py runs it.  The registry names two loads: the      *)
(* schemas, a Job that Flux keeps at the lock's schema-load image, and a   *)
(* load that requires them and that `spi load` runs as one Job per         *)
(* partition, named by the first digits of its source's commit.            *)
(*                                                                         *)
(* A call reads the registry and the lock once, the loads' facts before    *)
(* each load, and the Jobs before it plans one.  The plan is a list of     *)
(* commands on the cluster; between any two of them other calls, Flux and  *)
(* the Jobs themselves move.                                               *)
(***************************************************************************)
EXTENDS Integers, Sequences, SequencesExt

CONSTANTS
  LoadCallers,
  Partitions,       \* the declared partitions, in order
  Sources,          \* what the registry can pin the load to
  Commits,          \* their commits, in the order of the Jobs' names
  CommitOf,         \* a source's commit; two sources may differ only by path
  SchemaImages,           \* schema-load images the lock can name
  NoLoad,
  MaxMoves,         \* bound on moves of the pins
  MaxDisturbances   \* bound on failures, refusals and forced calls

VARIABLES
  registry,       \* the source the registry pins
  lockImage,      \* the schema-load image the lock pins
  schemaJob,      \* the Job Flux keeps, or NoLoad
  jobs,           \* per partition: the load's Jobs, oldest first
  loadCall,       \* per process: the call it is in, or NoLoad
  said,           \* how the call that ended last ended
  registered,     \* ghost: a schema Job has completed
  moves,          \* ghost
  disturbances    \* ghost

loadVars == <<registry, lockImage, schemaJob, jobs, loadCall, said, registered,
              moves, disturbances>>
loadedVars == <<schemaJob, jobs, registered>>

JobPhases == {"running", "complete", "failed"}
Scoped == ToSet(Partitions)

\* The commands a call still has to run.
Command ==
  [op : {"check", "plan", "reconcile", "deleteSchema"}]
    \cup [op : {"create"}, partition : Scoped]
    \cup [op : {"delete", "await"}, partition : Scoped, commit : ToSet(Commits)]

\* A call.  Ghosts: no other call was under way when it planned, nor began since;
\* and the partitions whose newest Job it runs again.
LoadCalls ==
  [source : Sources, image : SchemaImages, force : BOOLEAN, wait : BOOLEAN, started : BOOLEAN,
   changed : BOOLEAN, alone : BOOLEAN, again : SUBSET Scoped, todo : Seq(Command)]

ASSUME LoadAssumption ==
  /\ Partitions \in Seq(ToSet(Partitions)) /\ IsInjective(Partitions)
  /\ Commits \in Seq(ToSet(Commits)) /\ CommitOf \in [Sources -> ToSet(Commits)]
  /\ Sources # {} /\ SchemaImages # {}
  /\ NoLoad \notin LoadCalls
  /\ MaxMoves \in Nat /\ MaxDisturbances \in Nat

LoadTypeOK ==
  /\ registry \in Sources /\ lockImage \in SchemaImages
  /\ schemaJob \in [image : SchemaImages, phase : JobPhases] \cup {NoLoad}
  /\ \A p \in Scoped :
       /\ jobs[p] \in Seq([source : Sources, phase : JobPhases])
       /\ \A i, j \in DOMAIN jobs[p] :
            CommitOf[jobs[p][i].source] = CommitOf[jobs[p][j].source] => i = j
  /\ loadCall \in [LoadCallers -> LoadCalls \cup {NoLoad}]
  /\ said \in {"nothing", "ok", "refused", "error"}
  /\ registered \in BOOLEAN
  /\ moves \in 0 .. MaxMoves /\ disturbances \in 0 .. MaxDisturbances

LoadInit ==
  /\ registry = CHOOSE s \in Sources : TRUE
  /\ lockImage = CHOOSE i \in SchemaImages : TRUE
  /\ schemaJob = NoLoad
  /\ jobs = [p \in Scoped |-> <<>>]
  /\ loadCall = [c \in LoadCallers |-> NoLoad]
  /\ said = "nothing"
  /\ registered = FALSE
  /\ moves = 0 /\ disturbances = 0

Disturb ==
  /\ disturbances < MaxDisturbances
  /\ disturbances' = disturbances + 1

-----------------------------------------------------------------------------
(* What a call makes of what it reads.                                     *)

NameOf(job) == CommitOf[job.source]

\* _flux_load_facts: the schemas' state, against the lock the call read.
SchemaState(image) ==
  IF schemaJob = NoLoad THEN "absent"
  ELSE IF schemaJob.phase = "complete" /\ schemaJob.image # image THEN "stale"
  ELSE schemaJob.phase

\* Mutant of Satisfying: a Job that is still running satisfies.
SatisfyingStarted == {"complete", "stale", "running"}

Satisfying == {"complete", "stale"}

\* _job_load_facts for one partition.
LoadState(p, source) ==
  IF jobs[p] = <<>> THEN "absent"
  ELSE LET newest == Last(jobs[p])
       IN  IF newest.phase = "complete" /\ newest.source # source THEN "stale"
           ELSE newest.phase

\* Mutant of PlanLoad: a failed Job is left for its owner to look at.
PlanLoadTimid(existing, source, force) ==
  IF existing = <<>> THEN "create"
  ELSE LET newest == Last(existing)
       IN  CASE newest.phase = "failed" /\ ~force -> "wait"
             [] newest.phase = "running" -> IF force THEN "recreate" ELSE "wait"
             [] newest.phase = "complete" /\ newest.source # source -> "supersede"
             [] OTHER -> IF force THEN "recreate" ELSE "none"

\* plan_load
PlanLoad(existing, source, force) ==
  IF existing = <<>> THEN "create"
  ELSE LET newest == Last(existing)
       IN  CASE newest.phase = "failed" -> "recreate"
             [] newest.phase = "running" -> IF force THEN "recreate" ELSE "wait"
             [] newest.phase = "complete" /\ newest.source # source -> "supersede"
             [] OTHER -> IF force THEN "recreate" ELSE "none"

Create(p) == [op |-> "create", partition |-> p]
Await(p, commit) == [op |-> "await", partition |-> p, commit |-> commit]
Delete(p, commit) == [op |-> "delete", partition |-> p, commit |-> commit]

\* Those of `commits` that are among the chosen, in their order.
Deletes(p, commits, chosen) ==
  FlattenSeq([i \in DOMAIN commits |->
                IF commits[i] \in chosen THEN <<Delete(p, commits[i])>> ELSE <<>>])

Names(existing) == [i \in DOMAIN existing |-> NameOf(existing[i])]

\* Mutant of Doomed: a replacement clears away every earlier Job first.
DoomedAll(existing, source, action) == ToSet(Names(existing))

\* The Jobs that go before the new one is created: the one that holds its
\* name, and the newest one when it is run again.
Doomed(existing, source, action) ==
  {n \in ToSet(Names(existing)) :
     \/ n = CommitOf[source]
     \/ action = "recreate" /\ n = NameOf(Last(existing))}

\* _run_job_load for one partition: the commands that come at once, and
\* those that come after every partition's, when the call waits.
AtOnce(p, call) ==
  LET existing == jobs[p]
      action == PlanLoad(existing, call.source, call.force)
  IN  CASE action = "none" ->
             Deletes(p, Names(existing), ToSet(Names(existing)) \ {NameOf(Last(existing))})
        [] action = "wait" -> <<>>
        [] OTHER -> Deletes(p, Commits, Doomed(existing, call.source, action)) \o <<Create(p)>>

Afterwards(p, call) ==
  LET existing == jobs[p]
      action == PlanLoad(existing, call.source, call.force)
      others == ToSet(Names(existing)) \ Doomed(existing, call.source, action)
  IN  CASE action = "none" -> <<>>
        [] action = "wait" -> <<Await(p, NameOf(Last(existing)))>>
        [] OTHER -> <<Await(p, CommitOf[call.source])>> \o Deletes(p, Names(existing), others)

JobCommands(call) ==
  FlattenSeq([i \in DOMAIN Partitions |-> AtOnce(Partitions[i], call)])
    \o IF call.wait
         THEN FlattenSeq([i \in DOMAIN Partitions |-> Afterwards(Partitions[i], call)])
         ELSE <<>>

\* The partitions whose newest Job the call runs again.
Recreated(call) == {p \in Scoped : PlanLoad(jobs[p], call.source, call.force) = "recreate"}

-----------------------------------------------------------------------------
(* A call.                                                                 *)

LoadCallEnds(c, how) ==
  /\ loadCall' = [loadCall EXCEPT ![c] = NoLoad]
  /\ said' = how

\* Mutant of Refuse: every refusal is reported as one.
RefuseAlways(c) == LoadCallEnds(c, "refused")

\* A refusal says that nothing was changed, so it becomes an error once an
\* earlier load of the call was started.
Refuse(c) == LoadCallEnds(c, IF loadCall[c].started THEN "error" ELSE "refused")

\* The call has run its first command and goes on with `todo`.
GoesOn(c, todo) ==
  IF todo = <<>> THEN LoadCallEnds(c, "ok")
  ELSE /\ loadCall' = [loadCall EXCEPT ![c].todo = todo]
       /\ UNCHANGED said

NextOp(c) == Head(loadCall[c].todo).op
TodoAfter(c) == Tail(loadCall[c].todo)
LoadAt(c, op) == loadCall[c] # NoLoad /\ NextOp(c) = op

\* Without --force the schemas are only reported, whatever their state.
SchemaCommands(force, wait) ==
  IF ~force THEN <<>>
  ELSE <<[op |-> "deleteSchema"]>>
         \o IF wait THEN <<[op |-> "reconcile"]>> ELSE <<>>

\* A call that was alone since it planned is so no longer.
Overtaken(d) == IF loadCall[d] = NoLoad THEN NoLoad ELSE [loadCall[d] EXCEPT !.alone = FALSE]

StartLoad(c) ==
  /\ loadCall[c] = NoLoad
  /\ \E force, wait, schemas, load \in BOOLEAN :
       LET todo == (IF schemas THEN SchemaCommands(force, wait) ELSE <<>>)
                     \o IF load THEN <<[op |-> "check"], [op |-> "plan"]>> ELSE <<>>
       IN  /\ schemas \/ load
           /\ IF force THEN Disturb ELSE UNCHANGED disturbances
           /\ IF todo = <<>>
                THEN said' = "ok" /\ UNCHANGED loadCall
                ELSE /\ loadCall' = [d \in LoadCallers |->
                          IF d # c THEN Overtaken(d) ELSE
                          [source |-> registry, image |-> lockImage, force |-> force,
                           wait |-> wait, started |-> FALSE, changed |-> FALSE,
                           alone |-> FALSE, again |-> {}, todo |-> todo]]
                     /\ said' = "nothing"
  /\ UNCHANGED <<registry, lockImage, moves>>
  /\ UNCHANGED loadedVars

\* require_deployable, before the first load of a call that has a job load.
NotDeployable(c) ==
  /\ loadCall[c] = NoLoad
  /\ Disturb
  /\ said' = "refused"
  /\ UNCHANGED <<registry, lockImage, moves, loadCall>>
  /\ UNCHANGED loadedVars

\* The requirement is read again before the load that has it.
CheckRequired(c) ==
  /\ LoadAt(c, "check")
  /\ IF SchemaState(loadCall[c].image) \in Satisfying THEN GoesOn(c, TodoAfter(c)) ELSE Refuse(c)
  /\ UNCHANGED <<registry, lockImage, moves, disturbances>>
  /\ UNCHANGED loadedVars

\* The entitlements domain or a legal tag is missing.
NotSeeded(c) ==
  /\ LoadAt(c, "plan")
  /\ Disturb
  /\ Refuse(c)
  /\ UNCHANGED <<registry, lockImage, moves>>
  /\ UNCHANGED loadedVars

PlanJobs(c) ==
  /\ LoadAt(c, "plan")
  /\ LET todo == JobCommands(loadCall[c])
     IN  IF todo = <<>> THEN LoadCallEnds(c, "ok")
         ELSE /\ loadCall' = [loadCall EXCEPT ![c] = [@ EXCEPT
                   !.todo = todo, !.again = Recreated(loadCall[c]),
                   !.alone = \A d \in LoadCallers \ {c} : loadCall[d] = NoLoad]]
              /\ UNCHANGED said
  /\ UNCHANGED <<registry, lockImage, moves, disturbances>>
  /\ UNCHANGED loadedVars

HasChanged(c, todo) ==
  IF todo = <<>> THEN LoadCallEnds(c, "ok")
  ELSE /\ loadCall' = [loadCall EXCEPT ![c] = [@ EXCEPT !.todo = todo, !.changed = TRUE]]
       /\ UNCHANGED said

DeleteSchemaJob(c) ==
  /\ LoadAt(c, "deleteSchema")
  /\ schemaJob' = NoLoad
  /\ IF TodoAfter(c) = <<>> THEN LoadCallEnds(c, "ok")
     ELSE /\ loadCall' = [loadCall EXCEPT ![c] =
               [@ EXCEPT !.todo = TodoAfter(c), !.started = TRUE, !.changed = TRUE]]
          /\ UNCHANGED said
  /\ UNCHANGED <<registry, lockImage, moves, jobs, registered, disturbances>>

\* flux reconcile waits until the Job of the image that Flux applied is over.
Reconciled(c) ==
  /\ LoadAt(c, "reconcile")
  /\ schemaJob # NoLoad /\ schemaJob.image = lockImage /\ schemaJob.phase # "running"
  /\ IF schemaJob.phase = "complete" THEN GoesOn(c, TodoAfter(c)) ELSE LoadCallEnds(c, "error")
  /\ UNCHANGED <<registry, lockImage, moves, disturbances>>
  /\ UNCHANGED loadedVars

\* A partition has at most one Job of a name.
Without(p, commit) ==
  LET at == {i \in DOMAIN jobs[p] : NameOf(jobs[p][i]) = commit}
  IN  IF at = {} THEN jobs[p] ELSE RemoveAt(jobs[p], CHOOSE i \in at : TRUE)

DeleteJob(c) ==
  /\ LoadAt(c, "delete")
  /\ LET d == Head(loadCall[c].todo)
     IN  jobs' = [jobs EXCEPT ![d.partition] = Without(d.partition, d.commit)]
  /\ HasChanged(c, TodoAfter(c))
  /\ UNCHANGED <<registry, lockImage, moves, schemaJob, registered, disturbances>>

\* Mutant of Named: a Job's name does not stop another of its name.
NamedNever(p, commit) == {}

\* The Job that holds the name of a commit.
Named(p, commit) == {job \in ToSet(jobs[p]) : NameOf(job) = commit}

\* kubectl apply: a Job of that name and source stays as it is, and one of
\* another source is refused, its template being immutable.
CreateJob(c) ==
  /\ LoadAt(c, "create")
  /\ LET p == Head(loadCall[c].todo).partition
         source == loadCall[c].source
         named == Named(p, CommitOf[source])
     IN  CASE named = {} ->
                /\ jobs' = [jobs EXCEPT ![p] = Append(@, [source |-> source, phase |-> "running"])]
                /\ HasChanged(c, TodoAfter(c))
           [] \E job \in named : job.source = source -> UNCHANGED jobs /\ GoesOn(c, TodoAfter(c))
           [] OTHER -> UNCHANGED jobs /\ LoadCallEnds(c, "error")
  /\ UNCHANGED <<registry, lockImage, moves, schemaJob, registered, disturbances>>

\* _await_job and _finish: the Job is followed by its name.
AwaitJob(c) ==
  /\ LoadAt(c, "await")
  /\ LET a == Head(loadCall[c].todo)
         named == Named(a.partition, a.commit)
     IN  CASE named = {} -> LoadCallEnds(c, "error")
           [] \E job \in named : job.phase = "failed" -> LoadCallEnds(c, "error")
           [] \E job \in named : job.phase = "complete" -> GoesOn(c, TodoAfter(c))
           [] OTHER -> FALSE
  /\ UNCHANGED <<registry, lockImage, moves, disturbances>>
  /\ UNCHANGED loadedVars

\* A command fails, a wait passes its deadline, or the process dies.
LoadFails(c) ==
  /\ loadCall[c] # NoLoad
  /\ Disturb
  /\ LoadCallEnds(c, "error")
  /\ UNCHANGED <<registry, lockImage, moves>>
  /\ UNCHANGED loadedVars

LoadStep(c) ==
  \/ CheckRequired(c) \/ PlanJobs(c) \/ DeleteSchemaJob(c) \/ Reconciled(c)
  \/ DeleteJob(c) \/ CreateJob(c) \/ AwaitJob(c)

-----------------------------------------------------------------------------
(* Flux, the Jobs and the pins.                                            *)

\* Flux keeps the schema Job at the lock's image.
FluxApplies ==
  /\ schemaJob # NoLoad => schemaJob.image # lockImage
  /\ schemaJob' = [image |-> lockImage, phase |-> "running"]
  /\ UNCHANGED <<registry, lockImage, moves, jobs, loadCall, said, registered, disturbances>>

SchemaJobEnds(phase) ==
  /\ schemaJob # NoLoad /\ schemaJob.phase = "running"
  /\ schemaJob' = [schemaJob EXCEPT !.phase = phase]
  /\ registered' = (registered \/ phase = "complete")
  /\ IF phase = "failed" THEN Disturb ELSE UNCHANGED disturbances
  /\ UNCHANGED <<registry, lockImage, moves, jobs, loadCall, said>>

JobEnds(p, phase) ==
  /\ \E i \in DOMAIN jobs[p] :
       /\ jobs[p][i].phase = "running"
       /\ jobs' = [jobs EXCEPT ![p][i].phase = phase]
  /\ IF phase = "failed" THEN Disturb ELSE UNCHANGED disturbances
  /\ UNCHANGED <<registry, lockImage, moves, schemaJob, loadCall, said, registered>>

\* The stack version moves the registry, a pin or a refresh the lock.
PinsMove ==
  /\ moves < MaxMoves /\ moves' = moves + 1
  /\ \/ registry' \in Sources \ {registry} /\ UNCHANGED lockImage
     \/ lockImage' \in SchemaImages \ {lockImage} /\ UNCHANGED registry
  /\ UNCHANGED <<loadCall, said, disturbances>>
  /\ UNCHANGED loadedVars

LoadNext ==
  \/ \E c \in LoadCallers :
       StartLoad(c) \/ NotDeployable(c) \/ NotSeeded(c) \/ LoadStep(c) \/ LoadFails(c)
  \/ FluxApplies \/ PinsMove
  \/ \E phase \in {"complete", "failed"} :
       SchemaJobEnds(phase) \/ \E p \in Scoped : JobEnds(p, phase)

LoadFairness ==
  /\ WF_loadVars(\E c \in LoadCallers : LoadStep(c))
  /\ WF_loadVars(FluxApplies)
  /\ WF_loadVars(SchemaJobEnds("complete"))
  /\ \A p \in Scoped : WF_loadVars(JobEnds(p, "complete"))
  /\ WF_loadVars(\E c \in LoadCallers : StartLoad(c))

LoadSpec == LoadInit /\ [][LoadNext]_loadVars /\ LoadFairness

-----------------------------------------------------------------------------
(* What `spi load` owes.                                                   *)

\* The load's Jobs never run before the schemas have been registered once,
\* whatever other calls, Flux and the pins do between a call's reads of the
\* facts and the creation of its Jobs (run_loads, SATISFYING).
NeverAheadOfSchemas ==
  \A p \in Scoped : jobs[p] # <<>> => registered

\* A call that says it was refused has changed nothing (LoadError.refused).
RefusalIsClean ==
  [][\A c \in LoadCallers :
       (loadCall[c] # NoLoad /\ loadCall'[c] = NoLoad /\ said' = "refused") => ~loadCall[c].changed]_loadVars

\* The call has still to create the Job that it runs again in p.
RunsAgain(c, p) == p \in loadCall[c].again /\ Create(p) \in ToSet(loadCall[c].todo)

\* A partition whose newest Job is complete keeps a complete Job until a newer
\* one completes: a replacement for another source clears it away only then,
\* though the replacement fails or its caller dies.  Calls under --force run it
\* again on purpose, and calls that overlap act on the Jobs they saw before.  A
\* failed Job is deleted first, together with the holder of the name, which is
\* the newest in between when its name sorts last.
ReplacedOnceComplete ==
  [][\A p \in Scoped :
       (/\ jobs[p] # <<>> /\ Last(jobs[p]).phase = "complete"
        /\ \A c \in LoadCallers : loadCall[c] # NoLoad =>
             ~loadCall[c].force /\ loadCall[c].alone /\ ~RunsAgain(c, p)) =>
         \E i \in DOMAIN jobs'[p] : jobs'[p][i].phase = "complete"]_loadVars

LoadSettled == \A p \in Scoped : LoadState(p, registry) = "complete"

\* While the schemas stay loaded, calling `spi load` again and again ends
\* with every partition complete from the pinned source, after any crash,
\* failed Job or half-done replacement.
LoadConverges == <>[](SchemaState(lockImage) \in Satisfying) => <>LoadSettled

\* What no step of a call may do: lose loaded data to a replacement that never
\* completes, or report a refusal after it changed something.
LoadStepsHold == RefusalIsClean /\ ReplacedOnceComplete
=============================================================================
