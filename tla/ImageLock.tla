------------------------------ MODULE ImageLock ------------------------------
(***************************************************************************)
(* Concurrent `spi` calls on the image lock (src/spi/pins.py): service     *)
(* pin, reset, the stale sweep, refresh, reconcile --refresh-images and    *)
(* the roster projection, beside the maintenance flag of the deploy record *)
(* and the workflow runs that own ephemeral pins.                          *)
(*                                                                         *)
(* One mutate_lock is one step here: it takes the lock it finds and        *)
(* replaces it by what its mutator computes.  ImageLockCas splits it into  *)
(* the read and the conditional patch the code issues.  Everything a call  *)
(* does between two mutations (the deployability check, registry and       *)
(* GitHub round trips, the rollout wait) is a step of its own, so any      *)
(* other call can run in between.                                          *)
(***************************************************************************)
EXTENDS LockData

CONSTANTS
  Callers,       \* spi processes that may be running at once
  PinRequests,   \* the pin calls made
  Kinds,         \* the operations started
  MaxPins,       \* bound on the number of pin calls
  MaxNow,        \* bound on the clock
  AgeThreshold,  \* STALE_EPHEMERAL_PIN_AGE_HOURS, in ticks of the clock
  LostReplies    \* whether kubectl may fail after the API server took a write

ASSUME ImageLockAssumption ==
  /\ PinRequests \subseteq {q \in Request : ~q.paired}
  /\ MaxPins \in Nat /\ MaxNow \in Nat /\ AgeThreshold \in Nat
  /\ LostReplies \in BOOLEAN

VARIABLES
  lock,      \* the ConfigMap, or None before `spi up` created it
  caller,    \* what each spi process is about to do
  record,    \* the deploy record: absent, or its maintenance flag
  run,       \* each workflow run: its state and when its attempt began
  now,       \* the clock
  pinCalls   \* pin calls made so far

vars == <<lock, caller, record, run, now, pinCalls>>
env == <<record, run, now, pinCalls>>

(***************************************************************************)
(* What a process is about to do                                           *)
(***************************************************************************)
Idle == [op |-> "idle"]

RefreshSets == {{s} : s \in Services \ Pair} \cup {Pair, Services}

IdleOp == [op : {"idle"}]
ResolveOp == [op : {"resolve"}, req : Request]
PinOp == [op : {"pin"}, req : Request, at : Times]
UndoOp == [op : {"recheck", "revert"}, undo : Undo]
ResetOp == [op : {"reset"}, service : Services, ifRun : Runs \cup {None}]
AwaitOp == [op : {"await"}, image : Images, loader : Pin]
LoaderOp == [op : {"loader"}, loader : Pin]
SweepOp == [op : {"judge", "sweep"}, seen : PinMap]
RefreshOp == [op : {"refresh"}, names : RefreshSets, image : Canonicals]
ApplyOp == [op : {"apply"}, image : Canonicals]
ProjectOp == [op : {"project"}, service : Services, repo : Repos \cup {None}]

Op == IdleOp \cup ResolveOp \cup PinOp \cup UndoOp \cup ResetOp \cup AwaitOp
        \cup LoaderOp \cup SweepOp \cup RefreshOp \cup ApplyOp \cup ProjectOp

\* A run's attempt, when it began, and the earliest tick of its next pin: a
\* lane pins one service at a time, and a call outlasts the one-second
\* resolution of applied_at.
RunRecord == [state : {"running", "completed"}, since : Times, nextPin : Times]

TypeOK ==
  /\ lock \in Lock \cup {None}
  /\ caller \in [Callers -> Op]
  /\ record \in {"absent", "clear", "maintenance"}
  /\ run \in [Runs -> RunRecord]
  /\ now \in Times
  /\ pinCalls \in Nat

\* No lock yet, or the one a bootstrap rendered and projected.
InitialLocks ==
  {None} \cup {[ApplyWrite(None, image) EXCEPT !.trusted = t] :
                 image \in Canonicals, t \in [Services -> Repos \cup {None}]}

Init ==
  /\ lock \in InitialLocks
  /\ caller = [c \in Callers |-> Idle]
  /\ record = "absent"
  /\ run = [r \in Runs |-> [state |-> "running", since |-> 0, nextPin |-> 0]]
  /\ now = 0
  /\ pinCalls = 0

(***************************************************************************)
(* The result of one mutate_lock: whether it writes, the lock it leaves    *)
(* and what its caller does next.  A mutator that raises writes nothing.   *)
(***************************************************************************)
Result == [writes : BOOLEAN, lock : Lock \cup {None}, next : Op]

Written(l, next) == [writes |-> TRUE, lock |-> l, next |-> next]
Raised(l, next) == [writes |-> FALSE, lock |-> l, next |-> next]
Refused(l) == Raised(l, Idle)

PinOutcome(l, o) ==
  IF l # None /\ PinAdmitted(l, o.req)
    THEN Written(PinWrite(l, o.req, o.at), [op |-> "recheck", undo |-> UndoOf(l, o.req, o.at)])
    ELSE Refused(l)

RevertOutcome(l, o) ==
  IF l # None /\ Stands(l, o.undo) THEN Written(Reverted(l, o.undo), Idle) ELSE Refused(l)

ResetOutcome(l, o) ==
  IF l # None /\ Orphaned(l, o.service, o.ifRun)
    THEN Raised(l, [op |-> "await", image |-> l.entry[Schema].image, loader |-> l.pins[Loader]])
  ELSE IF l # None /\ ResetAdmitted(l, o.service, o.ifRun)
    THEN Written(ResetWrite(l, o.service, o.ifRun),
                 IF Defers(l, o.service, o.ifRun)
                   THEN [op |-> "await", image |-> l.pins[Schema].canonical,
                         loader |-> l.pins[Loader]]
                   ELSE Idle)
  ELSE Refused(l)

\* Mutant of LoaderOutcome: whatever loader is pinned is released.
LoaderOutcomeAny(l, o) ==
  IF l # None /\ Loader \in Pinned(l) THEN Written(Release(l, {Loader}), Idle) ELSE Refused(l)

LoaderOutcome(l, o) ==
  IF l # None /\ l.pins[Loader] = o.loader THEN Written(Release(l, {Loader}), Idle) ELSE Refused(l)

SweepOutcome(l, o) == IF l # None THEN Written(SweepWrite(l, o.seen), Idle) ELSE Refused(l)

RefreshOutcome(l, o) ==
  IF l # None THEN Written(RefreshWrite(l, o.names, o.image), Idle) ELSE Refused(l)

ApplyOutcome(l, o) == Written(ApplyWrite(l, o.image), Idle)

ProjectOutcome(l, o) ==
  IF l # None THEN Written(ProjectWrite(l, o.service, o.repo), Idle) ELSE Refused(l)

MutatorOps == {"pin", "revert", "reset", "loader", "sweep", "refresh", "apply", "project"}

Outcome(l, o) ==
  CASE o.op = "pin" -> PinOutcome(l, o)
    [] o.op = "revert" -> RevertOutcome(l, o)
    [] o.op = "reset" -> ResetOutcome(l, o)
    [] o.op = "loader" -> LoaderOutcome(l, o)
    [] o.op = "sweep" -> SweepOutcome(l, o)
    [] o.op = "refresh" -> RefreshOutcome(l, o)
    [] o.op = "apply" -> ApplyOutcome(l, o)
    [] o.op = "project" -> ProjectOutcome(l, o)

(***************************************************************************)
(* Steps of one process                                                    *)
(***************************************************************************)
Becomes(c, o) == caller' = [caller EXCEPT ![c] = o]

Begin(c, kind, o) ==
  /\ kind \in Kinds
  /\ caller[c].op = "idle"
  /\ Becomes(c, o)

Mutate(c, op) ==
  /\ caller[c].op = op
  /\ LET out == Outcome(lock, caller[c]) IN lock' = out.lock /\ Becomes(c, out.next)
  /\ UNCHANGED env

\* require_deployable read the maintenance flag clear.
CheckDeployable(c, q) ==
  /\ Begin(c, "pin", [op |-> "resolve", req |-> q])
  /\ record = "clear"
  /\ q.run # None => run[q.run].state = "running"
  /\ pinCalls < MaxPins
  /\ pinCalls' = pinCalls + 1
  /\ UNCHANGED <<lock, record, run, now>>

\* The manifest resolved; for an ephemeral schema pin the fork published a
\* loader at the same commit, or did not.
ResolveManifest(c, paired) ==
  /\ caller[c].op = "resolve"
  /\ paired => caller[c].req.service = Schema /\ caller[c].req.ephemeral
  /\ Becomes(c, [op |-> "pin", req |-> [caller[c].req EXCEPT !.paired = paired], at |-> now])
  /\ LET r == caller[c].req.run IN
     IF r = None THEN UNCHANGED run
     ELSE /\ now >= run[r].nextPin
          /\ run' = [run EXCEPT ![r].nextPin = now + 1]
  /\ UNCHANGED <<lock, record, now, pinCalls>>

WritePin(c) == Mutate(c, "pin")

\* The post-write check found the flag still clear: the call succeeds.
RecheckClear(c) ==
  /\ caller[c].op = "recheck"
  /\ record = "clear"
  /\ Becomes(c, Idle)
  /\ UNCHANGED <<lock, record, run, now, pinCalls>>

\* It found maintenance, no record, or could not read it.
RecheckBlocked(c) ==
  /\ caller[c].op = "recheck"
  /\ Becomes(c, [op |-> "revert", undo |-> caller[c].undo])
  /\ UNCHANGED <<lock, record, run, now, pinCalls>>

RevertPin(c) == Mutate(c, "revert")

StartReset(c, service, ifRun) ==
  /\ Begin(c, "reset", [op |-> "reset", service |-> service, ifRun |-> ifRun])
  /\ UNCHANGED <<lock, record, run, now, pinCalls>>

ResetService(c) == Mutate(c, "reset")

\* await_service_image saw the restored schema serve; its first read is
\* that the lock still names the image.
SchemaServes(c) ==
  /\ caller[c].op = "await"
  /\ lock # None /\ lock.entry[Schema].image = caller[c].image
  /\ Becomes(c, [op |-> "loader", loader |-> caller[c].loader])
  /\ UNCHANGED <<lock, record, run, now, pinCalls>>

ResetPairedLoader(c) == Mutate(c, "loader")

\* The sweep's candidates are the ephemeral pins of one read of the lock.
SweepRead(c) ==
  /\ lock # None
  /\ Begin(c, "sweep", [op |-> "judge",
                        seen |-> [s \in Services |->
                                    IF s \in Ephemeral(lock) THEN lock.pins[s] ELSE None]])
  /\ UNCHANGED <<lock, record, run, now, pinCalls>>

Aged(pin) == now - pin.at > AgeThreshold

\* Mutant of StaleGroup: a completed run's pin must be old as well.
StaleGroupAgedOnly(seen, s, unreachable) ==
  /\ \A t \in GroupOf(seen, s) : Aged(seen[t])
  /\ seen[s].run \in unreachable \/ run[seen[s].run].state = "completed"

\* A group is stale when its run completed, or when GitHub does not answer
\* for the run and every member is older than the threshold.
StaleGroup(seen, s, unreachable) ==
  IF seen[s].run \in unreachable
    THEN \A t \in GroupOf(seen, s) : Aged(seen[t])
    ELSE run[seen[s].run].state = "completed"

SweepJudge(c, unreachable) ==
  /\ caller[c].op = "judge"
  /\ LET seen == caller[c].seen
         stale == {s \in Services : seen[s] # None /\ StaleGroup(seen, s, unreachable)}
     IN Becomes(c, IF stale = {} THEN Idle
                   ELSE [op |-> "sweep",
                         seen |-> [s \in Services |-> IF s \in stale THEN seen[s] ELSE None]])
  /\ UNCHANGED <<lock, record, run, now, pinCalls>>

SweepStale(c) == Mutate(c, "sweep")

\* The images are resolved before the write, from the newest build seen.
StartRefresh(c, names, image) ==
  /\ lock # None
  /\ Begin(c, "refresh", [op |-> "refresh", names |-> names, image |-> image])
  /\ UNCHANGED <<lock, record, run, now, pinCalls>>

ApplyRefresh(c) == Mutate(c, "refresh")

StartApply(c, image) ==
  /\ Begin(c, "apply", [op |-> "apply", image |-> image])
  /\ UNCHANGED <<lock, record, run, now, pinCalls>>

ApplyImageLock(c) == Mutate(c, "apply")

StartProject(c, service, repo) ==
  /\ Begin(c, "project", [op |-> "project", service |-> service, repo |-> repo])
  /\ UNCHANGED <<lock, record, run, now, pinCalls>>

ProjectRoster(c) == Mutate(c, "project")

\* The server took the write but kubectl failed.  After a patch,
\* configmap_patch_lost_race reads the resourceVersion again, finds it moved
\* and reports a lost race, so the mutator runs once more, on the lock it
\* left; a create, or a failed second read, ends the call in an error.
ReplyLost(c) ==
  /\ LostReplies
  /\ caller[c].op \in MutatorOps
  /\ LET out == Outcome(lock, caller[c]) IN out.writes /\ lock' = out.lock
  /\ \/ lock # None /\ UNCHANGED caller
     \/ Becomes(c, Idle)
  /\ UNCHANGED env

\* A lost runner, a killed process, a registry or kubectl failure, or the
\* rollout wait running out: the call ends where it is.
GiveUp(c) ==
  /\ caller[c].op # "idle"
  /\ Becomes(c, Idle)
  /\ UNCHANGED <<lock, record, run, now, pinCalls>>

(***************************************************************************)
(* The environment                                                         *)
(***************************************************************************)

\* `spi up` finishing on a cluster without a record; --tag starts it in
\* maintenance.  An existing record keeps its flag.
UpsertDeployRecord(flag) ==
  /\ record = "absent"
  /\ record' = flag
  /\ UNCHANGED <<lock, caller, run, now, pinCalls>>

SetMaintenance(flag) ==
  /\ record # "absent"
  /\ record' = flag
  /\ UNCHANGED <<lock, caller, run, now, pinCalls>>

\* Finished, cancelled, or its runner was lost.
RunCompletes(r) ==
  /\ run[r].state = "running"
  /\ run' = [run EXCEPT ![r].state = "completed"]
  /\ UNCHANGED <<lock, caller, record, now, pinCalls>>

\* The longest a deploy-plus-test attempt runs is below the age threshold.
WithinBudget(r, t) == run[r].state = "running" => t - run[r].since <= AgeThreshold

Tick ==
  /\ now < MaxNow
  /\ now' = now + 1
  /\ \A r \in Runs : WithinBudget(r, now')

TimePasses == Tick /\ UNCHANGED <<lock, caller, record, run, pinCalls>>

\* A re-run of the workflow keeps the run id.
RerunStarts(r) ==
  /\ run[r].state = "completed"
  /\ Tick
  /\ run' = [run EXCEPT ![r].state = "running", ![r].since = now']
  /\ UNCHANGED <<lock, caller, record, pinCalls>>

\* The steps whose writes are acknowledged.
AckedStep(c) ==
  \/ \E q \in PinRequests : CheckDeployable(c, q)
  \/ \E paired \in BOOLEAN : ResolveManifest(c, paired)
  \/ WritePin(c)
  \/ RecheckClear(c)
  \/ RecheckBlocked(c)
  \/ RevertPin(c)
  \/ \E s \in Services, r \in Runs \cup {None} : StartReset(c, s, r)
  \/ ResetService(c)
  \/ SchemaServes(c)
  \/ ResetPairedLoader(c)
  \/ SweepRead(c)
  \/ \E unreachable \in SUBSET Runs : SweepJudge(c, unreachable)
  \/ SweepStale(c)
  \/ \E names \in RefreshSets, image \in Canonicals : StartRefresh(c, names, image)
  \/ ApplyRefresh(c)
  \/ \E image \in Canonicals : StartApply(c, image)
  \/ ApplyImageLock(c)
  \/ \E s \in Services, repo \in Repos \cup {None} : StartProject(c, s, repo)
  \/ ProjectRoster(c)
  \/ GiveUp(c)

ProcessStep(c) == AckedStep(c) \/ ReplyLost(c)

EnvironmentStep ==
  \/ \E flag \in {"clear", "maintenance"} : UpsertDeployRecord(flag) \/ SetMaintenance(flag)
  \/ \E r \in Runs : RunCompletes(r) \/ RerunStarts(r)
  \/ TimePasses

Next == (\E c \in Callers : ProcessStep(c)) \/ EnvironmentStep

Spec == Init /\ [][Next]_vars

\* Workflow runs end, and the sweep comes round for as long as the
\* environment lives: a sweep is started again and again, GitHub answers it
\* again and again, and again and again its write goes through.  Nothing
\* else is promised to happen; any call may be given up.
Sweeping == \E c \in Callers : SweepRead(c)
Judging == \E c \in Callers : SweepJudge(c, {})
Releasing == \E c \in Callers : SweepStale(c)

Fairness ==
  /\ \A r \in Runs : WF_vars(RunCompletes(r))
  /\ \A c \in Callers : WF_vars(ProcessStep(c))
  /\ SF_vars(Sweeping) /\ SF_vars(Judging) /\ SF_vars(Releasing)

FairSpec == Spec /\ Fairness

(***************************************************************************)
(* Properties                                                              *)
(***************************************************************************)

\* The image a service comes back to once its pin, if any, is gone.
RestoreTarget(l, s) == IF s \in Pinned(l) THEN l.pins[s].canonical ELSE l.entry[s].image

\* However pins, re-pins, rollbacks, resets and refreshes interleave, the
\* image each service returns to is a canonical one: no borrowed image is
\* ever captured as the restore target of a later pin, or left behind in
\* the entry of a service nobody pins (_captured_canonical, _revert_pin,
\* _release_to_canonical).
CanonicalSurvives ==
  lock # None => \A s \in Services : RestoreTarget(lock, s) \in Canonicals

\* The keys Flux substitutes agree with the annotation: a pinned service
\* runs its pin's image and holds its node exactly when a run borrows it,
\* and a service nobody pins holds no node.
EntryFollowsPin ==
  lock # None =>
    \A s \in Services :
      IF s \in Pinned(lock)
        THEN lock.entry[s] = [image |-> lock.pins[s].image, hold |-> lock.pins[s].ephemeral]
        ELSE ~lock.entry[s].hold

\* When schema and its loader are both pinned, one write pinned both: same
\* build, same run, same time (pin_service_image pairs or releases the
\* loader, _revert_pin is all or nothing, the sweep restores a run's group
\* together).
PairPinnedTogether ==
  lock # None /\ Pair \subseteq Pinned(lock) =>
    LET p == lock.pins[Schema]
        q == lock.pins[Loader]
    IN p.image = q.image /\ p.run = q.run /\ p.at = q.at

\* Schema and its loader come back to images of one commit (refresh_services:
\* "refresh, or stay, as one pair so the Job never runs a loader from
\* another commit").
PairFromOneCommit ==
  lock # None => RestoreTarget(lock, Schema) = RestoreTarget(lock, Loader)

\* The pins a step takes away or replaces.
Lost == {s \in Services : lock # None /\ s \in Pinned(lock) /\ lock'.pins[s] # lock.pins[s]}

\* A restore job's `reset --if-run` takes away only pins that still record
\* its run, whatever was pinned between its start and its write.
ResetOnlyOwnPin ==
  [][\A c \in Callers :
       (caller[c].op = "reset" /\ caller[c].ifRun # None /\ caller'[c] # caller[c])
         => \A s \in Lost : lock.pins[s].run = caller[c].ifRun]_vars

\* The sweep never takes the pin a running attempt placed, and never an
\* operator's: not when the run is re-run and pins again between the sweep's
\* read and its write, nor when GitHub does not answer.
SweepSparesLiveRuns ==
  [][\A c \in Callers :
       (caller[c].op = "sweep" /\ caller'[c] # caller[c])
         => \A s \in Lost :
              LET p == lock.pins[s] IN
              /\ p.ephemeral
              /\ ~(run[p.run].state = "running" /\ p.at >= run[p.run].since)]_vars

\* What a rollback would replay is what stood before the call: never the
\* ephemeral pin the call itself wrote, or the rollback would leave it live
\* while reporting it undone (_LockMutation, _revert_pin).
UndoPredatesWrite ==
  \A c \in Callers : caller[c].op \in {"recheck", "revert"} =>
    \A s \in caller[c].undo.names :
      LET p == caller[c].undo.wrote[s] IN
      p # None /\ p.ephemeral => caller[c].undo.priorPins[s] # p

\* No ephemeral pin is stranded: once the runs are over, cancelled or lost,
\* the sweep leaves no service borrowed, whichever restore jobs, rollbacks
\* and calls died on the way.
BorrowsEnd == <>[](lock = None \/ Ephemeral(lock) = {})
=============================================================================
