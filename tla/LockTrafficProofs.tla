------------------------- MODULE LockTrafficProofs -------------------------
(***************************************************************************)
(* Proofs about pins on the image lock: that schema and its loader stay    *)
(* together, and that the sweep spares live runs.  Every pin carries a     *)
(* mark, the run that placed it and when; a pin of schema and one of its   *)
(* loader were written together exactly when their marks are equal.  The   *)
(* proofs follow the marks: where they can be (on the lock, in a pin call  *)
(* about to write, in the state a rollback would replay), that no step but *)
(* the resolution of a manifest makes a new one, and that a mark once used *)
(* is never made again.                                                    *)
(***************************************************************************)
EXTENDS LockTraffic, ImageLockProofs

Mark(pin) == <<pin.run, pin.at>>
MarkAt(pins, s) == IF pins[s] = None THEN {} ELSE {Mark(pins[s])}
Marks(pins) == UNION {MarkAt(pins, s) : s \in Services}

NoPins == [s \in Services |-> None]
LivePins == IF lock = None THEN NoPins ELSE lock.pins

\* What a process about to check or roll back would replay, what it wrote,
\* and the mark a process about to pin will write.
Undoing(o) == o.op \in {"recheck", "revert"}
PriorPins(o) == IF Undoing(o) THEN o.undo.priorPins ELSE NoPins
WrotePins(o) == IF Undoing(o) THEN o.undo.wrote ELSE NoPins
Pending(o) == IF o.op = "pin" THEN {<<o.req.run, o.at>>} ELSE {}

(***************************************************************************)
(* Shapes of steps.  A step is calm, or it resolves a manifest, writes a   *)
(* pin or rolls one back.  A calm step adds no pin to the lock, and the    *)
(* process it moves stops pinning and rolling back, or goes on to roll     *)
(* back what it already held.                                              *)
(***************************************************************************)
Calms(o, n) ==
  \/ n = o
  \/ n.op \notin {"pin", "recheck", "revert"}
  \/ o.op = "recheck" /\ n = [op |-> "revert", undo |-> o.undo]

CalmStep ==
  /\ \A r \in Runs : run'[r].nextPin = run[r].nextPin
  /\ \A s \in Services : LivePins'[s] \in {None, LivePins[s]}
  /\ \A c \in Callers : Calms(caller[c], caller'[c])

MovesOnly(c) == \A d \in Callers : d # c => caller'[d] = caller[d]

PinStep(c) ==
  /\ caller[c].op = "pin"
  /\ lock # None /\ PinAdmitted(lock, caller[c].req)
  /\ lock' = PinWrite(lock, caller[c].req, caller[c].at)
  /\ caller'[c] \in {caller[c], Idle, [op |-> "recheck",
                                       undo |-> UndoOf(lock, caller[c].req, caller[c].at)]}
  /\ MovesOnly(c) /\ run' = run

RevertStep(c) ==
  /\ caller[c].op = "revert"
  /\ lock # None /\ Stands(lock, caller[c].undo)
  /\ lock' = Reverted(lock, caller[c].undo)
  /\ caller'[c] \in {caller[c], Idle}
  /\ MovesOnly(c) /\ run' = run

ResolveStep(c) == \E paired \in BOOLEAN : ResolveManifest(c, paired)

\* The pins of the lock are a map of pins.
LEMMA LivePinsType == Inv => LivePins \in PinMap
  BY DEF Inv, TypeOK, LivePins, NoPins, PinMap, Lock

\* The mutators other than a pin and its rollback only take pins away, and
\* their callers neither pin nor roll back next.
LEMMA OutcomeCalm ==
  ASSUME NEW l \in Lock \cup {None}, NEW o \in Op, o.op \in MutatorOps \ {"pin", "revert"}
  PROVE  LET out == Outcome(l, o) IN
         /\ out.next.op \notin {"pin", "recheck", "revert"}
         /\ out.lock = None => l = None
         /\ l # None => \A s \in Services : out.lock.pins[s] \in {None, l.pins[s]}
         /\ l = None /\ out.lock # None => \A s \in Services : out.lock.pins[s] = None
<1> DEFINE Good(out) ==
             /\ out.next.op \notin {"pin", "recheck", "revert"}
             /\ out.lock = None => l = None
             /\ l # None => \A s \in Services : out.lock.pins[s] \in {None, l.pins[s]}
             /\ l = None /\ out.lock # None => \A s \in Services : out.lock.pins[s] = None
<1>1. Good(Refused(l))
  BY DEF Refused, Raised, Idle
<1>2. ASSUME NEW n, n.op \notin {"pin", "recheck", "revert"} PROVE Good(Raised(l, n))
  BY <1>2 DEF Raised
<1>3. ASSUME l # None, NEW S \in SUBSET Pinned(l), NEW n, n.op \notin {"pin", "recheck", "revert"}
      PROVE  Good(Written(Release(l, S), n))
  <2>1. /\ Release(l, S) \in Lock
        /\ \A s \in Services : Release(l, S).pins[s] = IF s \in S THEN None ELSE l.pins[s]
    BY <1>3, ReleaseType
  <2> QED
    BY <1>3, <2>1, NoneAssumption DEF Written
<1>4. ASSUME NEW w \in Lock, l # None, w.pins = l.pins PROVE Good(Written(w, Idle))
  BY <1>4, NoneAssumption DEF Written, Idle
<1>5. Idle.op \notin {"pin", "recheck", "revert"}
  BY DEF Idle
<1>6. CASE o.op = "reset"
  <2> DEFINE S == ResetTargets(l, o.service, o.ifRun)
                    \ (IF Defers(l, o.service, o.ifRun) THEN {Loader} ELSE {})
             n == IF Defers(l, o.service, o.ifRun)
                    THEN [op |-> "await", image |-> l.pins[Schema].canonical,
                          loader |-> l.pins[Loader]]
                    ELSE Idle
  <2>1. S \in SUBSET Pinned(l)
    BY ResetNames
  <2>2. n.op \notin {"pin", "recheck", "revert"}
    BY <1>5
  <2>3. Outcome(l, o) = ResetOutcome(l, o)
    BY <1>6 DEF Outcome
  <2> DEFINE m == [op |-> "await", image |-> l.entry[Schema].image, loader |-> l.pins[Loader]]
  <2>4. m.op \notin {"pin", "recheck", "revert"}
    OBVIOUS
  <2>5. \/ ResetOutcome(l, o) = Raised(l, m)
        \/ l # None /\ ResetOutcome(l, o) = Written(Release(l, S), n)
        \/ ResetOutcome(l, o) = Refused(l)
    BY DEF ResetOutcome, ResetWrite
  <2> HIDE DEF S, n, m, Good
  <2>6. Good(ResetOutcome(l, o))
    BY <2>1, <2>2, <2>4, <2>5, <1>1, <1>2, <1>3
  <2> QED
    BY <2>3, <2>6 DEF Good
<1>7. CASE o.op = "loader"
  <2>1. Outcome(l, o) = LoaderOutcome(l, o)
    BY <1>7 DEF Outcome
  <2>2. o.loader \in Pin
    BY <1>7, OpArguments DEF LoaderOp
  <2>3. l # None /\ l.pins[Loader] = o.loader => {Loader} \in SUBSET Pinned(l)
    BY <2>2, LockDataAssumption, NoneAssumption DEF Pinned
  <2>4. \/ l # None /\ {Loader} \in SUBSET Pinned(l)
           /\ LoaderOutcome(l, o) = Written(Release(l, {Loader}), Idle)
        \/ LoaderOutcome(l, o) = Refused(l)
    BY <2>3 DEF LoaderOutcome
  <2> HIDE DEF Good
  <2>5. Good(LoaderOutcome(l, o))
    BY <1>1, <1>3, <1>5, <2>4
  <2> QED
    BY <2>1, <2>5 DEF Good
<1>8. CASE o.op = "sweep"
  <2>1. Outcome(l, o) = SweepOutcome(l, o)
    BY <1>8 DEF Outcome
  <2>2. o.seen \in PinMap
    BY <1>8, OpArguments DEF SweepOp
  <2>3. l # None => SweepTargets(l, o.seen) \in SUBSET Pinned(l)
    BY <2>2, SweepNames
  <2>4. \/ l # None /\ SweepOutcome(l, o) = Written(Release(l, SweepTargets(l, o.seen)), Idle)
        \/ SweepOutcome(l, o) = Refused(l)
    BY DEF SweepOutcome, SweepWrite
  <2> HIDE DEF Good
  <2>5. Good(SweepOutcome(l, o))
    BY <1>1, <1>3, <1>5, <2>3, <2>4
  <2> QED
    BY <2>1, <2>5 DEF Good
<1>9. CASE o.op = "refresh"
  <2>1. Outcome(l, o) = RefreshOutcome(l, o)
    BY <1>9 DEF Outcome
  <2>2. o.image \in Canonicals
    BY <1>9, OpArguments DEF RefreshOp
  <2>3. l # None => /\ RefreshWrite(l, o.names, o.image) \in Lock
                    /\ RefreshWrite(l, o.names, o.image).pins = l.pins
    BY <2>2, RefreshWriteSound DEF RefreshWrite
  <2>4. \/ l # None /\ RefreshOutcome(l, o) = Written(RefreshWrite(l, o.names, o.image), Idle)
        \/ RefreshOutcome(l, o) = Refused(l)
    BY DEF RefreshOutcome
  <2> HIDE DEF Good
  <2>5. Good(RefreshOutcome(l, o))
    BY <1>1, <1>4, <2>3, <2>4
  <2> QED
    BY <2>1, <2>5 DEF Good
<1>10. CASE o.op = "apply"
  <2>1. Outcome(l, o) = Written(ApplyWrite(l, o.image), Idle)
    BY <1>10 DEF Outcome, ApplyOutcome
  <2>2. o.image \in Canonicals
    BY <1>10, OpArguments DEF ApplyOp
  <2>3. ApplyWrite(l, o.image) \in Lock
    BY <2>2, ApplyWriteSound
  <2>4. CASE l = None
    <3>1. \A s \in Services : ApplyWrite(l, o.image).pins[s] = None
      BY <2>4 DEF ApplyWrite
    <3> QED
      BY <2>1, <2>3, <2>4, <3>1, <1>5 DEF Written
  <2>5. CASE l # None
    <3>1. ApplyWrite(l, o.image).pins = l.pins
      BY <2>5 DEF ApplyWrite
    <3> HIDE DEF Good
    <3>2. Good(Outcome(l, o))
      BY <1>4, <2>1, <2>3, <2>5, <3>1
    <3> QED
      BY <3>2 DEF Good
  <2> QED
    BY <2>4, <2>5
<1>11. CASE o.op = "project"
  <2>1. Outcome(l, o) = ProjectOutcome(l, o)
    BY <1>11 DEF Outcome
  <2>2. o.service \in Services /\ o.repo \in Repos \cup {None}
    BY <1>11, OpArguments DEF ProjectOp
  <2>3. l # None => /\ ProjectWrite(l, o.service, o.repo) \in Lock
                    /\ ProjectWrite(l, o.service, o.repo).pins = l.pins
    BY <2>2, ProjectWriteSound DEF ProjectWrite
  <2>4. \/ l # None /\ ProjectOutcome(l, o) = Written(ProjectWrite(l, o.service, o.repo), Idle)
        \/ ProjectOutcome(l, o) = Refused(l)
    BY DEF ProjectOutcome
  <2> HIDE DEF Good
  <2>5. Good(ProjectOutcome(l, o))
    BY <1>1, <1>4, <2>3, <2>4
  <2> QED
    BY <2>1, <2>5 DEF Good
<1> QED
  BY <1>6, <1>7, <1>8, <1>9, <1>10, <1>11 DEF MutatorOps

\* A step that changes at most one process, to an operation it may calmly
\* go on to, is calm when the lock and the next ticks of the runs stay.
LEMMA QuietIsCalm ==
  ASSUME Inv, NEW c \in Callers, NEW n, Calms(caller[c], n), Becomes(c, n),
         UNCHANGED lock, \A r \in Runs : run'[r].nextPin = run[r].nextPin
  PROVE  CalmStep
<1>1. LivePins' = LivePins
  BY DEF LivePins
<1>2. ASSUME NEW d \in Callers PROVE Calms(caller[d], caller'[d])
  <2>1. caller'[d] = IF d = c THEN n ELSE caller[d]
    BY DEF Becomes, Inv, TypeOK
  <2> QED
    BY <2>1 DEF Calms
<1> QED
  BY <1>1, <1>2 DEF CalmStep

\* A mutation other than a pin and its rollback is calm, acknowledged or not.
LEMMA MutationIsCalm ==
  ASSUME Inv, NEW c \in Callers, caller[c].op \in MutatorOps \ {"pin", "revert"},
         lock' = Outcome(lock, caller[c]).lock,
         Becomes(c, Outcome(lock, caller[c]).next) \/ Becomes(c, Idle) \/ UNCHANGED caller,
         UNCHANGED run
  PROVE  CalmStep
<1> DEFINE out == Outcome(lock, caller[c])
<1>1. lock \in Lock \cup {None} /\ caller[c] \in Op
  BY DEF Inv, TypeOK
<1>2. /\ out.next.op \notin {"pin", "recheck", "revert"}
      /\ out.lock = None => lock = None
      /\ lock # None => \A s \in Services : out.lock.pins[s] \in {None, lock.pins[s]}
      /\ lock = None /\ out.lock # None => \A s \in Services : out.lock.pins[s] = None
  BY <1>1, OutcomeCalm
<1>3. lock' = out.lock
  OBVIOUS
<1>4. Becomes(c, out.next) \/ Becomes(c, Idle) \/ UNCHANGED caller
  OBVIOUS
<1> HIDE DEF out
<1>5. ASSUME NEW s \in Services PROVE LivePins'[s] \in {None, LivePins[s]}
  BY <1>2, <1>3 DEF LivePins, NoPins
<1>6. ASSUME NEW d \in Callers PROVE Calms(caller[d], caller'[d])
  <2>1. ASSUME NEW n, n.op \notin {"pin", "recheck", "revert"}, Becomes(c, n)
        PROVE  Calms(caller[d], caller'[d])
    <3>1. caller'[d] = IF d = c THEN n ELSE caller[d]
      BY <2>1 DEF Becomes, Inv, TypeOK
    <3> QED
      BY <2>1, <3>1 DEF Calms
  <2>2. Idle.op \notin {"pin", "recheck", "revert"}
    BY DEF Idle
  <2>3. CASE UNCHANGED caller
    BY <2>3 DEF Calms
  <2> QED
    BY <1>2, <1>4, <2>1, <2>2, <2>3
<1> QED
  BY <1>5, <1>6 DEF CalmStep

\* The shape of an acknowledged step of one process.
LEMMA AckedShape ==
  ASSUME Inv, NEW c \in Callers, AckedStep(c)
  PROVE  \/ CalmStep
         \/ ResolveStep(c)
         \/ PinStep(c) /\ caller'[c] = [op |-> "recheck",
                                        undo |-> UndoOf(lock, caller[c].req, caller[c].at)]
         \/ RevertStep(c) /\ caller'[c] = Idle
<1> DEFINE o == caller[c]
           Plain(n) == n.op \notin {"pin", "recheck", "revert"}
           Keeps(n) == /\ Plain(n) /\ Becomes(c, n) /\ UNCHANGED <<lock, run>>
           Mutates(op) == op \in MutatorOps \ {"pin", "revert"} /\ Mutate(c, op)
<1>1. ASSUME NEW n, Keeps(n) PROVE CalmStep
  BY <1>1, QuietIsCalm DEF Calms
<1>2. ASSUME NEW op, Mutates(op) PROVE CalmStep
  <2>1. /\ o.op \in MutatorOps \ {"pin", "revert"}
        /\ lock' = Outcome(lock, o).lock /\ Becomes(c, Outcome(lock, o).next) /\ UNCHANGED run
    BY <1>2 DEF Mutate, env
  <2> QED
    BY <2>1, MutationIsCalm
<1>3. Plain(Idle)
  BY DEF Idle
<1>4. ASSUME NEW q \in PinRequests, CheckDeployable(c, q) PROVE CalmStep
  <2>1. Keeps([op |-> "resolve", req |-> q])
    BY <1>4 DEF CheckDeployable, Begin
  <2> QED
    BY <1>1, <2>1
<1>5. ASSUME NEW paired \in BOOLEAN, ResolveManifest(c, paired) PROVE ResolveStep(c)
  BY <1>5 DEF ResolveStep
<1>6. ASSUME WritePin(c)
      PROVE  \/ CalmStep
             \/ PinStep(c) /\ caller'[c] = [op |-> "recheck", undo |-> UndoOf(lock, o.req, o.at)]
  <2>1. /\ o.op = "pin" /\ lock' = PinOutcome(lock, o).lock
        /\ Becomes(c, PinOutcome(lock, o).next) /\ UNCHANGED run
    BY <1>6 DEF WritePin, Mutate, Outcome, env
  <2>2. CASE lock # None /\ PinAdmitted(lock, o.req)
    <3> DEFINE n == [op |-> "recheck", undo |-> UndoOf(lock, o.req, o.at)]
    <3>1. PinOutcome(lock, o) = Written(PinWrite(lock, o.req, o.at), n)
      BY <2>2 DEF PinOutcome
    <3> HIDE DEF n
    <3>2. lock' = PinWrite(lock, o.req, o.at) /\ Becomes(c, n)
      BY <2>1, <3>1 DEF Written
    <3>3. caller'[c] = n /\ MovesOnly(c)
      BY <3>2 DEF Becomes, MovesOnly, Inv, TypeOK
    <3> QED
      BY <2>1, <2>2, <3>2, <3>3 DEF PinStep, n
  <2>3. CASE ~(lock # None /\ PinAdmitted(lock, o.req))
    <3>1. PinOutcome(lock, o) = Refused(lock)
      BY <2>3 DEF PinOutcome
    <3>2. Keeps(Idle)
      BY <2>1, <3>1, <1>3 DEF Refused, Raised
    <3> QED
      BY <3>2, <1>1
  <2> QED
    BY <2>2, <2>3
<1>7. ASSUME RecheckClear(c) PROVE CalmStep
  BY <1>1, <1>3, <1>7 DEF RecheckClear
<1>8. ASSUME RecheckBlocked(c) PROVE CalmStep
  <2> DEFINE n == [op |-> "revert", undo |-> o.undo]
  <2>1. Calms(o, n) /\ Becomes(c, n) /\ UNCHANGED <<lock, run>>
    BY <1>8 DEF RecheckBlocked, Calms
  <2> HIDE DEF n
  <2> QED
    BY <2>1, QuietIsCalm
<1>9. ASSUME RevertPin(c) PROVE CalmStep \/ (RevertStep(c) /\ caller'[c] = Idle)
  <2>1. /\ o.op = "revert" /\ lock' = RevertOutcome(lock, o).lock
        /\ Becomes(c, RevertOutcome(lock, o).next) /\ UNCHANGED run
    BY <1>9 DEF RevertPin, Mutate, Outcome, env
  <2>2. CASE lock # None /\ Stands(lock, o.undo)
    <3>1. RevertOutcome(lock, o) = Written(Reverted(lock, o.undo), Idle)
      BY <2>2 DEF RevertOutcome
    <3>2. lock' = Reverted(lock, o.undo) /\ Becomes(c, Idle)
      BY <2>1, <3>1 DEF Written
    <3>3. caller'[c] = Idle /\ MovesOnly(c)
      BY <3>2 DEF Becomes, MovesOnly, Inv, TypeOK
    <3> QED
      BY <2>1, <2>2, <3>2, <3>3 DEF RevertStep
  <2>3. CASE ~(lock # None /\ Stands(lock, o.undo))
    <3>1. RevertOutcome(lock, o) = Refused(lock)
      BY <2>3 DEF RevertOutcome
    <3>2. Keeps(Idle)
      BY <2>1, <3>1, <1>3 DEF Refused, Raised
    <3> QED
      BY <3>2, <1>1
  <2> QED
    BY <2>2, <2>3
<1>10. ASSUME NEW s \in Services, NEW r \in Runs \cup {None}, StartReset(c, s, r) PROVE CalmStep
  <2>1. Keeps([op |-> "reset", service |-> s, ifRun |-> r])
    BY <1>10 DEF StartReset, Begin
  <2> QED
    BY <1>1, <2>1
<1>11. ASSUME ResetService(c) PROVE CalmStep
  BY <1>2, <1>11 DEF ResetService, MutatorOps
<1>12. ASSUME SchemaServes(c) PROVE CalmStep
  <2>1. Keeps([op |-> "loader", loader |-> o.loader])
    BY <1>12 DEF SchemaServes
  <2> QED
    BY <1>1, <2>1
<1>13. ASSUME ResetPairedLoader(c) PROVE CalmStep
  BY <1>2, <1>13 DEF ResetPairedLoader, MutatorOps
<1>14. ASSUME SweepRead(c) PROVE CalmStep
  <2>1. Keeps([op |-> "judge",
               seen |-> [s \in Services |-> IF s \in Ephemeral(lock) THEN lock.pins[s] ELSE None]])
    BY <1>14 DEF SweepRead, Begin
  <2> QED
    BY <1>1, <2>1
<1>15. ASSUME NEW unreachable \in SUBSET Runs, SweepJudge(c, unreachable) PROVE CalmStep
  <2> DEFINE stale == {s \in Services : o.seen[s] # None /\ StaleGroup(o.seen, s, unreachable)}
             n == IF stale = {} THEN Idle
                  ELSE [op |-> "sweep",
                        seen |-> [s \in Services |-> IF s \in stale THEN o.seen[s] ELSE None]]
  <2>1. Becomes(c, n) /\ UNCHANGED <<lock, run>>
    BY <1>15 DEF SweepJudge
  <2> HIDE DEF stale
  <2>2. Plain(n)
    BY <1>3
  <2> QED
    BY <1>1, <2>1, <2>2
<1>16. ASSUME SweepStale(c) PROVE CalmStep
  BY <1>2, <1>16 DEF SweepStale, MutatorOps
<1>17. ASSUME NEW names \in RefreshSets, NEW image \in Canonicals, StartRefresh(c, names, image)
       PROVE  CalmStep
  <2>1. Keeps([op |-> "refresh", names |-> names, image |-> image])
    BY <1>17 DEF StartRefresh, Begin
  <2> QED
    BY <1>1, <2>1
<1>18. ASSUME ApplyRefresh(c) PROVE CalmStep
  BY <1>2, <1>18 DEF ApplyRefresh, MutatorOps
<1>19. ASSUME NEW image \in Canonicals, StartApply(c, image) PROVE CalmStep
  <2>1. Keeps([op |-> "apply", image |-> image])
    BY <1>19 DEF StartApply, Begin
  <2> QED
    BY <1>1, <2>1
<1>20. ASSUME ApplyImageLock(c) PROVE CalmStep
  BY <1>2, <1>20 DEF ApplyImageLock, MutatorOps
<1>21. ASSUME NEW s \in Services, NEW repo \in Repos \cup {None}, StartProject(c, s, repo)
       PROVE  CalmStep
  <2>1. Keeps([op |-> "project", service |-> s, repo |-> repo])
    BY <1>21 DEF StartProject, Begin
  <2> QED
    BY <1>1, <2>1
<1>22. ASSUME ProjectRoster(c) PROVE CalmStep
  BY <1>2, <1>22 DEF ProjectRoster, MutatorOps
<1>23. ASSUME GiveUp(c) PROVE CalmStep
  BY <1>1, <1>3, <1>23 DEF GiveUp
<1> HIDE DEF o, Plain, Keeps, Mutates
<1> QED
  BY <1>4, <1>5, <1>6, <1>7, <1>8, <1>9, <1>10, <1>11, <1>12, <1>13, <1>14, <1>15, <1>16,
     <1>17, <1>18, <1>19, <1>20, <1>21, <1>22, <1>23 DEF AckedStep, o

\* The shape of a step whose reply was lost.
LEMMA LostShape ==
  ASSUME Inv, NEW c \in Callers, ReplyLost(c)
  PROVE  CalmStep \/ PinStep(c) \/ RevertStep(c)
<1> DEFINE o == caller[c]
<1>1. /\ o.op \in MutatorOps /\ Outcome(lock, o).writes /\ lock' = Outcome(lock, o).lock
      /\ Becomes(c, Idle) \/ UNCHANGED caller
      /\ UNCHANGED run
  BY DEF ReplyLost, env
<1>2. caller'[c] \in {o, Idle} /\ MovesOnly(c)
  BY <1>1 DEF Becomes, MovesOnly, Inv, TypeOK
<1>3. CASE o.op = "pin"
  <2>1. Outcome(lock, o) = PinOutcome(lock, o)
    BY <1>3 DEF Outcome
  <2>2. /\ lock # None /\ PinAdmitted(lock, o.req)
        /\ lock' = PinWrite(lock, o.req, o.at)
    BY <1>1, <2>1 DEF PinOutcome, Written, Refused, Raised
  <2> QED
    BY <1>1, <1>2, <1>3, <2>2 DEF PinStep
<1>4. CASE o.op = "revert"
  <2>1. Outcome(lock, o) = RevertOutcome(lock, o)
    BY <1>4 DEF Outcome
  <2>2. /\ lock # None /\ Stands(lock, o.undo)
        /\ lock' = Reverted(lock, o.undo)
    BY <1>1, <2>1 DEF RevertOutcome, Written, Refused, Raised
  <2> QED
    BY <1>1, <1>2, <1>4, <2>2 DEF RevertStep
<1>5. CASE o.op \notin {"pin", "revert"}
  BY <1>1, <1>5, MutationIsCalm
<1> QED
  BY <1>3, <1>4, <1>5

\* A step of the environment, or none, is calm.
LEMMA EnvironmentCalm ==
  ASSUME Inv, EnvironmentStep \/ UNCHANGED vars
  PROVE  CalmStep
<1>1. UNCHANGED <<lock, caller>>
  BY DEF EnvironmentStep, UpsertDeployRecord, SetMaintenance, RunCompletes, RerunStarts,
         TimePasses, vars
<1>2. ASSUME NEW r \in Runs PROVE run'[r].nextPin = run[r].nextPin
  <2>1. run \in [Runs -> RunRecord]
    BY DEF Inv, TypeOK
  <2>2. ASSUME NEW q \in Runs, run' = [run EXCEPT ![q].state = "completed"]
        PROVE  run'[r].nextPin = run[r].nextPin
    BY <2>1, <2>2 DEF RunRecord
  <2>3. ASSUME NEW q \in Runs, NEW t, run' = [run EXCEPT ![q].state = "running", ![q].since = t]
        PROVE  run'[r].nextPin = run[r].nextPin
    BY <2>1, <2>3 DEF RunRecord
  <2>4. UNCHANGED run \/ (\E q \in Runs : RunCompletes(q) \/ RerunStarts(q))
    BY DEF EnvironmentStep, UpsertDeployRecord, SetMaintenance, TimePasses, vars
  <2> QED
    BY <2>2, <2>3, <2>4 DEF RunCompletes, RerunStarts
<1>3. LivePins' = LivePins
  BY <1>1 DEF LivePins
<1> QED
  BY <1>1, <1>2, <1>3 DEF CalmStep, Calms

\* The shape of every step.
LEMMA StepShape ==
  ASSUME Inv, [Next]_vars
  PROVE  CalmStep \/ \E c \in Callers : ResolveStep(c) \/ PinStep(c) \/ RevertStep(c)
<1>1. CASE EnvironmentStep \/ UNCHANGED vars
  BY <1>1, EnvironmentCalm
<1>2. ASSUME NEW c \in Callers, ProcessStep(c)
      PROVE  CalmStep \/ ResolveStep(c) \/ PinStep(c) \/ RevertStep(c)
  BY <1>2, AckedShape, LostShape DEF ProcessStep
<1> QED
  BY <1>1, <1>2 DEF Next

(***************************************************************************)
(* Where the marks are                                                     *)
(***************************************************************************)

\* Every mark a process holds; those it may yet put on the loader; and the
\* mark of a schema pin that was, or will be, written without its loader.
MarksOf(o) == Pending(o) \cup Marks(WrotePins(o)) \cup Marks(PriorPins(o))

LoaderMarks(o) ==
  (IF o.op = "pin" /\ o.req.paired THEN Pending(o) ELSE {}) \cup MarkAt(PriorPins(o), Loader)

SingleMarks(o) ==
  IF o.op = "pin" THEN IF o.req.service = Schema /\ ~o.req.paired THEN Pending(o) ELSE {}
  ELSE IF Undoing(o) /\ Schema \in o.undo.names /\ Loader \notin o.undo.names
    THEN MarkAt(o.undo.wrote, Schema) ELSE {}

AllMarks == Marks(LivePins) \cup UNION {MarksOf(caller[c]) : c \in Callers}
Loaders == MarkAt(LivePins, Loader) \cup UNION {LoaderMarks(caller[c]) : c \in Callers}
Singles == UNION {SingleMarks(caller[c]) : c \in Callers}

\* A run's later pins carry later marks.
Spent(x) == x[1] \in Runs => x[2] < run[x[1]].nextPin

\* Schema and its loader, when both are pinned, by one write.
Together(pins) ==
  pins[Schema] # None /\ pins[Loader] # None =>
    pins[Schema].image = pins[Loader].image /\ Mark(pins[Schema]) = Mark(pins[Loader])

\* A rollback replays a pair written together, and takes the loader back
\* only with schema.
UndoTogether(u) ==
  /\ Together(u.priorPins)
  /\ Loader \in u.names => Schema \in u.names
  /\ Schema \in u.names => u.wrote[Schema] # None
  /\ \A s \in Services \ u.names : u.priorPins[s] = None

\* What makes PairPinnedTogether inductive: a schema pin written without a
\* loader never meets a loader of the same mark, so the rollback of such a
\* pin restores an earlier schema pin only where no loader is pinned.
PairInv ==
  /\ \A x \in AllMarks : Spent(x)
  /\ Together(LivePins)
  /\ \A c \in Callers : Undoing(caller[c]) => UndoTogether(caller[c].undo)
  /\ Loaders \subseteq Runs \X Times
  /\ Singles \cap Loaders = {}

\* The loader's marks and the single ones are marks.
LEMMA SomeMarks ==
  ASSUME Inv
  PROVE  Loaders \subseteq AllMarks /\ Singles \subseteq AllMarks
<1>1. ASSUME NEW pins, NEW s \in Services PROVE MarkAt(pins, s) \subseteq Marks(pins)
  BY DEF Marks
<1>2. Loader \in Services /\ Schema \in Services
  BY LockDataAssumption
<1>3. ASSUME NEW c \in Callers
      PROVE  /\ LoaderMarks(caller[c]) \subseteq MarksOf(caller[c])
             /\ SingleMarks(caller[c]) \subseteq MarksOf(caller[c])
  <2>1. MarkAt(PriorPins(caller[c]), Loader) \subseteq Marks(PriorPins(caller[c]))
    BY <1>1, <1>2
  <2>2. MarkAt(WrotePins(caller[c]), Schema) \subseteq Marks(WrotePins(caller[c]))
    BY <1>1, <1>2
  <2>3. Undoing(caller[c]) => WrotePins(caller[c]) = caller[c].undo.wrote
    BY DEF WrotePins
  <2> QED
    BY <2>1, <2>2, <2>3 DEF LoaderMarks, SingleMarks, MarksOf
<1>4. MarkAt(LivePins, Loader) \subseteq Marks(LivePins)
  BY <1>1, <1>2
<1> QED
  BY <1>3, <1>4 DEF Loaders, Singles, AllMarks

\* A mark names a run, or none, and a time.
LEMMA MarksType ==
  ASSUME Inv
  PROVE  AllMarks \subseteq (Runs \cup {None}) \X Times
<1>1. ASSUME NEW pins \in PinMap, NEW s \in Services
      PROVE  MarkAt(pins, s) \subseteq (Runs \cup {None}) \X Times
  BY DEF MarkAt, Mark, PinMap, Pin
<1>2. NoPins \in PinMap
  BY DEF NoPins, PinMap
<1>3. ASSUME NEW pins \in PinMap PROVE Marks(pins) \subseteq (Runs \cup {None}) \X Times
  BY <1>1 DEF Marks
<1>4. ASSUME NEW c \in Callers PROVE MarksOf(caller[c]) \subseteq (Runs \cup {None}) \X Times
  <2>1. /\ caller[c] \in Op
        /\ caller[c].op = "pin" => caller[c].req \in Request /\ caller[c].at \in Times
        /\ Undoing(caller[c]) => caller[c].undo \in Undo
    BY OpArguments DEF Inv, TypeOK, PinOp, UndoOp, Undoing
  <2>2. WrotePins(caller[c]) \in PinMap /\ PriorPins(caller[c]) \in PinMap
    BY <2>1, <1>2 DEF WrotePins, PriorPins, Undo
  <2>3. Pending(caller[c]) \subseteq (Runs \cup {None}) \X Times
    BY <2>1 DEF Pending, Request
  <2> QED
    BY <1>3, <2>2, <2>3 DEF MarksOf
<1> QED
  BY <1>3, <1>4, LivePinsType DEF AllMarks

\* Nothing is pinned at first.
LEMMA InitialPins ==
  ASSUME Init, NEW s \in Services
  PROVE  LivePins[s] = None
<1>1. CASE lock = None
  BY <1>1 DEF LivePins, NoPins
<1>2. CASE lock # None
  <2>1. PICK image \in Canonicals, t \in [Services -> Repos \cup {None}] :
          lock = [ApplyWrite(None, image) EXCEPT !.trusted = t]
    BY <1>2 DEF Init, InitialLocks
  <2>2. lock.pins = [r \in Services |-> None]
    BY <2>1 DEF ApplyWrite
  <2> QED
    BY <1>2, <2>2 DEF LivePins
<1> QED
  BY <1>1, <1>2

\* Nobody holds a mark at the start.
LEMMA PairInit == Init => PairInv
<1> SUFFICES ASSUME Init PROVE PairInv
  OBVIOUS
<1>1. ASSUME NEW s \in Services PROVE LivePins[s] = None
  BY InitialPins
<1>2. ASSUME NEW c \in Callers PROVE caller[c].op = "idle"
  BY DEF Init, Idle
<1>3. \A s \in Services : MarkAt(LivePins, s) = {} /\ MarkAt(NoPins, s) = {}
  BY <1>1 DEF MarkAt, NoPins
<1>4. \A c \in Callers : /\ MarksOf(caller[c]) = {} /\ LoaderMarks(caller[c]) = {}
                         /\ SingleMarks(caller[c]) = {} /\ ~Undoing(caller[c])
  BY <1>2, <1>3, LockDataAssumption
    DEF MarksOf, LoaderMarks, SingleMarks, Pending, WrotePins, PriorPins, Undoing, Marks
<1>5. AllMarks = {} /\ Loaders = {} /\ Singles = {}
  BY <1>3, <1>4, LockDataAssumption DEF AllMarks, Loaders, Singles, Marks
<1> QED
  BY <1>1, <1>4, <1>5, LockDataAssumption DEF PairInv, Together

\* A process that goes on calmly holds no new mark.
LEMMA CalmMarks ==
  ASSUME NEW o, NEW n, Calms(o, n)
  PROVE  /\ MarksOf(n) \subseteq MarksOf(o) /\ LoaderMarks(n) \subseteq LoaderMarks(o)
         /\ SingleMarks(n) \subseteq SingleMarks(o)
         /\ Undoing(n) => Undoing(o) /\ n.undo = o.undo
<1>1. CASE n = o
  BY <1>1
<1>2. CASE n.op \notin {"pin", "recheck", "revert"}
  <2>1. /\ ~Undoing(n) /\ n.op # "pin" /\ Pending(n) = {}
        /\ WrotePins(n) = NoPins /\ PriorPins(n) = NoPins
    BY <1>2 DEF Undoing, Pending, WrotePins, PriorPins
  <2>2. \A s \in Services : MarkAt(NoPins, s) = {}
    BY DEF MarkAt, NoPins
  <2>3. Marks(NoPins) = {} /\ MarkAt(NoPins, Loader) = {}
    BY <2>2, LockDataAssumption DEF Marks
  <2> QED
    BY <2>1, <2>3 DEF MarksOf, LoaderMarks, SingleMarks
<1>3. CASE o.op = "recheck" /\ n = [op |-> "revert", undo |-> o.undo]
  BY <1>3 DEF MarksOf, LoaderMarks, SingleMarks, Undoing, Pending, WrotePins, PriorPins
<1> QED
  BY <1>1, <1>2, <1>3 DEF Calms

\* The marks of fewer pins.
LEMMA FewerMarks ==
  ASSUME NEW p, NEW q, NEW s \in Services, q[s] \in {None, p[s]}
  PROVE  MarkAt(q, s) \subseteq MarkAt(p, s)
  BY DEF MarkAt

\* A step that adds no mark, and keeps the marks made so far spent.
LEMMA FewerMarksKept ==
  ASSUME PairInv, AllMarks' \subseteq AllMarks, Loaders' \subseteq Loaders,
         Singles' \subseteq Singles, \A r \in Runs : run'[r].nextPin = run[r].nextPin,
         Together(LivePins)',
         \A c \in Callers : Undoing(caller[c])' => UndoTogether(caller[c].undo)'
  PROVE  PairInv'
<1>1. ASSUME NEW x \in AllMarks' PROVE Spent(x)'
  <2>1. Spent(x)
    BY DEF PairInv
  <2> QED
    BY <2>1 DEF Spent
<1> QED
  BY <1>1 DEF PairInv

\* A calm step keeps the pair together.
LEMMA PairCalm ==
  ASSUME Inv, PairInv, CalmStep
  PROVE  PairInv'
<1>1. \A s \in Services : MarkAt(LivePins', s) \subseteq MarkAt(LivePins, s)
  BY FewerMarks DEF CalmStep
<1>2. ASSUME NEW c \in Callers
      PROVE  /\ MarksOf(caller'[c]) \subseteq MarksOf(caller[c])
             /\ LoaderMarks(caller'[c]) \subseteq LoaderMarks(caller[c])
             /\ SingleMarks(caller'[c]) \subseteq SingleMarks(caller[c])
             /\ Undoing(caller'[c]) => Undoing(caller[c]) /\ caller'[c].undo = caller[c].undo
  BY CalmMarks DEF CalmStep
<1>3. AllMarks' \subseteq AllMarks
  <2>1. Marks(LivePins') \subseteq Marks(LivePins)
    BY <1>1 DEF Marks
  <2> QED
    BY <1>2, <2>1 DEF AllMarks
<1>4. Loaders' \subseteq Loaders /\ Singles' \subseteq Singles
  BY <1>1, <1>2, LockDataAssumption DEF Loaders, Singles
<1>5. Together(LivePins)'
  <2>1. LivePins'[Schema] \in {None, LivePins[Schema]} /\ LivePins'[Loader] \in {None, LivePins[Loader]}
    BY LockDataAssumption DEF CalmStep
  <2> QED
    BY <2>1 DEF PairInv, Together
<1>6. \A c \in Callers : Undoing(caller[c])' => UndoTogether(caller[c].undo)'
  BY <1>2 DEF PairInv
<1> QED
  BY <1>3, <1>4, <1>5, <1>6, FewerMarksKept DEF CalmStep

\* The resolution of a manifest makes one mark, later than all of its run.
LEMMA ResolveMark ==
  ASSUME Inv, NEW c \in Callers, ResolveStep(c)
  PROVE  \E n : LET x == <<n.req.run, n.at>> IN
           /\ n.op = "pin" /\ n.req \in Request /\ n.at \in Times
           /\ caller' = [caller EXCEPT ![c] = n]
           /\ UNCHANGED lock
           /\ ~Undoing(caller[c])
           /\ \A r \in Runs : run'[r].nextPin >= run[r].nextPin
           /\ x[1] \in Runs => x[2] >= run[x[1]].nextPin /\ x[2] < run'[x[1]].nextPin
<1> DEFINE o == caller[c]
<1>1. PICK paired \in BOOLEAN : ResolveManifest(c, paired)
  BY DEF ResolveStep
<1> DEFINE q == [o.req EXCEPT !.paired = paired]
           n == [op |-> "pin", req |-> q, at |-> now]
<1>2. o.req \in Request /\ now \in Times /\ o.op = "resolve"
  BY <1>1, OpArguments DEF Inv, TypeOK, ResolveManifest, ResolveOp
<1>3. q \in Request /\ q.run = o.req.run
  BY <1>1, <1>2 DEF ResolveManifest, Request
<1>4. caller' = [caller EXCEPT ![c] = n] /\ UNCHANGED lock
  BY <1>1 DEF ResolveManifest, Becomes
<1>5. ~Undoing(o)
  BY <1>2 DEF Undoing
<1>6. /\ \A r \in Runs : run'[r].nextPin >= run[r].nextPin
      /\ o.req.run \in Runs => now >= run[o.req.run].nextPin /\ now < run'[o.req.run].nextPin
  <2>1. run \in [Runs -> RunRecord] /\ now \in Nat
    BY <1>2 DEF Inv, TypeOK, Times
  <2>2. \A r \in Runs : run[r].nextPin \in Nat
    BY <2>1 DEF RunRecord, Times
  <2>3. CASE o.req.run = None
    <3>1. run' = run /\ o.req.run \notin Runs
      BY <1>1, <2>3, LockDataAssumption DEF ResolveManifest
    <3> QED
      BY <2>2, <3>1
  <2>4. CASE o.req.run # None
    <3>1. /\ o.req.run \in Runs /\ now >= run[o.req.run].nextPin
          /\ run' = [run EXCEPT ![o.req.run].nextPin = now + 1]
      BY <1>1, <1>2, <2>4 DEF ResolveManifest, Request
    <3>2. run'[o.req.run].nextPin = now + 1
      BY <2>1, <3>1 DEF RunRecord
    <3>3. \A r \in Runs : r # o.req.run => run'[r] = run[r]
      BY <2>1, <3>1
    <3> QED
      BY <2>1, <2>2, <3>1, <3>2, <3>3
  <2> QED
    BY <2>3, <2>4
<1> DEFINE x == <<n.req.run, n.at>>
<1>7. x[1] = o.req.run /\ x[2] = now
  BY <1>3
<1>8. /\ n.op = "pin" /\ n.req \in Request /\ n.at \in Times
      /\ x[1] \in Runs => x[2] >= run[x[1]].nextPin /\ x[2] < run'[x[1]].nextPin
  BY <1>2, <1>3, <1>6, <1>7
<1> HIDE DEF n, q
<1> QED
  BY <1>4, <1>5, <1>6, <1>8

\* The marks of a process about to pin.
LEMMA PendingMarks ==
  ASSUME NEW n, n.op = "pin"
  PROVE  /\ ~Undoing(n)
         /\ MarksOf(n) = {<<n.req.run, n.at>>}
         /\ LoaderMarks(n) = IF n.req.paired THEN {<<n.req.run, n.at>>} ELSE {}
         /\ SingleMarks(n) = IF n.req.service = Schema /\ ~n.req.paired
                               THEN {<<n.req.run, n.at>>} ELSE {}
<1>1. /\ ~Undoing(n) /\ Pending(n) = {<<n.req.run, n.at>>}
      /\ WrotePins(n) = NoPins /\ PriorPins(n) = NoPins
  BY DEF Undoing, Pending, WrotePins, PriorPins
<1>2. \A s \in Services : MarkAt(NoPins, s) = {}
  BY DEF MarkAt, NoPins
<1>3. Marks(NoPins) = {} /\ MarkAt(NoPins, Loader) = {}
  BY <1>2, LockDataAssumption DEF Marks
<1> QED
  BY <1>1, <1>3 DEF MarksOf, LoaderMarks, SingleMarks

\* A new mark keeps the pair together: no pin carries it yet.
LEMMA PairResolve ==
  ASSUME Inv, PairInv, NEW c \in Callers, ResolveStep(c)
  PROVE  PairInv'
<1>1. PICK n : LET x == <<n.req.run, n.at>> IN
         /\ n.op = "pin" /\ n.req \in Request /\ n.at \in Times
         /\ caller' = [caller EXCEPT ![c] = n]
         /\ UNCHANGED lock
         /\ ~Undoing(caller[c])
         /\ \A r \in Runs : run'[r].nextPin >= run[r].nextPin
         /\ x[1] \in Runs => x[2] >= run[x[1]].nextPin /\ x[2] < run'[x[1]].nextPin
  BY ResolveMark
<1> DEFINE x == <<n.req.run, n.at>>
<1>2. LivePins' = LivePins
  BY <1>1 DEF LivePins
<1>3. ASSUME NEW d \in Callers PROVE caller'[d] = IF d = c THEN n ELSE caller[d]
  BY <1>1 DEF Inv, TypeOK
<1>4. /\ MarksOf(n) = {x} /\ ~Undoing(n)
      /\ LoaderMarks(n) = IF n.req.paired THEN {x} ELSE {}
      /\ SingleMarks(n) = IF n.req.service = Schema /\ ~n.req.paired THEN {x} ELSE {}
  BY <1>1, PendingMarks
<1>5. n.req.paired => x \in Runs \X Times
  BY <1>1 DEF Request
<1>6. x[1] \in Runs => x[2] >= run[x[1]].nextPin /\ x[2] < run'[x[1]].nextPin
  BY <1>1
<1> HIDE DEF x
<1>7. AllMarks' \subseteq AllMarks \cup {x}
  BY <1>2, <1>3, <1>4 DEF AllMarks
<1>8. /\ Loaders' \subseteq Loaders \cup (IF n.req.paired THEN {x} ELSE {})
      /\ Singles' \subseteq Singles \cup (IF n.req.paired THEN {} ELSE {x})
  <2>1. ASSUME NEW y \in Loaders' PROVE y \in Loaders \/ (n.req.paired /\ y = x)
    BY <1>2, <1>3, <1>4 DEF Loaders
  <2>2. ASSUME NEW y \in Singles' PROVE y \in Singles \/ (~n.req.paired /\ y = x)
    BY <1>3, <1>4 DEF Singles
  <2> QED
    BY <2>1, <2>2
<1>9. /\ \A r \in Runs : run[r].nextPin \in Nat
      /\ \A r \in Runs : run'[r].nextPin \in Nat
      /\ \A r \in Runs : run'[r].nextPin >= run[r].nextPin
  <2>1. run \in [Runs -> RunRecord]
    BY DEF Inv, TypeOK
  <2>2. run' \in [Runs -> RunRecord]
    <3>1. ProcessStep(c)
      BY DEF ProcessStep, AckedStep, ResolveStep
    <3> QED
      BY <3>1, InvProcessStep DEF Inv, TypeOK
  <2> QED
    BY <1>1, <2>1, <2>2 DEF RunRecord, Times
<1>10. ASSUME NEW y \in AllMarks' PROVE Spent(y)'
  <2>1. CASE y \in AllMarks /\ y[1] \in Runs
    <3>1. y[2] < run[y[1]].nextPin
      BY <2>1 DEF PairInv, Spent
    <3>2. y[2] \in Nat
      BY <2>1, MarksType DEF Times
    <3> QED
      BY <2>1, <3>1, <3>2, <1>9 DEF Spent
  <2>2. CASE y = x
    BY <2>2, <1>6 DEF Spent
  <2> QED
    BY <1>7, <2>1, <2>2 DEF Spent
<1>11. x[1] \in Runs => x \notin AllMarks
  <2>1. x[2] \in Nat
    BY <1>1 DEF x, Times
  <2> QED
    BY <2>1, <1>6, <1>9 DEF PairInv, Spent
<1>12. Singles' \cap Loaders' = {}
  <2>1. x \in Runs \X Times => x[1] \in Runs
    OBVIOUS
  <2>2. CASE n.req.paired
    BY <2>1, <2>2, <1>5, <1>8, <1>11, SomeMarks DEF PairInv
  <2>3. CASE ~n.req.paired
    BY <2>1, <2>3, <1>8, <1>11, SomeMarks DEF PairInv
  <2> QED
    BY <2>2, <2>3
<1>13. Loaders' \subseteq Runs \X Times
  BY <1>5, <1>8 DEF PairInv
<1>14. Together(LivePins)'
  BY <1>2 DEF PairInv, Together
<1>15. \A d \in Callers : Undoing(caller[d])' => UndoTogether(caller[d].undo)'
  BY <1>3, <1>4 DEF PairInv
<1> QED
  BY <1>10, <1>12, <1>13, <1>14, <1>15 DEF PairInv

\* What a pin call writes on schema and on its loader.
LEMMA PinWritePair ==
  ASSUME NEW l \in Lock, NEW q \in Request, NEW at \in Times, PinAdmitted(l, q)
  PROVE  LET w == PinWrite(l, q, at)
             x == <<q.run, at>>
         IN /\ q.paired => /\ w.pins[Schema].image = w.pins[Loader].image
                           /\ w.pins[Schema] # None /\ Mark(w.pins[Schema]) = x
                           /\ w.pins[Loader] # None /\ Mark(w.pins[Loader]) = x
            /\ q.service = Schema /\ ~q.paired => /\ w.pins[Schema] # None
                                                  /\ Mark(w.pins[Schema]) = x
                                                  /\ w.pins[Loader] = None
            /\ q.service # Schema => /\ w.pins[Schema] = l.pins[Schema]
                                     /\ w.pins[Loader] = l.pins[Loader]
            /\ \A s \in Services : MarkAt(w.pins, s) \subseteq MarkAt(l.pins, s) \cup {x}
<1> DEFINE w == PinWrite(l, q, at)
           x == <<q.run, at>>
           r == Release(l, StaleLoader(l, q))
<1>1. \A s \in Services : w.pins[s] = IF s \in Targets(q) THEN NewPin(l, q, s, at) ELSE r.pins[s]
  BY PinWriteType
<1>2. \A s \in Services : r.pins[s] = IF s \in StaleLoader(l, q) THEN None ELSE l.pins[s]
  BY PinNames, ReleaseType
<1>3. ASSUME NEW s \in Targets(q)
      PROVE  /\ NewPin(l, q, s, at) # None /\ Mark(NewPin(l, q, s, at)) = x
             /\ NewPin(l, q, s, at).image = q.image
  <2>1. NewPin(l, q, s, at) \in Pin
    BY NewPinType
  <2> QED
    BY <2>1, NoneAssumption DEF NewPin, Mark
<1>4. /\ Schema \in Services /\ Loader \in Services /\ Schema # Loader /\ q.service # Loader
      /\ q.paired => q.service = Schema
  BY LockDataAssumption DEF Request
<1>5. /\ Loader \in Targets(q) <=> q.paired
      /\ Schema \in Targets(q) <=> q.service = Schema
  BY <1>4 DEF Targets
<1>6. /\ q.service = Schema /\ ~q.paired /\ l.pins[Loader] # None => Loader \in StaleLoader(l, q)
      /\ q.service # Schema => StaleLoader(l, q) = {}
  BY <1>4 DEF StaleLoader, Pinned
<1> HIDE DEF w, x, r
<1>7. \A s \in Services : MarkAt(w.pins, s) \subseteq MarkAt(l.pins, s) \cup {x}
  BY <1>1, <1>2, <1>3 DEF MarkAt
<1>8. q.paired => /\ w.pins[Schema].image = w.pins[Loader].image
                  /\ w.pins[Schema] # None /\ Mark(w.pins[Schema]) = x
                  /\ w.pins[Loader] # None /\ Mark(w.pins[Loader]) = x
  BY <1>1, <1>3, <1>4, <1>5
<1>9. q.service = Schema /\ ~q.paired =>
        w.pins[Schema] # None /\ Mark(w.pins[Schema]) = x /\ w.pins[Loader] = None
  BY <1>1, <1>2, <1>3, <1>4, <1>5, <1>6
<1>10. q.service # Schema => w.pins[Schema] = l.pins[Schema] /\ w.pins[Loader] = l.pins[Loader]
  BY <1>1, <1>2, <1>4, <1>5, <1>6
<1> QED
  BY <1>7, <1>8, <1>9, <1>10 DEF w, x

\* What a pin call captures of schema and its loader.
LEMMA UndoOfPair ==
  ASSUME NEW l \in Lock, NEW q \in Request, NEW at \in Times, PinAdmitted(l, q),
         Together(l.pins)
  PROVE  LET u == UndoOf(l, q, at) IN
         /\ UndoTogether(u)
         /\ \A s \in Services : /\ u.wrote[s] \in {None, PinWrite(l, q, at).pins[s]}
                                /\ u.priorPins[s] \in {None, l.pins[s]}
         /\ Schema \in u.names <=> q.service = Schema
         /\ Schema \in u.names /\ Loader \notin u.names => ~q.paired
<1> DEFINE u == UndoOf(l, q, at)
           w == PinWrite(l, q, at)
<1>1. u.names = Targets(q) \cup StaleLoader(l, q)
  BY DEF UndoOf
<1>2. ASSUME NEW s \in Services
      PROVE  /\ u.wrote[s] = IF s \in u.names THEN w.pins[s] ELSE None
             /\ u.priorPins[s] = IF s \in u.names THEN l.pins[s] ELSE None
  BY DEF UndoOf
<1> HIDE DEF u
<1>3. /\ Schema \in Services /\ Loader \in Services /\ Schema # Loader /\ q.service # Loader
      /\ q.paired => q.service = Schema
  BY LockDataAssumption DEF Request
<1>4. /\ Schema \in u.names <=> q.service = Schema
      /\ Loader \in u.names => q.service = Schema
      /\ q.paired => Loader \in u.names
  BY <1>1, <1>3 DEF Targets, StaleLoader
<1>5. q.service = Schema => w.pins[Schema] # None
  BY PinWritePair
<1> HIDE DEF w
<1>6. Together(u.priorPins)
  <2>1. u.priorPins[Schema] \in {None, l.pins[Schema]} /\ u.priorPins[Loader] \in {None, l.pins[Loader]}
    BY <1>2, <1>3
  <2> QED
    BY <2>1 DEF Together
<1>7. /\ Schema \in u.names => u.wrote[Schema] # None
      /\ \A s \in Services \ u.names : u.priorPins[s] = None
  BY <1>2, <1>3, <1>4, <1>5
<1>8. \A s \in Services : u.wrote[s] \in {None, w.pins[s]} /\ u.priorPins[s] \in {None, l.pins[s]}
  BY <1>2
<1> QED
  BY <1>4, <1>6, <1>7, <1>8 DEF UndoTogether, u, w

\* The write of a pin moves marks, and keeps the pair together.
LEMMA PairPin ==
  ASSUME Inv, PairInv, NEW c \in Callers, PinStep(c)
  PROVE  PairInv'
<1> DEFINE o == caller[c]
           q == o.req
           x == <<q.run, o.at>>
           w == PinWrite(lock, q, o.at)
           u == UndoOf(lock, q, o.at)
<1>1. /\ q \in Request /\ o.at \in Times /\ lock \in Lock /\ lock # None
      /\ PinAdmitted(lock, q) /\ o.op = "pin"
  BY OpArguments DEF PinStep, Inv, TypeOK, PinOp
<1>2. LivePins = lock.pins /\ Together(lock.pins)
  BY <1>1 DEF LivePins, PairInv
<1>3. lock' = w /\ w \in Lock /\ LivePins' = w.pins
  BY <1>1, PinWriteType, NoneAssumption DEF PinStep, LivePins
<1>4. /\ q.paired => /\ w.pins[Schema].image = w.pins[Loader].image
                     /\ w.pins[Schema] # None /\ Mark(w.pins[Schema]) = x
                     /\ w.pins[Loader] # None /\ Mark(w.pins[Loader]) = x
      /\ q.service = Schema /\ ~q.paired => /\ w.pins[Schema] # None
                                            /\ Mark(w.pins[Schema]) = x
                                            /\ w.pins[Loader] = None
      /\ q.service # Schema => /\ w.pins[Schema] = lock.pins[Schema]
                               /\ w.pins[Loader] = lock.pins[Loader]
      /\ \A s \in Services : MarkAt(w.pins, s) \subseteq MarkAt(lock.pins, s) \cup {x}
  BY <1>1, PinWritePair
<1>5. /\ UndoTogether(u)
      /\ \A s \in Services : u.wrote[s] \in {None, w.pins[s]} /\ u.priorPins[s] \in {None, lock.pins[s]}
      /\ Schema \in u.names <=> q.service = Schema
      /\ Schema \in u.names /\ Loader \notin u.names => ~q.paired
  BY <1>1, <1>2, UndoOfPair
<1>6. /\ MarksOf(o) = {x} /\ ~Undoing(o)
      /\ LoaderMarks(o) = IF q.paired THEN {x} ELSE {}
      /\ SingleMarks(o) = IF q.service = Schema /\ ~q.paired THEN {x} ELSE {}
  BY <1>1, PendingMarks
<1> DEFINE n == [op |-> "recheck", undo |-> u]
<1>7. caller'[c] \in {o, Idle, n} /\ \A d \in Callers : d # c => caller'[d] = caller[d]
  BY DEF PinStep, MovesOnly
<1>8. n.op = "recheck" /\ n.undo = u
  OBVIOUS
<1> HIDE DEF n, u, w, x, q
<1>9. /\ MarksOf(n) \subseteq Marks(lock.pins) \cup {x}
      /\ LoaderMarks(n) \subseteq MarkAt(lock.pins, Loader)
      /\ SingleMarks(n) \subseteq SingleMarks(o)
  <2>1. Pending(n) = {} /\ WrotePins(n) = u.wrote /\ PriorPins(n) = u.priorPins
    BY <1>8 DEF Pending, WrotePins, PriorPins, Undoing
  <2>2. ASSUME NEW s \in Services
        PROVE  /\ MarkAt(u.wrote, s) \subseteq MarkAt(lock.pins, s) \cup {x}
               /\ MarkAt(u.priorPins, s) \subseteq MarkAt(lock.pins, s)
    <3>1. MarkAt(u.wrote, s) \subseteq MarkAt(w.pins, s)
      BY <1>5, FewerMarks
    <3>2. MarkAt(u.priorPins, s) \subseteq MarkAt(lock.pins, s)
      BY <1>5, FewerMarks
    <3> QED
      BY <1>4, <3>1, <3>2
  <2>3. MarksOf(n) \subseteq Marks(lock.pins) \cup {x}
    BY <2>1, <2>2 DEF MarksOf, Marks
  <2>4. LoaderMarks(n) \subseteq MarkAt(lock.pins, Loader)
    BY <1>8, <2>1, <2>2, LockDataAssumption DEF LoaderMarks
  <2>5. SingleMarks(n) \subseteq SingleMarks(o)
    <3>1. CASE Schema \in u.names /\ Loader \notin u.names
      <4>1. q.service = Schema /\ ~q.paired
        BY <1>5, <3>1
      <4>2. MarkAt(u.wrote, Schema) \subseteq {x}
        BY <1>4, <1>5, <4>1, LockDataAssumption DEF MarkAt
      <4> QED
        BY <1>6, <1>8, <3>1, <4>1, <4>2 DEF SingleMarks
    <3>2. CASE ~(Schema \in u.names /\ Loader \notin u.names)
      BY <1>8, <3>2 DEF SingleMarks
    <3> QED
      BY <3>1, <3>2
  <2> QED
    BY <2>3, <2>4, <2>5
<1>10. /\ MarksOf(Idle) \subseteq MarksOf(o) /\ LoaderMarks(Idle) \subseteq LoaderMarks(o)
       /\ SingleMarks(Idle) \subseteq SingleMarks(o) /\ ~Undoing(Idle)
  BY CalmMarks DEF Calms, Idle, Undoing
<1> HIDE DEF o
<1>11. /\ MarksOf(caller'[c]) \subseteq Marks(lock.pins) \cup MarksOf(o)
       /\ LoaderMarks(caller'[c]) \subseteq MarkAt(lock.pins, Loader) \cup LoaderMarks(o)
       /\ SingleMarks(caller'[c]) \subseteq SingleMarks(o)
  BY <1>6, <1>7, <1>9, <1>10
<1>12. AllMarks' \subseteq AllMarks
  <2>1. Marks(w.pins) \subseteq Marks(lock.pins) \cup MarksOf(o)
    BY <1>4, <1>6 DEF Marks
  <2>2. MarksOf(o) \subseteq AllMarks /\ Marks(lock.pins) \subseteq AllMarks
    BY <1>2 DEF AllMarks, o
  <2>3. ASSUME NEW d \in Callers PROVE MarksOf(caller'[d]) \subseteq AllMarks
    <3>1. CASE d = c
      BY <1>11, <2>2, <3>1
    <3>2. CASE d # c
      BY <1>7, <3>2 DEF AllMarks
    <3> QED
      BY <3>1, <3>2
  <2> QED
    BY <1>3, <2>1, <2>2, <2>3 DEF AllMarks
<1>13. Loaders' \subseteq Loaders
  <2>1. MarkAt(w.pins, Loader) \subseteq MarkAt(lock.pins, Loader) \cup LoaderMarks(o)
    <3>1. CASE q.paired
      BY <1>4, <1>6, <3>1, LockDataAssumption
    <3>2. CASE ~q.paired
      BY <1>4, <3>2 DEF MarkAt
    <3> QED
      BY <3>1, <3>2
  <2>2. LoaderMarks(o) \subseteq Loaders /\ MarkAt(lock.pins, Loader) \subseteq Loaders
    BY <1>2 DEF Loaders, o
  <2>3. ASSUME NEW d \in Callers PROVE LoaderMarks(caller'[d]) \subseteq Loaders
    <3>1. CASE d = c
      BY <1>11, <2>2, <3>1
    <3>2. CASE d # c
      BY <1>7, <3>2 DEF Loaders
    <3> QED
      BY <3>1, <3>2
  <2> QED
    BY <1>3, <2>1, <2>2, <2>3 DEF Loaders
<1>14. Singles' \subseteq Singles
  <2>1. ASSUME NEW d \in Callers PROVE SingleMarks(caller'[d]) \subseteq SingleMarks(caller[d])
    BY <1>7, <1>11 DEF o
  <2> QED
    BY <2>1 DEF Singles
<1>15. Together(LivePins)'
  <2>1. Together(w.pins)
    BY <1>2, <1>4 DEF Together
  <2> QED
    BY <1>3, <2>1
<1>16. ASSUME NEW d \in Callers, Undoing(caller'[d]) PROVE UndoTogether(caller'[d].undo)
  <2>1. CASE d = c
    <3>1. caller'[c] = n
      BY <1>6, <1>7, <1>10, <1>16, <2>1
    <3> QED
      BY <1>5, <1>8, <2>1, <3>1
  <2>2. CASE d # c
    BY <1>7, <1>16, <2>2 DEF PairInv
  <2> QED
    BY <2>1, <2>2
<1>17. \A r \in Runs : run'[r].nextPin = run[r].nextPin
  BY DEF PinStep
<1> QED
  BY <1>12, <1>13, <1>14, <1>15, <1>16, <1>17, FewerMarksKept

\* A rollback puts marks back, and keeps the pair together: it takes schema
\* back without its loader only when none is pinned.
LEMMA PairRevert ==
  ASSUME Inv, PairInv, NEW c \in Callers, RevertStep(c)
  PROVE  PairInv'
<1> DEFINE o == caller[c]
           u == o.undo
           w == Reverted(lock, u)
<1>1. /\ o.op = "revert" /\ u \in Undo /\ lock \in Lock /\ lock # None /\ Stands(lock, u)
      /\ Undoing(o) /\ UndoTogether(u)
  BY OpArguments DEF RevertStep, Inv, TypeOK, UndoOp, Undoing, PairInv
<1>2. LivePins = lock.pins /\ Together(lock.pins)
  BY <1>1 DEF LivePins, PairInv
<1>3. /\ LivePins' = w.pins
      /\ \A s \in Services : w.pins[s] = IF s \in u.names THEN u.priorPins[s] ELSE lock.pins[s]
  BY <1>1, RevertedType, NoneAssumption DEF RevertStep, LivePins
<1>4. PriorPins(o) = u.priorPins
  BY <1>1 DEF PriorPins
<1>5. caller'[c] \in {o, Idle} /\ \A d \in Callers : d # c => caller'[d] = caller[d]
  BY DEF RevertStep, MovesOnly
<1>6. /\ MarksOf(Idle) \subseteq MarksOf(o) /\ LoaderMarks(Idle) \subseteq LoaderMarks(o)
      /\ SingleMarks(Idle) \subseteq SingleMarks(o) /\ ~Undoing(Idle)
  BY CalmMarks DEF Calms, Idle, Undoing
<1> HIDE DEF w
<1>7. ASSUME NEW d \in Callers
      PROVE  /\ MarksOf(caller'[d]) \subseteq MarksOf(caller[d])
             /\ LoaderMarks(caller'[d]) \subseteq LoaderMarks(caller[d])
             /\ SingleMarks(caller'[d]) \subseteq SingleMarks(caller[d])
             /\ Undoing(caller'[d]) => Undoing(caller[d]) /\ caller'[d] = caller[d]
  BY <1>5, <1>6
<1>8. \A s \in Services : MarkAt(w.pins, s) \subseteq MarkAt(lock.pins, s) \cup MarkAt(PriorPins(o), s)
  BY <1>3, <1>4 DEF MarkAt
<1>9. AllMarks' \subseteq AllMarks
  <2>1. Marks(w.pins) \subseteq Marks(lock.pins) \cup MarksOf(o)
    BY <1>8 DEF Marks, MarksOf
  <2> QED
    BY <1>2, <1>3, <1>7, <2>1 DEF AllMarks
<1>10. Loaders' \subseteq Loaders /\ Singles' \subseteq Singles
  <2>1. MarkAt(w.pins, Loader) \subseteq MarkAt(lock.pins, Loader) \cup LoaderMarks(o)
    BY <1>8, LockDataAssumption DEF LoaderMarks
  <2> QED
    BY <1>2, <1>3, <1>7, <2>1 DEF Loaders, Singles
<1>11. Together(w.pins)
  <2>1. Schema \in Services /\ Loader \in Services
    BY LockDataAssumption
  <2>2. CASE Schema \in u.names /\ Loader \in u.names
    BY <1>1, <1>3, <2>1, <2>2 DEF Together, UndoTogether
  <2>3. CASE Schema \in u.names /\ Loader \notin u.names
    <3>1. lock.pins[Schema] = u.wrote[Schema] /\ u.wrote[Schema] # None
      BY <1>1, <2>3 DEF Stands, UndoTogether
    <3>2. Mark(lock.pins[Schema]) \in Singles
      BY <1>1, <2>3, <3>1 DEF Singles, SingleMarks, MarkAt, Undoing
    <3>3. lock.pins[Loader] # None => Mark(lock.pins[Loader]) \in Loaders
      BY <1>2 DEF Loaders, MarkAt
    <3>4. lock.pins[Loader] = None
      BY <1>2, <3>1, <3>2, <3>3 DEF PairInv, Together
    <3> QED
      BY <1>3, <2>1, <2>3, <3>4 DEF Together
  <2>4. CASE Schema \notin u.names
    <3>1. Loader \notin u.names
      BY <1>1, <2>4 DEF UndoTogether
    <3> QED
      BY <1>2, <1>3, <2>1, <2>4, <3>1 DEF Together
  <2> QED
    BY <2>2, <2>3, <2>4
<1>12. Together(LivePins)'
  BY <1>3, <1>11
<1>13. \A d \in Callers : Undoing(caller[d])' => UndoTogether(caller[d].undo)'
  BY <1>7 DEF PairInv
<1>14. \A r \in Runs : run'[r].nextPin = run[r].nextPin
  BY DEF RevertStep
<1> QED
  BY <1>9, <1>10, <1>12, <1>13, <1>14, FewerMarksKept

\* PairInv is inductive.
LEMMA PairStep == Inv /\ PairInv /\ [Next]_vars => PairInv'
  BY StepShape, PairCalm, PairResolve, PairPin, PairRevert

\* Every reachable state of the lock's operations satisfies the pair's invariant.
LEMMA PairInvariant == Spec => [](Inv /\ PairInv)
  BY InvInit, InvStep, PairInit, PairStep, PTL DEF Spec

\* However pins, re-pins, rollbacks, resets and sweeps of any number of
\* processes interleave, replies lost or not, a pinned loader was written by
\* the write that pinned schema.
THEOREM PairAlwaysPinnedTogether == Spec => []PairPinnedTogether
<1>1. PairInv => PairPinnedTogether
  BY DEF PairInv, PairPinnedTogether, LivePins, Together, Mark, Pair, Pinned
<1> QED
  BY <1>1, PairInvariant, PTL

(***************************************************************************)
(* The commit the pair comes back to                                       *)
(***************************************************************************)

\* Schema and its loader come back to images of one commit.
SameCommit(l) == l # None => RestoreTarget(l, Schema) = RestoreTarget(l, Loader)

\* The image a service comes back to from a pin and the entry beside it.
Back(pin, entry) == IF pin # None THEN pin.canonical ELSE entry.image

\* What a call wrote returns where the state it captured returns, and a pair
\* it captured to one commit.
UndoReturns(u) ==
  /\ \A s \in u.names : u.wrote[s] # None =>
       u.wrote[s].canonical = Back(u.priorPins[s], u.priorEntries[s])
  /\ Loader \in u.names => Back(u.priorPins[Schema], u.priorEntries[Schema])
                             = Back(u.priorPins[Loader], u.priorEntries[Loader])

CommitInv ==
  /\ \A c \in Callers : caller[c].op # "apply"
  /\ SameCommit(lock)
  /\ \A c \in Callers : Undoing(caller[c]) => UndoReturns(caller[c].undo)

\* The image a service returns to, from its pin and its entry.
LEMMA TargetIsBack ==
  ASSUME NEW l, NEW s \in Services
  PROVE  RestoreTarget(l, s) = Back(l.pins[s], l.entry[s])
  BY DEF RestoreTarget, Back, Pinned

\* Releasing pins of a sound lock changes nothing a service returns to.
LEMMA ReleaseReturns ==
  ASSUME NEW l \in Lock, NEW S \in SUBSET Pinned(l), NEW s \in Services,
         s \in S => l.pins[s].canonical # None
  PROVE  RestoreTarget(Release(l, S), s) = RestoreTarget(l, s)
<1>1. /\ Release(l, S).pins[s] = IF s \in S THEN None ELSE l.pins[s]
      /\ Release(l, S).entry[s] = IF s \in S THEN Restored(l, s) ELSE l.entry[s]
  BY ReleaseType
<1>2. CASE s \in S
  <2>1. l.pins[s] # None /\ Restored(l, s).image = l.pins[s].canonical
    BY <1>2 DEF Pinned, Restored
  <2> QED
    BY <1>1, <1>2, <2>1, TargetIsBack DEF Back
<1>3. CASE s \notin S
  BY <1>1, <1>3, TargetIsBack
<1> QED
  BY <1>2, <1>3

\* A pin of a sound lock has an image to return to.
LEMMA SoundReturns ==
  ASSUME NEW l \in Lock, SoundLock(l), NEW s \in Services, l.pins[s] # None
  PROVE  l.pins[s].canonical # None
  BY LockDataAssumption DEF SoundLock, Sound

\* Neither does a pin: what it captures is where the service returned to.
LEMMA PinReturns ==
  ASSUME NEW l \in Lock, SoundLock(l), NEW q \in Request, NEW at \in Times, PinAdmitted(l, q),
         NEW s \in Services
  PROVE  RestoreTarget(PinWrite(l, q, at), s) = RestoreTarget(l, s)
<1> DEFINE w == PinWrite(l, q, at)
           r == Release(l, StaleLoader(l, q))
<1>1. /\ w.pins[s] = IF s \in Targets(q) THEN NewPin(l, q, s, at) ELSE r.pins[s]
      /\ s \notin Targets(q) => w.entry[s] = r.entry[s]
  BY PinWriteType
<1>2. CASE s \in Targets(q)
  <2>1. NewPin(l, q, s, at) # None
    BY <1>2, NewPinType, NoneAssumption
  <2>2. NewPin(l, q, s, at).canonical = RestoreTarget(l, s)
    BY DEF NewPin, Captured, RestoreTarget
  <2> QED
    BY <1>1, <1>2, <2>1, <2>2, TargetIsBack DEF Back
<1>3. CASE s \notin Targets(q)
  <2>1. RestoreTarget(w, s) = RestoreTarget(r, s)
    BY <1>1, <1>3, TargetIsBack
  <2>2. s \in StaleLoader(l, q) => l.pins[s].canonical # None
    BY DEF PinAdmitted
  <2>3. RestoreTarget(r, s) = RestoreTarget(l, s)
    BY <2>2, PinNames, ReleaseReturns
  <2> QED
    BY <2>1, <2>3
<1> QED
  BY <1>2, <1>3

\* A call's undo returns where the lock it wrote over returned.
LEMMA UndoOfReturns ==
  ASSUME NEW l \in Lock, SoundLock(l), SameCommit(l), l # None,
         NEW q \in Request, NEW at \in Times, PinAdmitted(l, q), Together(l.pins)
  PROVE  UndoReturns(UndoOf(l, q, at))
<1> DEFINE u == UndoOf(l, q, at)
           w == PinWrite(l, q, at)
<1>1. ASSUME NEW s \in Services
      PROVE  /\ u.wrote[s] = IF s \in u.names THEN w.pins[s] ELSE None
             /\ s \in u.names => u.priorPins[s] = l.pins[s] /\ u.priorEntries[s] = l.entry[s]
  BY DEF UndoOf
<1>2. u.names \subseteq Services
  BY PinNames DEF UndoOf
<1>3. Loader \in u.names => Schema \in u.names
  BY UndoOfPair DEF UndoTogether
<1> HIDE DEF u
<1>4. ASSUME NEW s \in u.names
      PROVE  /\ s \in Services
             /\ Back(u.priorPins[s], u.priorEntries[s]) = RestoreTarget(l, s)
             /\ RestoreTarget(w, s) = RestoreTarget(l, s)
             /\ u.wrote[s] = w.pins[s]
  BY <1>1, <1>2, TargetIsBack, PinReturns
<1> HIDE DEF w
<1>5. ASSUME NEW s \in u.names, u.wrote[s] # None
      PROVE  u.wrote[s].canonical = Back(u.priorPins[s], u.priorEntries[s])
  <2>1. RestoreTarget(w, s) = w.pins[s].canonical
    BY <1>4, <1>5, TargetIsBack DEF Back
  <2> QED
    BY <1>4, <2>1
<1>6. Loader \in u.names => Back(u.priorPins[Schema], u.priorEntries[Schema])
                              = Back(u.priorPins[Loader], u.priorEntries[Loader])
  BY <1>3, <1>4 DEF SameCommit
<1> QED
  BY <1>5, <1>6 DEF UndoReturns, u

\* A rollback of what stands keeps the pair on one commit.
LEMMA RevertedReturns ==
  ASSUME NEW l \in Lock, l # None, SameCommit(l), NEW u \in Undo, Stands(l, u),
         UndoTogether(u), UndoReturns(u)
  PROVE  SameCommit(Reverted(l, u))
<1> DEFINE w == Reverted(l, u)
<1>1. ASSUME NEW s \in Services
      PROVE  RestoreTarget(w, s) = IF s \in u.names THEN Back(u.priorPins[s], u.priorEntries[s])
                                                    ELSE RestoreTarget(l, s)
  BY RevertedType, TargetIsBack
<1> HIDE DEF w
<1>2. Schema \in Services /\ Loader \in Services
  BY LockDataAssumption
<1>3. CASE Loader \in u.names
  <2>1. Schema \in u.names
    BY <1>3 DEF UndoTogether
  <2> QED
    BY <1>1, <1>2, <1>3, <2>1 DEF UndoReturns, SameCommit, w
<1>4. CASE Schema \in u.names /\ Loader \notin u.names
  <2>1. l.pins[Schema] = u.wrote[Schema] /\ u.wrote[Schema] # None
    BY <1>4 DEF Stands, UndoTogether
  <2>2. RestoreTarget(l, Schema) = u.wrote[Schema].canonical
    BY <1>2, <2>1, TargetIsBack DEF Back
  <2>3. u.wrote[Schema].canonical = Back(u.priorPins[Schema], u.priorEntries[Schema])
    BY <1>4, <2>1 DEF UndoReturns
  <2> QED
    BY <1>1, <1>2, <1>4, <2>2, <2>3 DEF SameCommit, w
<1>5. CASE Schema \notin u.names /\ Loader \notin u.names
  BY <1>1, <1>2, <1>5 DEF SameCommit, w
<1> QED
  BY <1>3, <1>4, <1>5

\* A refresh moves both of the pair to one image, or neither.
LEMMA RefreshReturns ==
  ASSUME NEW l \in Lock, l # None, SoundLock(l), SameCommit(l), NEW names \in RefreshSets,
         NEW image \in Canonicals
  PROVE  SameCommit(RefreshWrite(l, names, image))
<1> DEFINE w == RefreshWrite(l, names, image)
           moved == names \ Held(l, names)
<1>1. ASSUME NEW s \in Services
      PROVE  /\ w.pins[s] = l.pins[s]
             /\ w.entry[s] = IF s \in moved THEN [image |-> image, hold |-> FALSE] ELSE l.entry[s]
  BY DEF RefreshWrite
<1> HIDE DEF w
<1>2. Schema \in Services /\ Loader \in Services /\ Schema # Loader
  BY LockDataAssumption
<1>3. Schema \in names <=> Loader \in names
  BY <1>2 DEF RefreshSets, Pair
<1>4. Schema \in moved <=> Loader \in moved
  BY <1>2, <1>3 DEF Held, Pair
<1>5. \A s \in moved : l.pins[s] = None \/ s \notin Services
  BY DEF Held, Pinned
<1> HIDE DEF moved
<1>6. CASE Schema \in moved
  BY <1>1, <1>2, <1>4, <1>5, <1>6, TargetIsBack DEF SameCommit, Back, w
<1>7. CASE Schema \notin moved
  BY <1>1, <1>2, <1>4, <1>7, TargetIsBack DEF SameCommit, Back, w
<1> QED
  BY <1>6, <1>7

\* No mutation but a rebuild of the whole lock parts the pair.
LEMMA OutcomeReturns ==
  ASSUME NEW l \in Lock \cup {None}, l # None => SoundLock(l) /\ Together(l.pins), SameCommit(l),
         NEW o \in Op, o.op \in MutatorOps \ {"apply"},
         o.op = "revert" => UndoTogether(o.undo) /\ UndoReturns(o.undo)
  PROVE  SameCommit(Outcome(l, o).lock)
<1>1. ASSUME l # None, NEW S \in SUBSET Pinned(l) PROVE SameCommit(Release(l, S))
  <2>1. l \in Lock /\ \A s \in S : s \in Services /\ l.pins[s].canonical # None
    BY <1>1, SoundReturns DEF Pinned
  <2>2. /\ RestoreTarget(Release(l, S), Schema) = RestoreTarget(l, Schema)
        /\ RestoreTarget(Release(l, S), Loader) = RestoreTarget(l, Loader)
    BY <1>1, <2>1, ReleaseReturns, LockDataAssumption
  <2> QED
    BY <1>1, <2>2 DEF SameCommit
<1>2. CASE o.op = "pin"
  <2>1. o.req \in Request /\ o.at \in Times
    BY <1>2, OpArguments DEF PinOp
  <2>2. CASE l # None /\ PinAdmitted(l, o.req)
    <3>1. Outcome(l, o).lock = PinWrite(l, o.req, o.at)
      BY <1>2, <2>2 DEF Outcome, PinOutcome, Written
    <3>2. SameCommit(PinWrite(l, o.req, o.at))
      BY <2>1, <2>2, PinReturns, LockDataAssumption DEF SameCommit
    <3> QED
      BY <3>1, <3>2
  <2>3. CASE ~(l # None /\ PinAdmitted(l, o.req))
    BY <1>2, <2>3 DEF Outcome, PinOutcome, Refused, Raised
  <2> QED
    BY <2>2, <2>3
<1>3. CASE o.op = "revert"
  <2>1. o.undo \in Undo
    BY <1>3, OpArguments DEF UndoOp
  <2>2. CASE l # None /\ Stands(l, o.undo)
    <3>1. Outcome(l, o).lock = Reverted(l, o.undo)
      BY <1>3, <2>2 DEF Outcome, RevertOutcome, Written
    <3>2. SameCommit(Reverted(l, o.undo))
      BY <1>3, <2>1, <2>2, RevertedReturns
    <3> QED
      BY <3>1, <3>2
  <2>3. CASE ~(l # None /\ Stands(l, o.undo))
    BY <1>3, <2>3 DEF Outcome, RevertOutcome, Refused, Raised
  <2> QED
    BY <2>2, <2>3
<1>4. CASE o.op = "reset"
  <2> DEFINE S == ResetTargets(l, o.service, o.ifRun)
                    \ (IF Defers(l, o.service, o.ifRun) THEN {Loader} ELSE {})
  <2>1. S \in SUBSET Pinned(l)
    BY ResetNames
  <2>2. Outcome(l, o) = ResetOutcome(l, o)
    BY <1>4 DEF Outcome
  <2>3. \/ l # None /\ ResetOutcome(l, o).lock = Release(l, S)
        \/ ResetOutcome(l, o).lock = l
    BY DEF ResetOutcome, ResetWrite, Written, Raised, Refused
  <2> HIDE DEF S
  <2> QED
    BY <1>1, <2>1, <2>2, <2>3
<1>5. CASE o.op = "loader"
  <2>1. Outcome(l, o) = LoaderOutcome(l, o)
    BY <1>5 DEF Outcome
  <2>2. o.loader \in Pin
    BY <1>5, OpArguments DEF LoaderOp
  <2>3. \/ l # None /\ l.pins[Loader] = o.loader /\ LoaderOutcome(l, o).lock = Release(l, {Loader})
        \/ LoaderOutcome(l, o).lock = l
    BY DEF LoaderOutcome, Written, Raised, Refused
  <2>4. l # None /\ l.pins[Loader] = o.loader => {Loader} \in SUBSET Pinned(l)
    BY <2>2, LockDataAssumption, NoneAssumption DEF Pinned
  <2> QED
    BY <1>1, <2>1, <2>3, <2>4
<1>6. CASE o.op = "sweep"
  <2>1. Outcome(l, o) = SweepOutcome(l, o)
    BY <1>6 DEF Outcome
  <2>2. o.seen \in PinMap
    BY <1>6, OpArguments DEF SweepOp
  <2>3. l # None => SweepTargets(l, o.seen) \in SUBSET Pinned(l)
    BY <2>2, SweepNames
  <2>4. \/ l # None /\ SweepOutcome(l, o).lock = Release(l, SweepTargets(l, o.seen))
        \/ SweepOutcome(l, o).lock = l
    BY DEF SweepOutcome, SweepWrite, Written, Raised, Refused
  <2> QED
    BY <1>1, <2>1, <2>3, <2>4
<1>7. CASE o.op = "refresh"
  <2>1. Outcome(l, o) = RefreshOutcome(l, o)
    BY <1>7 DEF Outcome
  <2>2. o.image \in Canonicals /\ o.names \in RefreshSets
    BY <1>7, OpArguments DEF RefreshOp
  <2>3. l # None => SameCommit(RefreshWrite(l, o.names, o.image))
    BY <2>2, RefreshReturns
  <2>4. \/ l # None /\ RefreshOutcome(l, o).lock = RefreshWrite(l, o.names, o.image)
        \/ RefreshOutcome(l, o).lock = l
    BY DEF RefreshOutcome, Written, Raised, Refused
  <2> QED
    BY <2>1, <2>3, <2>4
<1>8. CASE o.op = "project"
  <2>1. Outcome(l, o) = ProjectOutcome(l, o)
    BY <1>8 DEF Outcome
  <2>2. \/ l # None /\ ProjectOutcome(l, o).lock = ProjectWrite(l, o.service, o.repo)
        \/ ProjectOutcome(l, o).lock = l
    BY DEF ProjectOutcome, Written, Raised, Refused
  <2>3. l # None => SameCommit(ProjectWrite(l, o.service, o.repo))
    BY DEF SameCommit, ProjectWrite, RestoreTarget, Pinned
  <2> QED
    BY <2>1, <2>2, <2>3
<1> QED
  BY <1>2, <1>3, <1>4, <1>5, <1>6, <1>7, <1>8 DEF MutatorOps

\* The lock moves only by a mutation a process was about to make.
LEMMA LockMoves ==
  ASSUME [Next]_vars
  PROVE  \/ UNCHANGED lock
         \/ \E c \in Callers : /\ caller[c].op \in MutatorOps
                               /\ lock' = Outcome(lock, caller[c]).lock
<1>1. ASSUME NEW c \in Callers, NEW op \in MutatorOps, Mutate(c, op)
      PROVE  caller[c].op \in MutatorOps /\ lock' = Outcome(lock, caller[c]).lock
  BY <1>1 DEF Mutate
<1>2. ASSUME NEW c \in Callers, ReplyLost(c)
      PROVE  caller[c].op \in MutatorOps /\ lock' = Outcome(lock, caller[c]).lock
  BY <1>2 DEF ReplyLost
<1>3. ASSUME NEW c \in Callers, AckedStep(c)
      PROVE  UNCHANGED lock \/ \E op \in MutatorOps : Mutate(c, op)
  BY <1>3 DEF AckedStep, CheckDeployable, ResolveManifest, WritePin, RecheckClear, RecheckBlocked,
       RevertPin, StartReset, ResetService, SchemaServes, ResetPairedLoader, SweepRead,
       SweepJudge, SweepStale, StartRefresh, ApplyRefresh, StartApply, ApplyImageLock,
       StartProject, ProjectRoster, GiveUp, MutatorOps
<1>4. EnvironmentStep \/ UNCHANGED vars => UNCHANGED lock
  BY DEF EnvironmentStep, UpsertDeployRecord, SetMaintenance, RunCompletes, RerunStarts,
         TimePasses, vars
<1> QED
  BY <1>1, <1>2, <1>3, <1>4 DEF Next, ProcessStep

\* What a mutation leaves its caller to do.
LEMMA OutcomeNext ==
  ASSUME NEW l, NEW o, o.op \in MutatorOps
  PROVE  Outcome(l, o).next.op \in {"idle", "recheck", "await"}
<1> DEFINE Fine(out) == out.next.op \in {"idle", "recheck", "await"}
<1>1. Fine(Refused(l)) /\ \A w : Fine(Written(w, Idle))
  BY DEF Refused, Raised, Written, Idle
<1>2. CASE o.op = "pin"
  <2>1. Outcome(l, o) = PinOutcome(l, o)
    BY <1>2 DEF Outcome
  <2>2. PinOutcome(l, o).next.op \in {"idle", "recheck", "await"}
    BY DEF PinOutcome, Written, Refused, Raised, Idle
  <2> QED
    BY <2>1, <2>2
<1>3. CASE o.op = "reset"
  <2>1. Outcome(l, o) = ResetOutcome(l, o)
    BY <1>3 DEF Outcome
  <2>2. ResetOutcome(l, o).next.op \in {"idle", "recheck", "await"}
    BY DEF ResetOutcome, Written, Refused, Raised, Idle
  <2> QED
    BY <2>1, <2>2
<1>4. CASE o.op = "revert"
  BY <1>1, <1>4 DEF Outcome, RevertOutcome
<1>5. CASE o.op = "loader"
  BY <1>1, <1>5 DEF Outcome, LoaderOutcome
<1>6. CASE o.op = "sweep"
  BY <1>1, <1>6 DEF Outcome, SweepOutcome
<1>7. CASE o.op = "refresh"
  BY <1>1, <1>7 DEF Outcome, RefreshOutcome
<1>8. CASE o.op = "apply"
  BY <1>1, <1>8 DEF Outcome, ApplyOutcome
<1>9. CASE o.op = "project"
  BY <1>1, <1>9 DEF Outcome, ProjectOutcome
<1> QED
  BY <1>2, <1>3, <1>4, <1>5, <1>6, <1>7, <1>8, <1>9 DEF MutatorOps

\* A process rebuilds the lock only after it was idle.
LEMMA ApplyStarts ==
  ASSUME Inv, [Next]_vars, NEW c \in Callers, caller'[c].op = "apply", caller[c].op # "apply"
  PROVE  caller[c].op = "idle"
<1>1. caller'[c] # caller[c]
  OBVIOUS
<1>2. ~EnvironmentStep /\ ~UNCHANGED vars
  BY <1>1 DEF EnvironmentStep, UpsertDeployRecord, SetMaintenance, RunCompletes, RerunStarts,
       TimePasses, vars
<1>3. ProcessStep(c)
  BY <1>1, <1>2, OneProcessMoves DEF Next, Inv, TypeOK
<1>4. \A n : Becomes(c, n) => caller'[c] = n
  BY DEF Becomes, Inv, TypeOK
<1>5. \A op \in MutatorOps : ~Mutate(c, op)
  BY <1>4, OutcomeNext DEF Mutate
<1>6. Idle.op # "apply"
  BY DEF Idle
<1>7. ~ReplyLost(c)
  BY <1>1, <1>4, <1>6 DEF ReplyLost
<1>8. AckedStep(c)
  BY <1>3, <1>7 DEF ProcessStep
<1>9. \/ caller[c].op = "idle"
      \/ \E n : n.op # "apply" /\ Becomes(c, n)
      \/ \E op \in MutatorOps : Mutate(c, op)
  <2>1. ASSUME NEW unreachable \in SUBSET Runs, SweepJudge(c, unreachable)
        PROVE  \E n : n.op # "apply" /\ Becomes(c, n)
    BY <2>1, <1>6 DEF SweepJudge
  <2>2. ASSUME NEW paired \in BOOLEAN, ResolveManifest(c, paired)
        PROVE  \E n : n.op # "apply" /\ Becomes(c, n)
    BY <2>2 DEF ResolveManifest
  <2>3. RecheckBlocked(c) => \E n : n.op # "apply" /\ Becomes(c, n)
    BY DEF RecheckBlocked
  <2>4. SchemaServes(c) => \E n : n.op # "apply" /\ Becomes(c, n)
    BY DEF SchemaServes
  <2>5. RecheckClear(c) \/ GiveUp(c) => \E n : n.op # "apply" /\ Becomes(c, n)
    BY <1>6 DEF RecheckClear, GiveUp
  <2> QED
    BY <1>8, <2>1, <2>2, <2>3, <2>4, <2>5
      DEF AckedStep, Begin, CheckDeployable, WritePin, RevertPin, StartReset, ResetService,
          ResetPairedLoader, SweepRead, SweepStale, StartRefresh, ApplyRefresh, StartApply,
          ApplyImageLock, StartProject, ProjectRoster, MutatorOps
<1> QED
  BY <1>4, <1>5, <1>9

\* The rollbacks a step leaves to be made are those there were, or that of
\* the pin just written.
LEMMA UndoMoves ==
  ASSUME Inv, [Next]_vars, NEW c \in Callers, Undoing(caller'[c])
  PROVE  \/ Undoing(caller[c]) /\ caller'[c].undo = caller[c].undo
         \/ PinStep(c) /\ caller'[c].undo = UndoOf(lock, caller[c].req, caller[c].at)
<1>1. CASE CalmStep
  BY <1>1, CalmMarks DEF CalmStep
<1>2. ASSUME NEW d \in Callers, ResolveStep(d) PROVE Undoing(caller[c]) /\ caller'[c] = caller[c]
  <2>1. PICK n : n.op = "pin" /\ caller' = [caller EXCEPT ![d] = n]
    BY <1>2, ResolveMark
  <2>2. caller'[c] = IF c = d THEN n ELSE caller[c]
    BY <2>1 DEF Inv, TypeOK
  <2> QED
    BY <2>1, <2>2 DEF Undoing
<1>3. ASSUME NEW d \in Callers, PinStep(d)
      PROVE  \/ Undoing(caller[c]) /\ caller'[c] = caller[c]
             \/ PinStep(c) /\ caller'[c].undo = UndoOf(lock, caller[c].req, caller[c].at)
  <2>1. CASE c = d
    <3>1. caller'[c] \in {caller[c], Idle,
                          [op |-> "recheck", undo |-> UndoOf(lock, caller[c].req, caller[c].at)]}
      BY <1>3, <2>1 DEF PinStep
    <3>2. caller[c].op = "pin"
      BY <1>3, <2>1 DEF PinStep
    <3>3. ~Undoing(caller[c]) /\ ~Undoing(Idle)
      BY <3>2 DEF Undoing, Idle
    <3> QED
      BY <1>3, <2>1, <3>1, <3>3
  <2>2. CASE c # d
    BY <1>3, <2>2 DEF PinStep, MovesOnly
  <2> QED
    BY <2>1, <2>2
<1>4. ASSUME NEW d \in Callers, RevertStep(d) PROVE Undoing(caller[c]) /\ caller'[c] = caller[c]
  BY <1>4 DEF RevertStep, MovesOnly, Undoing, Idle
<1> QED
  BY <1>1, <1>2, <1>3, <1>4, StepShape

\* Where no rebuild of the whole lock starts, a step keeps the pair on one
\* commit.
LEMMA CommitStep ==
  ASSUME Inv, PairInv, CommitInv, [Next]_vars, \A c \in Callers : ~Starts(c, {"apply"})
  PROVE  CommitInv'
<1>1. lock \in Lock \cup {None} /\ (lock # None => SoundLock(lock) /\ Together(lock.pins))
  BY DEF Inv, TypeOK, PairInv, LivePins
<1>2. ASSUME NEW c \in Callers PROVE caller'[c].op # "apply"
  BY ApplyStarts DEF Starts, CommitInv
<1>3. SameCommit(lock')
  <2>1. CASE UNCHANGED lock
    BY <2>1 DEF CommitInv
  <2>2. ASSUME NEW c \in Callers, caller[c].op \in MutatorOps, lock' = Outcome(lock, caller[c]).lock
        PROVE  SameCommit(lock')
    <3>1. caller[c] \in Op /\ caller[c].op \in MutatorOps \ {"apply"} /\ SameCommit(lock)
      BY <2>2 DEF Inv, TypeOK, CommitInv
    <3>2. caller[c].op = "revert" => UndoTogether(caller[c].undo) /\ UndoReturns(caller[c].undo)
      BY DEF CommitInv, PairInv, Undoing
    <3> QED
      BY <1>1, <2>2, <3>1, <3>2, OutcomeReturns
  <2> QED
    BY <2>1, <2>2, LockMoves
<1>4. ASSUME NEW c \in Callers, Undoing(caller'[c]) PROVE UndoReturns(caller'[c].undo)
  <2>1. CASE PinStep(c) /\ caller'[c].undo = UndoOf(lock, caller[c].req, caller[c].at)
    <3>1. /\ caller[c].req \in Request /\ caller[c].at \in Times /\ lock \in Lock /\ lock # None
          /\ PinAdmitted(lock, caller[c].req)
      BY <2>1, OpArguments DEF PinStep, Inv, TypeOK, PinOp
    <3> QED
      BY <1>1, <2>1, <3>1, UndoOfReturns DEF CommitInv
  <2>2. CASE Undoing(caller[c]) /\ caller'[c].undo = caller[c].undo
    BY <2>2 DEF CommitInv
  <2> QED
    BY <1>4, <2>1, <2>2, UndoMoves
<1>5. SameCommit(lock)'
  BY <1>3 DEF SameCommit, RestoreTarget, Pinned
<1> QED
  BY <1>2, <1>4, <1>5 DEF CommitInv, Undoing

\* A lock a bootstrap rendered names one commit for both.
LEMMA CommitInit == Init => CommitInv
<1> SUFFICES ASSUME Init PROVE CommitInv
  OBVIOUS
<1>1. SameCommit(lock)
  <2>1. CASE lock # None
    <3>1. PICK image \in Canonicals, t \in [Services -> Repos \cup {None}] :
            lock = [ApplyWrite(None, image) EXCEPT !.trusted = t]
      BY <2>1 DEF Init, InitialLocks
    <3>2. /\ lock.pins = [s \in Services |-> None]
          /\ lock.entry = [s \in Services |-> [image |-> image, hold |-> FALSE]]
      BY <3>1 DEF ApplyWrite
    <3> QED
      BY <3>2, LockDataAssumption DEF SameCommit, RestoreTarget, Pinned
  <2> QED
    BY <2>1 DEF SameCommit
<1>2. ASSUME NEW c \in Callers PROVE caller[c].op # "apply" /\ ~Undoing(caller[c])
  BY DEF Init, Idle, Undoing
<1> QED
  BY <1>1, <1>2 DEF CommitInv

\* Either traffic takes steps of the system.
LEMMA TrafficSteps == [TrafficNext]_<<traffic, vars>> => [Next]_vars /\ UNCHANGED traffic
  BY DEF TrafficNext, RefreshTraffic, AckedTraffic, Next, ProcessStep, vars

\* The same of the operations without the write of the whole lock.
LEMMA TrafficInvariant == TrafficSpec => [](Inv /\ PairInv)
<1>1. TrafficInit => Init
  BY DEF TrafficInit
<1> QED
  BY <1>1, InvInit, InvStep, PairInit, PairStep, TrafficSteps, PTL DEF TrafficSpec

\* Where the whole lock is not rebuilt meanwhile, schema and its loader come
\* back to images of one commit, however pins, rollbacks, resets, sweeps and
\* refreshes interleave, replies lost or not.
THEOREM RefreshesKeepOneCommit == TrafficSpec => []RefreshedPairFromOneCommit
<1> DEFINE I == traffic = "refreshes" => CommitInv
<1>1. TrafficInit => I
  BY CommitInit DEF TrafficInit
<1>2. Inv /\ PairInv /\ I /\ [TrafficNext]_<<traffic, vars>> => I'
  <2> SUFFICES ASSUME Inv, PairInv, I, [TrafficNext]_<<traffic, vars>>, traffic' = "refreshes"
               PROVE  CommitInv'
    OBVIOUS
  <2>1. [Next]_vars /\ traffic = "refreshes" /\ CommitInv
    BY TrafficSteps
  <2>2. \A c \in Callers : ~Starts(c, {"apply"})
    BY <2>1 DEF TrafficNext, RefreshTraffic, Starts, vars
  <2> QED
    BY <2>1, <2>2, CommitStep
<1>3. I => RefreshedPairFromOneCommit
  BY DEF CommitInv, SameCommit, RefreshedPairFromOneCommit, PairFromOneCommit
<1> QED
  BY <1>1, <1>2, <1>3, TrafficInvariant, PTL DEF TrafficSpec

(***************************************************************************)
(* Where every write is acknowledged                                       *)
(***************************************************************************)
RunMarks == Runs \X Times

PairMarks(pins) == (MarkAt(pins, Schema) \cup MarkAt(pins, Loader)) \cap RunMarks

\* The loader a reset left pinned while it waits for schema.
Deferred(o) == IF o.op \in {"await", "loader"} THEN {Mark(o.loader)} ELSE {}

\* A run's pin is in one place: about to be written, or written.
PendingIsNew ==
  /\ \A c \in Callers : Pending(caller[c]) \cap Marks(LivePins) \cap RunMarks = {}
  /\ \A c, d \in Callers : Pending(caller[c]) \cap Marks(PriorPins(caller[d])) \cap RunMarks = {}
  /\ \A c, d \in Callers : c # d => Pending(caller[c]) \cap Pending(caller[d]) \cap RunMarks = {}

\* The pair's pins are on the lock, or in what one rollback would replay.
PairInOnePlace ==
  /\ \A c \in Callers : PairMarks(PriorPins(caller[c])) \cap PairMarks(LivePins) = {}
  /\ \A c, d \in Callers :
       c # d => PairMarks(PriorPins(caller[c])) \cap PairMarks(PriorPins(caller[d])) = {}

\* The schema pin a deferred loader was written with is gone for good.
SchemaIsGone ==
  \A c \in Callers : \A x \in Deferred(caller[c]) :
    /\ x \in RunMarks /\ Spent(x)
    /\ x \notin MarkAt(LivePins, Schema)
    /\ \A d \in Callers : x \notin MarkAt(PriorPins(caller[d]), Schema) \cup Pending(caller[d])

AckedInv == PendingIsNew /\ PairInOnePlace /\ SchemaIsGone /\ UndoPredatesWrite

\* A deferral begins with the loader the lock holds, once schema is unpinned.
LEMMA DeferMoves ==
  ASSUME Inv, NEW c \in Callers, AckedStep(c)
  PROVE  \/ Deferred(caller'[c]) \subseteq Deferred(caller[c])
         \/ /\ Deferred(caller'[c]) \subseteq MarkAt(LivePins, Loader)
            /\ LivePins'[Schema] = None
            /\ caller[c].op = "reset"
<1> DEFINE o == caller[c]
           Same == Deferred(caller'[c]) \subseteq Deferred(o)
           Ends(n) == n.op \notin {"await", "loader"} /\ Becomes(c, n)
<1>1. \A n : Becomes(c, n) => caller'[c] = n
  BY DEF Becomes, Inv, TypeOK
<1>2. ASSUME NEW n, Ends(n) PROVE Same
  BY <1>1, <1>2 DEF Deferred
<1>3. Idle.op \notin {"await", "loader"}
  BY DEF Idle
<1>4. ASSUME NEW op \in MutatorOps \ {"reset"}, Mutate(c, op) PROVE Same
  <2>1. o.op \in MutatorOps \ {"reset"} /\ Becomes(c, Outcome(lock, o).next)
    BY <1>4 DEF Mutate
  <2>2. Outcome(lock, o).next.op \notin {"await", "loader"}
    <3>1. PinOutcome(lock, o).next.op \notin {"await", "loader"}
      BY <1>3 DEF PinOutcome, Written, Refused, Raised
    <3>2. /\ Refused(lock).next = Idle
          /\ \A w : Written(w, Idle).next = Idle
      BY DEF Refused, Raised, Written
    <3>3. CASE o.op = "pin"
      BY <3>1, <3>3 DEF Outcome
    <3>4. CASE o.op = "revert"
      BY <1>3, <3>2, <3>4 DEF Outcome, RevertOutcome
    <3>5. CASE o.op = "loader"
      BY <1>3, <3>2, <3>5 DEF Outcome, LoaderOutcome
    <3>6. CASE o.op = "sweep"
      BY <1>3, <3>2, <3>6 DEF Outcome, SweepOutcome
    <3>7. CASE o.op = "refresh"
      BY <1>3, <3>2, <3>7 DEF Outcome, RefreshOutcome
    <3>8. CASE o.op = "apply"
      BY <1>3, <3>2, <3>8 DEF Outcome, ApplyOutcome
    <3>9. CASE o.op = "project"
      BY <1>3, <3>2, <3>9 DEF Outcome, ProjectOutcome
    <3> QED
      BY <2>1, <3>3, <3>4, <3>5, <3>6, <3>7, <3>8, <3>9 DEF MutatorOps
  <2> QED
    BY <1>2, <2>1, <2>2
<1>5. ASSUME ResetService(c)
      PROVE  \/ Same
             \/ /\ Deferred(caller'[c]) \subseteq MarkAt(LivePins, Loader)
                /\ LivePins'[Schema] = None
                /\ o.op = "reset"
  <2>1. /\ o.op = "reset" /\ lock' = ResetOutcome(lock, o).lock
        /\ caller'[c] = ResetOutcome(lock, o).next
    BY <1>1, <1>5 DEF ResetService, Mutate, Outcome
  <2>2. lock \in Lock \cup {None}
    BY DEF Inv, TypeOK
  <2>3. CASE lock # None /\ Orphaned(lock, o.service, o.ifRun)
    <3> DEFINE m == [op |-> "await", image |-> lock.entry[Schema].image,
                     loader |-> lock.pins[Loader]]
    <3>1. ResetOutcome(lock, o) = Raised(lock, m)
      BY <2>3 DEF ResetOutcome
    <3>2. lock' = lock /\ caller'[c] = m /\ m.op = "await" /\ m.loader = lock.pins[Loader]
      BY <2>1, <3>1 DEF Raised
    <3>3. lock.pins[Schema] = None /\ lock.pins[Loader] # None
      BY <2>3, LockDataAssumption DEF Orphaned, Pinned
    <3> QED
      BY <2>1, <2>3, <3>2, <3>3 DEF Deferred, LivePins, MarkAt
  <2>4. CASE /\ lock # None /\ ~Orphaned(lock, o.service, o.ifRun)
             /\ ResetAdmitted(lock, o.service, o.ifRun) /\ Defers(lock, o.service, o.ifRun)
    <3> DEFINE m == [op |-> "await", image |-> lock.pins[Schema].canonical,
                     loader |-> lock.pins[Loader]]
               S == ResetTargets(lock, o.service, o.ifRun) \ {Loader}
    <3>1. ResetOutcome(lock, o) = Written(Release(lock, S), m)
      BY <2>4 DEF ResetOutcome, ResetWrite
    <3>2. lock' = Release(lock, S) /\ caller'[c] = m /\ m.loader = lock.pins[Loader]
      BY <2>1, <3>1 DEF Written
    <3>3. Schema \in S /\ S \in SUBSET Pinned(lock) /\ lock.pins[Loader] # None
      BY <2>4, ResetNames, LockDataAssumption DEF Defers, Pair, ResetTargets, Pinned
    <3>4. lock'.pins[Schema] = None /\ lock' \in Lock
      BY <2>2, <2>4, <3>2, <3>3, ReleaseType, LockDataAssumption
    <3> HIDE DEF S
    <3> QED
      BY <2>1, <2>4, <3>2, <3>3, <3>4, NoneAssumption DEF Deferred, LivePins, MarkAt
  <2>5. CASE /\ ~(lock # None /\ Orphaned(lock, o.service, o.ifRun))
             /\ ~(/\ lock # None /\ ResetAdmitted(lock, o.service, o.ifRun)
                  /\ Defers(lock, o.service, o.ifRun))
    <3>1. ResetOutcome(lock, o).next = Idle
      BY <2>5 DEF ResetOutcome, Written, Refused, Raised
    <3> QED
      BY <1>3, <2>1, <3>1 DEF Deferred
  <2> QED
    BY <2>3, <2>4, <2>5
<1>6. ASSUME SchemaServes(c) PROVE Same
  <2>1. o.op = "await" /\ caller'[c] = [op |-> "loader", loader |-> o.loader]
    BY <1>1, <1>6 DEF SchemaServes
  <2> QED
    BY <2>1 DEF Deferred
<1>7. ASSUME NEW unreachable \in SUBSET Runs, SweepJudge(c, unreachable) PROVE \E n : Ends(n)
  BY <1>3, <1>7 DEF SweepJudge
<1>8. ASSUME NEW paired \in BOOLEAN, ResolveManifest(c, paired) PROVE \E n : Ends(n)
  BY <1>8 DEF ResolveManifest
<1>9. ASSUME RecheckBlocked(c) PROVE \E n : Ends(n)
  BY <1>9 DEF RecheckBlocked
<1>10. ASSUME RecheckClear(c) \/ GiveUp(c) PROVE \E n : Ends(n)
  BY <1>3, <1>10 DEF RecheckClear, GiveUp
<1>11. ASSUME SweepRead(c) PROVE \E n : Ends(n)
  BY <1>11 DEF SweepRead, Begin
<1>12. ASSUME NEW q \in PinRequests, CheckDeployable(c, q) PROVE \E n : Ends(n)
  BY <1>12 DEF CheckDeployable, Begin
<1>13. ASSUME NEW s \in Services, NEW r \in Runs \cup {None}, StartReset(c, s, r)
       PROVE  \E n : Ends(n)
  BY <1>13 DEF StartReset, Begin
<1>14. ASSUME NEW names \in RefreshSets, NEW image \in Canonicals, StartRefresh(c, names, image)
       PROVE  \E n : Ends(n)
  BY <1>14 DEF StartRefresh, Begin
<1>15. ASSUME NEW image \in Canonicals, StartApply(c, image) PROVE \E n : Ends(n)
  BY <1>15 DEF StartApply, Begin
<1>16. ASSUME NEW s \in Services, NEW repo \in Repos \cup {None}, StartProject(c, s, repo)
       PROVE  \E n : Ends(n)
  BY <1>16 DEF StartProject, Begin
<1>17. WritePin(c) \/ RevertPin(c) \/ ResetPairedLoader(c) \/ SweepStale(c) \/ ApplyRefresh(c)
         \/ ApplyImageLock(c) \/ ProjectRoster(c) => Same
  BY <1>4 DEF WritePin, RevertPin, ResetPairedLoader, SweepStale, ApplyRefresh, ApplyImageLock,
              ProjectRoster, MutatorOps
<1> HIDE DEF Same, Ends
<1>18. ResetService(c) \/ Same
  BY <1>2, <1>6, <1>7, <1>8, <1>9, <1>10, <1>11, <1>12, <1>13, <1>14, <1>15, <1>16, <1>17
    DEF AckedStep
<1> QED
  BY <1>5, <1>18 DEF Same

\* A process that goes on calmly neither pins nor replays more.
LEMMA CalmPlaces ==
  ASSUME NEW o, NEW n, Calms(o, n)
  PROVE  /\ Pending(n) \subseteq Pending(o)
         /\ \A s \in Services : MarkAt(PriorPins(n), s) \subseteq MarkAt(PriorPins(o), s)
<1>1. CASE n = o
  BY <1>1
<1>2. CASE n.op \notin {"pin", "recheck", "revert"}
  BY <1>2 DEF Pending, PriorPins, Undoing, MarkAt, NoPins
<1>3. CASE o.op = "recheck" /\ n = [op |-> "revert", undo |-> o.undo]
  BY <1>3 DEF Pending, PriorPins, Undoing
<1> QED
  BY <1>1, <1>2, <1>3 DEF Calms

\* The pins of the pair are pins.
LEMMA SomePairMarks ==
  ASSUME NEW pins, NEW other, \A s \in Services : MarkAt(pins, s) \subseteq MarkAt(other, s)
  PROVE  Marks(pins) \subseteq Marks(other) /\ PairMarks(pins) \subseteq PairMarks(other)
  BY LockDataAssumption DEF Marks, PairMarks

\* The places marks are in, seen from one process.
LEMMA Places ==
  ASSUME NEW c \in Callers
  PROVE  /\ Pending(caller[c]) \subseteq AllMarks
         /\ Marks(PriorPins(caller[c])) \subseteq AllMarks
         /\ Marks(LivePins) \subseteq AllMarks
         /\ PairMarks(PriorPins(caller[c])) \subseteq Marks(PriorPins(caller[c]))
         /\ PairMarks(LivePins) \subseteq Marks(LivePins)
  BY LockDataAssumption DEF AllMarks, MarksOf, PairMarks, Marks

\* A calm step leaves every pin in its place.
LEMMA AckedCalm ==
  ASSUME Inv, PairInv, AckedInv, CalmStep,
         \A c \in Callers :
           \/ Deferred(caller'[c]) \subseteq Deferred(caller[c])
           \/ /\ Deferred(caller'[c]) \subseteq MarkAt(LivePins, Loader)
              /\ LivePins'[Schema] = None
  PROVE  AckedInv'
<1>1. ASSUME NEW c \in Callers
      PROVE  /\ Pending(caller'[c]) \subseteq Pending(caller[c])
             /\ \A s \in Services :
                  MarkAt(PriorPins(caller'[c]), s) \subseteq MarkAt(PriorPins(caller[c]), s)
             /\ Marks(PriorPins(caller'[c])) \subseteq Marks(PriorPins(caller[c]))
             /\ PairMarks(PriorPins(caller'[c])) \subseteq PairMarks(PriorPins(caller[c]))
             /\ Undoing(caller'[c]) => Undoing(caller[c]) /\ caller'[c].undo = caller[c].undo
  BY CalmPlaces, CalmMarks, SomePairMarks DEF CalmStep
<1>2. /\ \A s \in Services : MarkAt(LivePins', s) \subseteq MarkAt(LivePins, s)
      /\ Marks(LivePins') \subseteq Marks(LivePins)
      /\ PairMarks(LivePins') \subseteq PairMarks(LivePins)
  <2>1. \A s \in Services : MarkAt(LivePins', s) \subseteq MarkAt(LivePins, s)
    BY FewerMarks DEF CalmStep
  <2> QED
    BY <2>1, SomePairMarks
<1>3. PendingIsNew'
  BY <1>1, <1>2 DEF AckedInv, PendingIsNew
<1>4. PairInOnePlace'
  BY <1>1, <1>2 DEF AckedInv, PairInOnePlace
<1>5. UndoPredatesWrite'
  BY <1>1 DEF AckedInv, UndoPredatesWrite, Undoing
<1>6. ASSUME NEW c \in Callers, NEW x \in Deferred(caller'[c])
      PROVE  /\ x \in RunMarks /\ Spent(x)'
             /\ x \notin MarkAt(LivePins', Schema)
             /\ \A d \in Callers :
                  x \notin MarkAt(PriorPins(caller'[d]), Schema) \cup Pending(caller'[d])
  <2>1. Schema \in Services /\ Loader \in Services
    BY LockDataAssumption
  <2>2. CASE x \in Deferred(caller[c])
    <3>1. x \in RunMarks /\ Spent(x)
      BY <2>2 DEF AckedInv, SchemaIsGone
    <3>2. Spent(x)'
      BY <3>1 DEF Spent, CalmStep
    <3> QED
      BY <1>1, <1>2, <2>1, <2>2, <3>1, <3>2 DEF AckedInv, SchemaIsGone
  <2>3. CASE x \in MarkAt(LivePins, Loader) /\ LivePins'[Schema] = None
    <3>1. x \in Loaders /\ x \in RunMarks
      BY <2>3 DEF Loaders, PairInv, RunMarks
    <3>2. Spent(x)
      BY <3>1, SomeMarks DEF PairInv
    <3>3. Spent(x)'
      BY <3>2 DEF Spent, CalmStep
    <3>4. x \in PairMarks(LivePins) /\ x \in Marks(LivePins)
      BY <2>1, <2>3, <3>1 DEF PairMarks, Marks
    <3>5. ASSUME NEW d \in Callers
          PROVE  x \notin MarkAt(PriorPins(caller[d]), Schema) \cup Pending(caller[d])
      BY <3>1, <3>4 DEF AckedInv, PendingIsNew, PairInOnePlace, PairMarks
    <3>6. x \notin MarkAt(LivePins', Schema)
      BY <2>3 DEF MarkAt
    <3> QED
      BY <1>1, <2>1, <3>1, <3>3, <3>5, <3>6
  <2> QED
    BY <1>6, <2>2, <2>3
<1>7. SchemaIsGone'
  BY <1>6 DEF SchemaIsGone, RunMarks
<1> QED
  BY <1>3, <1>4, <1>5, <1>7 DEF AckedInv

\* A mark made by the resolution of a manifest is nowhere yet.
LEMMA AckedResolve ==
  ASSUME Inv, PairInv, AckedInv, NEW c \in Callers, ResolveStep(c)
  PROVE  AckedInv'
<1>1. PICK n : LET x == <<n.req.run, n.at>> IN
         /\ n.op = "pin" /\ n.req \in Request /\ n.at \in Times
         /\ caller' = [caller EXCEPT ![c] = n]
         /\ UNCHANGED lock
         /\ ~Undoing(caller[c])
         /\ \A r \in Runs : run'[r].nextPin >= run[r].nextPin
         /\ x[1] \in Runs => x[2] >= run[x[1]].nextPin /\ x[2] < run'[x[1]].nextPin
  BY ResolveMark
<1> DEFINE x == <<n.req.run, n.at>>
<1>2. LivePins' = LivePins
  BY <1>1 DEF LivePins
<1>3. ASSUME NEW d \in Callers PROVE caller'[d] = IF d = c THEN n ELSE caller[d]
  BY <1>1 DEF Inv, TypeOK
<1>4. Pending(n) = {x} /\ PriorPins(n) = NoPins /\ ~Undoing(n) /\ Deferred(n) = {}
  BY <1>1 DEF Pending, PriorPins, Undoing, Deferred
<1>5. x[1] \in Runs => x[2] >= run[x[1]].nextPin
  BY <1>1
<1>6. x[2] \in Nat
  BY <1>1 DEF Times
<1>7. /\ \A r \in Runs : run[r].nextPin \in Nat
      /\ \A r \in Runs : run'[r].nextPin \in Nat
      /\ \A r \in Runs : run'[r].nextPin >= run[r].nextPin
  <2>1. run \in [Runs -> RunRecord]
    BY DEF Inv, TypeOK
  <2>2. run' \in [Runs -> RunRecord]
    <3>1. ProcessStep(c)
      BY DEF ProcessStep, AckedStep, ResolveStep
    <3> QED
      BY <3>1, InvProcessStep DEF Inv, TypeOK
  <2> QED
    BY <1>1, <2>1, <2>2 DEF RunRecord, Times
<1> HIDE DEF x
<1>8. ASSUME NEW y, Spent(y), x \in RunMarks PROVE y # x
  BY <1>5, <1>6, <1>7, <1>8 DEF Spent, RunMarks
<1>9. x \in RunMarks => x \notin AllMarks
  BY <1>8 DEF PairInv
<1>10. /\ \A s \in Services : MarkAt(NoPins, s) = {}
       /\ Marks(NoPins) = {} /\ PairMarks(NoPins) = {}
  BY LockDataAssumption DEF NoPins, MarkAt, Marks, PairMarks
<1>11. ASSUME NEW d \in Callers
       PROVE  /\ PriorPins(caller'[d]) = IF d = c THEN NoPins ELSE PriorPins(caller[d])
              /\ Pending(caller'[d]) = IF d = c THEN {x} ELSE Pending(caller[d])
              /\ Deferred(caller'[d]) = IF d = c THEN {} ELSE Deferred(caller[d])
              /\ x \in RunMarks => /\ x \notin Pending(caller[d])
                                   /\ x \notin Marks(PriorPins(caller[d]))
                                   /\ x \notin Marks(LivePins)
  BY <1>3, <1>4, <1>9, Places
<1>12. PendingIsNew'
  <2>1. ASSUME NEW d \in Callers PROVE Pending(caller'[d]) \cap Marks(LivePins') \cap RunMarks = {}
    BY <1>2, <1>11 DEF AckedInv, PendingIsNew
  <2>2. ASSUME NEW d \in Callers, NEW e \in Callers
        PROVE  Pending(caller'[d]) \cap Marks(PriorPins(caller'[e])) \cap RunMarks = {}
    BY <1>10, <1>11 DEF AckedInv, PendingIsNew
  <2>3. ASSUME NEW d \in Callers, NEW e \in Callers, d # e
        PROVE  Pending(caller'[d]) \cap Pending(caller'[e]) \cap RunMarks = {}
    BY <1>11, <2>3 DEF AckedInv, PendingIsNew
  <2> QED
    BY <2>1, <2>2, <2>3 DEF PendingIsNew, RunMarks
<1>13. PairInOnePlace'
  <2>1. ASSUME NEW d \in Callers
        PROVE  PairMarks(PriorPins(caller'[d])) \cap PairMarks(LivePins') = {}
    BY <1>2, <1>10, <1>11 DEF AckedInv, PairInOnePlace
  <2>2. ASSUME NEW d \in Callers, NEW e \in Callers, d # e
        PROVE  PairMarks(PriorPins(caller'[d])) \cap PairMarks(PriorPins(caller'[e])) = {}
    BY <1>10, <1>11, <2>2 DEF AckedInv, PairInOnePlace
  <2> QED
    BY <2>1, <2>2 DEF PairInOnePlace, PairMarks, RunMarks
<1>14. UndoPredatesWrite'
  BY <1>3, <1>4 DEF AckedInv, UndoPredatesWrite, Undoing
<1>15. ASSUME NEW d \in Callers, NEW y \in Deferred(caller'[d])
       PROVE  /\ y \in RunMarks /\ Spent(y)'
              /\ y \notin MarkAt(LivePins', Schema)
              /\ \A e \in Callers :
                   y \notin MarkAt(PriorPins(caller'[e]), Schema) \cup Pending(caller'[e])
  <2>1. y \in Deferred(caller[d]) /\ y \in RunMarks /\ Spent(y)
    BY <1>11 DEF AckedInv, SchemaIsGone
  <2>2. y # x
    BY <1>8, <2>1
  <2>3. Spent(y)'
    <3>1. y[1] \in Runs /\ y[2] \in Nat
      BY <2>1 DEF RunMarks, Times
    <3> QED
      BY <1>7, <2>1, <3>1 DEF Spent
  <2>4. ASSUME NEW e \in Callers
        PROVE  y \notin MarkAt(PriorPins(caller'[e]), Schema) \cup Pending(caller'[e])
    BY <1>10, <1>11, <2>1, <2>2, LockDataAssumption DEF AckedInv, SchemaIsGone
  <2> QED
    BY <1>2, <2>1, <2>3, <2>4 DEF AckedInv, SchemaIsGone
<1>16. SchemaIsGone'
  BY <1>15 DEF SchemaIsGone, RunMarks
<1> QED
  BY <1>12, <1>13, <1>14, <1>16 DEF AckedInv

\* A call's undo never replays the run pin the call wrote.
LEMMA UndoOfPredates ==
  ASSUME NEW l \in Lock, NEW q \in Request, NEW at \in Times, PinAdmitted(l, q),
         <<q.run, at>> \in RunMarks => <<q.run, at>> \notin Marks(l.pins),
         NEW s \in UndoOf(l, q, at).names
  PROVE  LET u == UndoOf(l, q, at) IN
         u.wrote[s] # None /\ u.wrote[s].ephemeral => u.priorPins[s] # u.wrote[s]
<1> DEFINE u == UndoOf(l, q, at)
           w == PinWrite(l, q, at)
<1>1. u.names = Targets(q) \cup StaleLoader(l, q) /\ s \in Services
  BY PinNames DEF UndoOf
<1>2. u.wrote[s] = w.pins[s] /\ u.priorPins[s] = l.pins[s]
  BY <1>1 DEF UndoOf
<1> HIDE DEF u
<1>3. s \in Services
  BY <1>1
<1>4. \A r \in Services : w.pins[r] = IF r \in Targets(q) THEN NewPin(l, q, r, at)
                                                       ELSE Release(l, StaleLoader(l, q)).pins[r]
  BY PinWriteType
<1> HIDE DEF w
<1> SUFFICES ASSUME w.pins[s] # None, w.pins[s].ephemeral, l.pins[s] = w.pins[s]
             PROVE  FALSE
  BY <1>2 DEF u, w
<1>5. s \in Targets(q)
  <2>1. s \notin Targets(q) => w.pins[s] = Release(l, StaleLoader(l, q)).pins[s]
    BY <1>3, <1>4
  <2>2. s \in StaleLoader(l, q) => Release(l, StaleLoader(l, q)).pins[s] = None
    BY PinNames, ReleaseType
  <2> QED
    BY <1>1, <2>1, <2>2 DEF u
<1>6. w.pins[s] = NewPin(l, q, s, at)
  BY <1>5, <1>3, <1>4
<1>7. q.ephemeral /\ Mark(l.pins[s]) = <<q.run, at>>
  BY <1>6 DEF NewPin, Mark
<1>8. q.run \in Runs
  BY <1>7 DEF Request
<1>9. <<q.run, at>> \in Marks(l.pins)
  BY <1>1, <1>7 DEF Marks, MarkAt
<1> QED
  BY <1>8, <1>9 DEF RunMarks

\* An acknowledged pin takes its mark from the call to the lock, and those
\* of the pins it replaces from the lock to the call.
LEMMA AckedPin ==
  ASSUME Inv, PairInv, AckedInv, NEW c \in Callers, PinStep(c),
         caller'[c] = [op |-> "recheck", undo |-> UndoOf(lock, caller[c].req, caller[c].at)]
  PROVE  AckedInv'
<1> DEFINE o == caller[c]
           q == o.req
           x == <<q.run, o.at>>
           w == PinWrite(lock, q, o.at)
           u == UndoOf(lock, q, o.at)
<1>1. /\ q \in Request /\ o.at \in Times /\ lock \in Lock /\ lock # None
      /\ PinAdmitted(lock, q) /\ o.op = "pin"
  BY OpArguments DEF PinStep, Inv, TypeOK, PinOp
<1>2. LivePins = lock.pins /\ Together(lock.pins)
  BY <1>1 DEF LivePins, PairInv
<1>3. lock' = w /\ w \in Lock /\ LivePins' = w.pins
  BY <1>1, PinWriteType, NoneAssumption DEF PinStep, LivePins
<1>4. /\ q.paired => /\ w.pins[Schema] # None /\ Mark(w.pins[Schema]) = x
                     /\ w.pins[Loader] # None /\ Mark(w.pins[Loader]) = x
      /\ q.service = Schema /\ ~q.paired => /\ w.pins[Schema] # None
                                            /\ Mark(w.pins[Schema]) = x
                                            /\ w.pins[Loader] = None
      /\ q.service # Schema => /\ w.pins[Schema] = lock.pins[Schema]
                               /\ w.pins[Loader] = lock.pins[Loader]
      /\ \A s \in Services : MarkAt(w.pins, s) \subseteq MarkAt(lock.pins, s) \cup {x}
  BY <1>1, PinWritePair
<1>5. /\ UndoTogether(u)
      /\ \A s \in Services : u.wrote[s] \in {None, w.pins[s]} /\ u.priorPins[s] \in {None, lock.pins[s]}
      /\ Schema \in u.names <=> q.service = Schema
  BY <1>1, <1>2, UndoOfPair
<1>6. caller'[c].op = "recheck" /\ caller'[c].undo = u
  OBVIOUS
<1>7. \A d \in Callers : d # c => caller'[d] = caller[d]
  BY DEF PinStep, MovesOnly
<1>8. Schema \in Services /\ Loader \in Services
  BY LockDataAssumption
<1>9. Pending(o) = {x} /\ ~Undoing(o)
  BY <1>1 DEF Pending, Undoing
<1>10. ASSUME NEW s \in u.names, u.wrote[s] # None, u.wrote[s].ephemeral
       PROVE  u.priorPins[s] # u.wrote[s]
  <2>1. x \in RunMarks => x \notin Marks(lock.pins)
    BY <1>2, <1>9 DEF AckedInv, PendingIsNew
  <2> QED
    BY <1>1, <1>10, <2>1, UndoOfPredates
<1> HIDE DEF u, w, q, x
<1>11. /\ Pending(caller'[c]) = {} /\ PriorPins(caller'[c]) = u.priorPins
       /\ Deferred(caller'[c]) = {} /\ Undoing(caller'[c])
  BY <1>6 DEF Pending, PriorPins, Deferred, Undoing
<1> HIDE DEF o
<1>12. /\ \A s \in Services : MarkAt(u.priorPins, s) \subseteq MarkAt(LivePins, s)
       /\ Marks(u.priorPins) \subseteq Marks(LivePins)
       /\ PairMarks(u.priorPins) \subseteq PairMarks(LivePins)
  <2>1. \A s \in Services : MarkAt(u.priorPins, s) \subseteq MarkAt(LivePins, s)
    BY <1>2, <1>5, FewerMarks
  <2> QED
    BY <2>1, SomePairMarks
<1>13. /\ Marks(LivePins') \subseteq Marks(LivePins) \cup {x}
       /\ PairMarks(LivePins') \subseteq PairMarks(LivePins) \cup ({x} \cap RunMarks)
       /\ MarkAt(LivePins', Schema) \subseteq MarkAt(LivePins, Schema) \cup {x}
  BY <1>2, <1>3, <1>4, <1>8 DEF Marks, PairMarks
<1>14. ASSUME NEW d \in Callers
       PROVE  /\ x \in RunMarks => /\ x \notin Marks(LivePins)
                                   /\ x \notin Marks(PriorPins(caller[d]))
                                   /\ d # c => x \notin Pending(caller[d])
              /\ x \notin Deferred(caller[d])
  <2>1. Pending(caller[c]) = {x}
    BY <1>9 DEF o
  <2> QED
    BY <2>1 DEF AckedInv, PendingIsNew, SchemaIsGone
<1>15. PairMarks(u.priorPins) \cap PairMarks(LivePins') = {}
  <2>1. CASE q.service = Schema
    <3>1. PairMarks(LivePins') \subseteq {x} \cap RunMarks
      BY <1>3, <1>4, <1>8, <2>1 DEF PairMarks, MarkAt
    <3>2. x \in RunMarks => x \notin PairMarks(LivePins)
      BY <1>14, Places
    <3> QED
      BY <1>12, <3>1, <3>2
  <2>2. CASE q.service # Schema
    <3>1. Schema \notin u.names /\ Loader \notin u.names
      BY <1>5, <2>2 DEF UndoTogether
    <3>2. u.priorPins[Schema] = None /\ u.priorPins[Loader] = None
      BY <1>5, <1>8, <3>1 DEF UndoTogether
    <3> QED
      BY <3>2 DEF PairMarks, MarkAt
  <2> QED
    BY <2>1, <2>2
<1>16. PendingIsNew'
  <2>1. ASSUME NEW d \in Callers PROVE Pending(caller'[d]) \cap Marks(LivePins') \cap RunMarks = {}
    <3>1. CASE d = c
      BY <1>11, <3>1
    <3>2. CASE d # c
      BY <1>7, <1>13, <1>14, <3>2 DEF AckedInv, PendingIsNew
    <3> QED
      BY <3>1, <3>2
  <2>2. ASSUME NEW d \in Callers, NEW e \in Callers
        PROVE  Pending(caller'[d]) \cap Marks(PriorPins(caller'[e])) \cap RunMarks = {}
    <3>1. CASE d = c
      BY <1>11, <3>1
    <3>2. CASE d # c /\ e = c
      BY <1>7, <1>11, <1>12, <3>2 DEF AckedInv, PendingIsNew
    <3>3. CASE d # c /\ e # c
      BY <1>7, <3>3 DEF AckedInv, PendingIsNew
    <3> QED
      BY <3>1, <3>2, <3>3
  <2>3. ASSUME NEW d \in Callers, NEW e \in Callers, d # e
        PROVE  Pending(caller'[d]) \cap Pending(caller'[e]) \cap RunMarks = {}
    <3>1. CASE d = c \/ e = c
      BY <1>11, <3>1
    <3>2. CASE d # c /\ e # c
      BY <1>7, <2>3, <3>2 DEF AckedInv, PendingIsNew
    <3> QED
      BY <3>1, <3>2
  <2> QED
    BY <2>1, <2>2, <2>3 DEF PendingIsNew, RunMarks
<1>17. PairInOnePlace'
  <2>1. ASSUME NEW d \in Callers
        PROVE  PairMarks(PriorPins(caller'[d])) \cap PairMarks(LivePins') = {}
    <3>1. CASE d = c
      BY <1>11, <1>15, <3>1
    <3>2. CASE d # c
      <4>1. x \in RunMarks => x \notin PairMarks(PriorPins(caller[d]))
        BY <1>14, Places
      <4> QED
        BY <1>7, <1>13, <3>2, <4>1 DEF AckedInv, PairInOnePlace
    <3> QED
      BY <3>1, <3>2
  <2>2. ASSUME NEW d \in Callers, NEW e \in Callers, d # e
        PROVE  PairMarks(PriorPins(caller'[d])) \cap PairMarks(PriorPins(caller'[e])) = {}
    <3>1. CASE d = c
      BY <1>7, <1>11, <1>12, <2>2, <3>1 DEF AckedInv, PairInOnePlace
    <3>2. CASE e = c
      BY <1>7, <1>11, <1>12, <2>2, <3>2 DEF AckedInv, PairInOnePlace
    <3>3. CASE d # c /\ e # c
      BY <1>7, <2>2, <3>3 DEF AckedInv, PairInOnePlace
    <3> QED
      BY <3>1, <3>2, <3>3
  <2> QED
    BY <2>1, <2>2 DEF PairInOnePlace, PairMarks, RunMarks
<1>18. UndoPredatesWrite'
  <2>1. ASSUME NEW d \in Callers, Undoing(caller'[d]), NEW s \in caller'[d].undo.names,
               caller'[d].undo.wrote[s] # None, caller'[d].undo.wrote[s].ephemeral
        PROVE  caller'[d].undo.priorPins[s] # caller'[d].undo.wrote[s]
    <3>1. CASE d = c
      BY <1>6, <1>10, <2>1, <3>1
    <3>2. CASE d # c
      BY <1>7, <2>1, <3>2 DEF AckedInv, UndoPredatesWrite, Undoing
    <3> QED
      BY <3>1, <3>2
  <2> QED
    BY <2>1 DEF UndoPredatesWrite, Undoing
<1>19. ASSUME NEW d \in Callers, NEW y \in Deferred(caller'[d])
       PROVE  /\ y \in RunMarks /\ Spent(y)'
              /\ y \notin MarkAt(LivePins', Schema)
              /\ \A e \in Callers :
                   y \notin MarkAt(PriorPins(caller'[e]), Schema) \cup Pending(caller'[e])
  <2>1. d # c /\ y \in Deferred(caller[d])
    BY <1>7, <1>11
  <2>2. y \in RunMarks /\ Spent(y) /\ y \notin MarkAt(LivePins, Schema) /\ y # x
    BY <1>14, <2>1 DEF AckedInv, SchemaIsGone
  <2>3. Spent(y)'
    BY <2>2 DEF Spent, PinStep
  <2>4. ASSUME NEW e \in Callers
        PROVE  y \notin MarkAt(PriorPins(caller'[e]), Schema) \cup Pending(caller'[e])
    <3>1. CASE e = c
      BY <1>8, <1>11, <1>12, <2>2, <3>1
    <3>2. CASE e # c
      BY <1>7, <2>1, <3>2 DEF AckedInv, SchemaIsGone
    <3> QED
      BY <3>1, <3>2
  <2> QED
    BY <1>13, <2>2, <2>3, <2>4
<1>20. SchemaIsGone'
  BY <1>19 DEF SchemaIsGone, RunMarks
<1> QED
  BY <1>16, <1>17, <1>18, <1>20 DEF AckedInv

\* An acknowledged rollback takes the marks it replays back to the lock.
LEMMA AckedRevert ==
  ASSUME Inv, PairInv, AckedInv, NEW c \in Callers, RevertStep(c), caller'[c] = Idle
  PROVE  AckedInv'
<1> DEFINE o == caller[c]
           u == o.undo
           w == Reverted(lock, u)
<1>1. o.op = "revert" /\ u \in Undo /\ lock \in Lock /\ lock # None
  BY OpArguments DEF RevertStep, Inv, TypeOK, UndoOp
<1>2. /\ LivePins = lock.pins /\ LivePins' = w.pins
      /\ \A s \in Services : w.pins[s] = IF s \in u.names THEN u.priorPins[s] ELSE lock.pins[s]
  BY <1>1, RevertedType, NoneAssumption DEF RevertStep, LivePins
<1>3. PriorPins(o) = u.priorPins
  BY <1>1 DEF PriorPins, Undoing
<1>4. \A d \in Callers : d # c => caller'[d] = caller[d]
  BY DEF RevertStep, MovesOnly
<1>5. Schema \in Services /\ Loader \in Services
  BY LockDataAssumption
<1> HIDE DEF w
<1>6. /\ \A s \in Services : MarkAt(LivePins', s) \subseteq MarkAt(LivePins, s) \cup MarkAt(PriorPins(o), s)
      /\ Marks(LivePins') \subseteq Marks(LivePins) \cup Marks(PriorPins(o))
      /\ PairMarks(LivePins') \subseteq PairMarks(LivePins) \cup PairMarks(PriorPins(o))
  <2>1. \A s \in Services : MarkAt(LivePins', s) \subseteq MarkAt(LivePins, s) \cup MarkAt(PriorPins(o), s)
    BY <1>2, <1>3 DEF MarkAt
  <2> QED
    BY <1>5, <2>1 DEF Marks, PairMarks
<1>7. /\ Pending(caller'[c]) = {} /\ PriorPins(caller'[c]) = NoPins
      /\ Deferred(caller'[c]) = {} /\ ~Undoing(caller'[c])
  BY DEF Pending, PriorPins, Deferred, Undoing, Idle
<1>8. /\ \A s \in Services : MarkAt(NoPins, s) = {}
      /\ Marks(NoPins) = {} /\ PairMarks(NoPins) = {}
  BY LockDataAssumption DEF NoPins, MarkAt, Marks, PairMarks
<1>9. ASSUME NEW d \in Callers
      PROVE  /\ Pending(caller'[d]) = IF d = c THEN {} ELSE Pending(caller[d])
             /\ PriorPins(caller'[d]) = IF d = c THEN NoPins ELSE PriorPins(caller[d])
             /\ Deferred(caller'[d]) = IF d = c THEN {} ELSE Deferred(caller[d])
  BY <1>4, <1>7
<1> HIDE DEF u
<1>10. PendingIsNew'
  <2>1. ASSUME NEW d \in Callers PROVE Pending(caller'[d]) \cap Marks(LivePins') \cap RunMarks = {}
    BY <1>6, <1>9 DEF AckedInv, PendingIsNew
  <2>2. ASSUME NEW d \in Callers, NEW e \in Callers
        PROVE  Pending(caller'[d]) \cap Marks(PriorPins(caller'[e])) \cap RunMarks = {}
    BY <1>8, <1>9 DEF AckedInv, PendingIsNew
  <2>3. ASSUME NEW d \in Callers, NEW e \in Callers, d # e
        PROVE  Pending(caller'[d]) \cap Pending(caller'[e]) \cap RunMarks = {}
    BY <1>9, <2>3 DEF AckedInv, PendingIsNew
  <2> QED
    BY <2>1, <2>2, <2>3 DEF PendingIsNew, RunMarks
<1>11. PairInOnePlace'
  <2>1. ASSUME NEW d \in Callers
        PROVE  PairMarks(PriorPins(caller'[d])) \cap PairMarks(LivePins') = {}
    <3>1. CASE d = c
      BY <1>8, <1>9, <3>1
    <3>2. CASE d # c
      <4>1. PairMarks(PriorPins(caller[d])) \cap PairMarks(PriorPins(o)) = {}
        BY <3>2 DEF AckedInv, PairInOnePlace
      <4> QED
        BY <1>6, <1>9, <3>2, <4>1 DEF AckedInv, PairInOnePlace
    <3> QED
      BY <3>1, <3>2
  <2>2. ASSUME NEW d \in Callers, NEW e \in Callers, d # e
        PROVE  PairMarks(PriorPins(caller'[d])) \cap PairMarks(PriorPins(caller'[e])) = {}
    BY <1>8, <1>9, <2>2 DEF AckedInv, PairInOnePlace
  <2> QED
    BY <2>1, <2>2 DEF PairInOnePlace, PairMarks, RunMarks
<1>12. UndoPredatesWrite'
  BY <1>4, <1>7 DEF AckedInv, UndoPredatesWrite, Undoing
<1>13. ASSUME NEW d \in Callers, NEW y \in Deferred(caller'[d])
       PROVE  /\ y \in RunMarks /\ Spent(y)'
              /\ y \notin MarkAt(LivePins', Schema)
              /\ \A e \in Callers :
                   y \notin MarkAt(PriorPins(caller'[e]), Schema) \cup Pending(caller'[e])
  <2>1. y \in Deferred(caller[d]) /\ y \in RunMarks /\ Spent(y)
    BY <1>9 DEF AckedInv, SchemaIsGone
  <2>2. Spent(y)'
    BY <2>1 DEF Spent, RevertStep
  <2>3. y \notin MarkAt(LivePins', Schema)
    BY <1>5, <1>6, <2>1 DEF AckedInv, SchemaIsGone
  <2>4. ASSUME NEW e \in Callers
        PROVE  y \notin MarkAt(PriorPins(caller'[e]), Schema) \cup Pending(caller'[e])
    BY <1>5, <1>8, <1>9, <2>1 DEF AckedInv, SchemaIsGone
  <2> QED
    BY <2>1, <2>2, <2>3, <2>4
<1>14. SchemaIsGone'
  BY <1>13 DEF SchemaIsGone, RunMarks
<1> QED
  BY <1>10, <1>11, <1>12, <1>14 DEF AckedInv

\* Where every write is acknowledged, AckedInv is inductive.
LEMMA AckedStepKeeps ==
  ASSUME Inv, PairInv, AckedInv,
         (\E c \in Callers : AckedStep(c)) \/ EnvironmentStep \/ UNCHANGED vars
  PROVE  AckedInv'
<1>1. CASE EnvironmentStep \/ UNCHANGED vars
  <2>1. UNCHANGED caller
    BY <1>1 DEF EnvironmentStep, UpsertDeployRecord, SetMaintenance, RunCompletes, RerunStarts,
         TimePasses, vars
  <2> QED
    BY <1>1, <2>1, EnvironmentCalm, AckedCalm
<1>2. ASSUME NEW c \in Callers, AckedStep(c) PROVE AckedInv'
  <2>1. CASE CalmStep
    <3>1. ASSUME NEW d \in Callers
          PROVE  \/ Deferred(caller'[d]) \subseteq Deferred(caller[d])
                 \/ /\ Deferred(caller'[d]) \subseteq MarkAt(LivePins, Loader)
                    /\ LivePins'[Schema] = None
      <4>1. CASE d = c
        BY <1>2, <4>1, DeferMoves
      <4>2. CASE d # c
        BY <1>2, <4>2, OneProcessMoves DEF ProcessStep, Inv, TypeOK
      <4> QED
        BY <4>1, <4>2
    <3> QED
      BY <2>1, <3>1, AckedCalm
  <2> QED
    BY <1>2, <2>1, AckedShape, AckedResolve, AckedPin, AckedRevert
<1> QED
  BY <1>1, <1>2

\* Nothing is pinned, pending or deferred at the start.
LEMMA AckedInit == Init => AckedInv
<1> SUFFICES ASSUME Init PROVE AckedInv
  OBVIOUS
<1>1. ASSUME NEW c \in Callers
      PROVE  /\ Pending(caller[c]) = {} /\ PriorPins(caller[c]) = NoPins
             /\ Deferred(caller[c]) = {} /\ ~Undoing(caller[c])
  BY DEF Init, Idle, Pending, PriorPins, Deferred, Undoing
<1>2. PairMarks(NoPins) = {}
  BY LockDataAssumption DEF NoPins, MarkAt, PairMarks
<1> QED
  BY <1>1, <1>2 DEF AckedInv, PendingIsNew, PairInOnePlace, SchemaIsGone, UndoPredatesWrite, Undoing

\* Under acknowledged traffic the marks stay where they are said to be.
LEMMA AckedInvariant == TrafficSpec => [](Inv /\ PairInv /\ (traffic = "acked" => AckedInv))
<1> DEFINE I == traffic = "acked" => AckedInv
<1>1. TrafficInit => I
  BY AckedInit DEF TrafficInit
<1>2. Inv /\ PairInv /\ I /\ [TrafficNext]_<<traffic, vars>> => I'
  <2> SUFFICES ASSUME Inv, PairInv, I, [TrafficNext]_<<traffic, vars>>, traffic' = "acked"
               PROVE  AckedInv'
    OBVIOUS
  <2>1. traffic = "acked" /\ AckedInv
    BY TrafficSteps
  <2>2. (\E c \in Callers : AckedStep(c)) \/ EnvironmentStep \/ UNCHANGED vars
    BY <2>1 DEF TrafficNext, AckedTraffic
  <2> QED
    BY <2>1, <2>2, AckedStepKeeps
<1> QED
  BY <1>1, <1>2, TrafficInvariant, PTL DEF TrafficSpec

\* Where no reply is lost, a rollback never replays the run pin its own call
\* wrote, whatever other processes write between the two.
THEOREM AckedUndoAlwaysPredatesWrite == TrafficSpec => []AckedUndoPredatesWrite
<1>1. (traffic = "acked" => AckedInv) => AckedUndoPredatesWrite
  BY DEF AckedInv, AckedUndoPredatesWrite
<1> QED
  BY <1>1, AckedInvariant, PTL

\* Where no reply is lost, a deferred reset releases the loader only while
\* schema is unpinned: a borrow of schema that slipped in during the rollout
\* wait keeps its loader.
THEOREM AckedLoaderAlwaysWaits == TrafficSpec => AckedLoaderWaitsForSchema
<1> DEFINE A == \A c \in Callers :
                  (traffic = "acked" /\ caller[c].op = "loader" /\ caller'[c] # caller[c]
                     /\ Loader \in Lost)
                    => Schema \notin Pinned(lock)
           I == traffic = "acked" => AckedInv
<1>1. Inv /\ PairInv /\ I /\ [TrafficNext]_<<traffic, vars>> => [A]_<<traffic, vars>>
  <2> SUFFICES ASSUME Inv, PairInv, AckedInv, [TrafficNext]_<<traffic, vars>>,
                      NEW c \in Callers, caller[c].op = "loader", caller'[c] # caller[c],
                      Loader \in Lost, Schema \in Pinned(lock)
               PROVE  FALSE
    OBVIOUS
  <2>1. lock' = Outcome(lock, caller[c]).lock \/ UNCHANGED lock
    BY TrafficSteps, MutatorMoves
  <2>2. lock' = LoaderOutcome(lock, caller[c]).lock
    BY <2>1 DEF Outcome, Lost
  <2>3. lock # None /\ lock.pins[Loader] = caller[c].loader
    BY <2>2 DEF LoaderOutcome, Refused, Raised, Lost
  <2>4. lock.pins[Loader] # None /\ lock.pins[Schema] # None
    BY LockDataAssumption DEF Lost, Pinned
  <2>5. Mark(lock.pins[Schema]) = Mark(caller[c].loader)
    BY <2>3, <2>4 DEF PairInv, Together, LivePins
  <2>6. Mark(caller[c].loader) \in Deferred(caller[c])
    BY DEF Deferred
  <2>7. Mark(caller[c].loader) \in MarkAt(LivePins, Schema)
    BY <2>3, <2>4, <2>5 DEF LivePins, MarkAt
  <2> QED
    BY <2>6, <2>7 DEF AckedInv, SchemaIsGone
<1> QED
  BY <1>1, AckedInvariant, PTL DEF TrafficSpec, AckedLoaderWaitsForSchema
(***************************************************************************)
(* The sweep spares live runs                                              *)
(***************************************************************************)

\* A pin was placed by now, and one that is ephemeral by a run.
Dated(pin, t) == pin # None => pin.at <= t /\ (pin.ephemeral => pin.run \in Runs)

\* A pin no running attempt placed: its run is over, or began after it.
Past(runs, pin) ==
  pin # None => ~(runs[pin.run].state = "running" /\ pin.at >= runs[pin.run].since)

\* The pins a sweep has read, or judged stale.
SeenPins(o) == IF o.op \in {"judge", "sweep"} THEN o.seen ELSE NoPins

\* No attempt has outlived its budget; no pin, on the lock or about to be
\* written or replayed, is of a time to come; and a sweep has read only the
\* pins of runs, and is about to release only those of no running attempt.
\* The last needs the dates: a re-run keeps the run's id and begins after
\* every pin there is.
SweepInv ==
  /\ \A r \in Runs : WithinBudget(r, now)
  /\ \A s \in Services : Dated(LivePins[s], now)
  /\ \A c \in Callers :
       /\ caller[c].op = "pin" => caller[c].at <= now
       /\ \A s \in Services :
            LET seen == SeenPins(caller[c])[s] IN
            /\ Dated(PriorPins(caller[c])[s], now)
            /\ Dated(seen, now)
            /\ seen # None => seen.ephemeral
            /\ caller[c].op = "sweep" => Past(run, seen)

\* What a sweep reads and judges comes from its own steps.
LEMMA SeenMoves ==
  ASSUME Inv, [Next]_vars, NEW c \in Callers, caller'[c].op \in {"judge", "sweep"},
         caller'[c] # caller[c]
  PROVE  SweepRead(c) \/ \E unreachable \in SUBSET Runs : SweepJudge(c, unreachable)
<1> DEFINE Other(n) == n.op \notin {"judge", "sweep"} /\ Becomes(c, n)
<1>1. ~EnvironmentStep /\ ~UNCHANGED vars
  BY DEF EnvironmentStep, UpsertDeployRecord, SetMaintenance, RunCompletes, RerunStarts,
         TimePasses, vars
<1>2. ProcessStep(c)
  BY <1>1, OneProcessMoves DEF Next, Inv, TypeOK
<1>3. \A n : ~Other(n)
  BY DEF Becomes, Inv, TypeOK
<1>4. Idle.op \notin {"judge", "sweep"}
  BY DEF Idle
<1>5. ASSUME NEW op \in MutatorOps, Mutate(c, op) PROVE FALSE
  <2>1. caller[c].op \in MutatorOps /\ Becomes(c, Outcome(lock, caller[c]).next)
    BY <1>5 DEF Mutate
  <2>2. Outcome(lock, caller[c]).next.op \notin {"judge", "sweep"}
    BY <2>1, OutcomeNext
  <2> QED
    BY <1>3, <2>1, <2>2
<1>6. ~ReplyLost(c)
  BY <1>3, <1>4 DEF ReplyLost
<1>7. AckedStep(c)
  BY <1>2, <1>6 DEF ProcessStep
<1>8. ASSUME NEW paired \in BOOLEAN, ResolveManifest(c, paired) PROVE FALSE
  BY <1>3, <1>8 DEF ResolveManifest
<1>9. ASSUME RecheckClear(c) \/ GiveUp(c) PROVE FALSE
  BY <1>3, <1>4, <1>9 DEF RecheckClear, GiveUp
<1>10. ASSUME RecheckBlocked(c) PROVE FALSE
  BY <1>3, <1>10 DEF RecheckBlocked
<1>11. ASSUME SchemaServes(c) PROVE FALSE
  BY <1>3, <1>11 DEF SchemaServes
<1>12. ASSUME NEW q \in PinRequests, CheckDeployable(c, q) PROVE FALSE
  BY <1>3, <1>12 DEF CheckDeployable, Begin
<1>13. ASSUME NEW s \in Services, NEW r \in Runs \cup {None}, StartReset(c, s, r) PROVE FALSE
  BY <1>3, <1>13 DEF StartReset, Begin
<1>14. ASSUME NEW names \in RefreshSets, NEW image \in Canonicals, StartRefresh(c, names, image)
       PROVE  FALSE
  BY <1>3, <1>14 DEF StartRefresh, Begin
<1>15. ASSUME NEW image \in Canonicals, StartApply(c, image) PROVE FALSE
  BY <1>3, <1>15 DEF StartApply, Begin
<1>16. ASSUME NEW s \in Services, NEW repo \in Repos \cup {None}, StartProject(c, s, repo)
       PROVE  FALSE
  BY <1>3, <1>16 DEF StartProject, Begin
<1>17. ASSUME \/ WritePin(c) \/ RevertPin(c) \/ ResetService(c) \/ ResetPairedLoader(c)
              \/ SweepStale(c) \/ ApplyRefresh(c) \/ ApplyImageLock(c) \/ ProjectRoster(c)
       PROVE  FALSE
  BY <1>5, <1>17 DEF WritePin, RevertPin, ResetService, ResetPairedLoader, SweepStale,
                     ApplyRefresh, ApplyImageLock, ProjectRoster, MutatorOps
<1> QED
  BY <1>7, <1>8, <1>9, <1>10, <1>11, <1>12, <1>13, <1>14, <1>15, <1>16, <1>17 DEF AckedStep

\* Time does not go back, no attempt outlives its budget, and an attempt that
\* runs was running before, or has just begun.
LEMMA TimeMoves ==
  ASSUME Inv, [Next]_vars, \A r \in Runs : WithinBudget(r, now)
  PROVE  /\ now \in Nat /\ now' \in Nat /\ now <= now'
         /\ \A r \in Runs : /\ WithinBudget(r, now)'
                            /\ run'[r].state = "running" =>
                                 \/ run[r].state = "running" /\ run'[r].since = run[r].since
                                 \/ run'[r].since > now
<1> DEFINE Kept(r) == run'[r].state = run[r].state /\ run'[r].since = run[r].since
           Good == /\ now \in Nat /\ now' \in Nat /\ now <= now'
                   /\ \A r \in Runs :
                        /\ WithinBudget(r, now)'
                        /\ run'[r].state = "running" =>
                             \/ run[r].state = "running" /\ run'[r].since = run[r].since
                             \/ run'[r].since > now
<1>1. /\ run \in [Runs -> RunRecord] /\ now \in Nat
      /\ \A r \in Runs : run[r].state \in {"running", "completed"} /\ run[r].since \in Nat
  BY DEF Inv, TypeOK, RunRecord, Times
<1>2. ASSUME UNCHANGED now, \A r \in Runs : Kept(r) PROVE Good
  BY <1>1, <1>2 DEF WithinBudget
<1>3. ASSUME NEW c \in Callers, ProcessStep(c) PROVE Good
  <2>1. UNCHANGED now
    BY <1>3 DEF ProcessStep, AckedStep, CheckDeployable, ResolveManifest, WritePin, RecheckClear,
       RecheckBlocked, RevertPin, StartReset, ResetService, SchemaServes, ResetPairedLoader,
       SweepRead, SweepJudge, SweepStale, StartRefresh, ApplyRefresh, StartApply,
       ApplyImageLock, StartProject, ProjectRoster, ReplyLost, GiveUp, Mutate, env
  <2>2. UNCHANGED run \/ \E r \in Runs : run' = [run EXCEPT ![r].nextPin = now + 1]
    <3>1. ASSUME NEW paired \in BOOLEAN, ResolveManifest(c, paired)
          PROVE  UNCHANGED run \/ \E r \in Runs : run' = [run EXCEPT ![r].nextPin = now + 1]
      <4>1. caller[c].req.run \in Runs \cup {None}
        BY <3>1, OpArguments DEF Inv, TypeOK, ResolveManifest, ResolveOp, Request
      <4> QED
        BY <3>1, <4>1 DEF ResolveManifest
    <3>2. ASSUME AckedStep(c), ~\E paired \in BOOLEAN : ResolveManifest(c, paired)
          PROVE  UNCHANGED run
      BY <3>2 DEF AckedStep, CheckDeployable, WritePin, RecheckClear,
         RecheckBlocked, RevertPin, StartReset, ResetService, SchemaServes, ResetPairedLoader,
         SweepRead, SweepJudge, SweepStale, StartRefresh, ApplyRefresh, StartApply,
         ApplyImageLock, StartProject, ProjectRoster, GiveUp, Mutate, env
    <3>3. ReplyLost(c) => UNCHANGED run
      BY DEF ReplyLost, env
    <3> QED
      BY <1>3, <3>1, <3>2, <3>3 DEF ProcessStep
  <2>3. \A r \in Runs : Kept(r)
    <3>1. ASSUME NEW q \in Runs, run' = [run EXCEPT ![q].nextPin = now + 1], NEW r \in Runs
          PROVE  Kept(r)
      BY <1>1, <3>1 DEF RunRecord
    <3> QED
      BY <2>2, <3>1
  <2> QED
    BY <1>2, <2>1, <2>3
<1>4. ASSUME NEW r \in Runs, RunCompletes(r) PROVE Good
  <2>1. UNCHANGED now /\ run' = [run EXCEPT ![r].state = "completed"]
    BY <1>4 DEF RunCompletes
  <2>2. ASSUME NEW q \in Runs
        PROVE  run'[q].since = run[q].since /\ (run'[q].state = "running" => run[q].state = "running")
    BY <1>1, <2>1 DEF RunRecord
  <2> QED
    BY <1>1, <2>1, <2>2 DEF WithinBudget
<1>5. ASSUME NEW r \in Runs, RerunStarts(r) PROVE Good
  <2>1. /\ now' = now + 1 /\ run' = [run EXCEPT ![r].state = "running", ![r].since = now']
        /\ \A q \in Runs : WithinBudget(q, now')
    BY <1>5 DEF RerunStarts, Tick
  <2>2. run'[r].since = now + 1 /\ \A q \in Runs \ {r} : run'[q] = run[q]
    BY <1>1, <2>1 DEF RunRecord
  <2>3. AgeThreshold \in Nat
    BY ImageLockAssumption
  <2> QED
    BY <1>1, <2>1, <2>2, <2>3 DEF WithinBudget
<1>6. ASSUME TimePasses PROVE Good
  <2>1. now' = now + 1 /\ UNCHANGED run /\ \A q \in Runs : WithinBudget(q, now')
    BY <1>6 DEF TimePasses, Tick
  <2> QED
    BY <1>1, <2>1 DEF WithinBudget
<1>7. ASSUME NEW flag \in {"clear", "maintenance"}, UpsertDeployRecord(flag) \/ SetMaintenance(flag)
      PROVE  Good
  BY <1>2, <1>7 DEF UpsertDeployRecord, SetMaintenance
<1>8. ASSUME UNCHANGED vars PROVE Good
  BY <1>2, <1>8 DEF vars
<1> HIDE DEF Good
<1>9. Good
  BY <1>3, <1>4, <1>5, <1>6, <1>7, <1>8 DEF Next, EnvironmentStep
<1> QED
  BY <1>9 DEF Good

\* The pins on the lock and in rollbacks are those there were, or the one a
\* call wrote; a call about to pin was, or has resolved its manifest now.
LEMMA PinsDated ==
  ASSUME Inv, SweepInv, [Next]_vars
  PROVE  /\ \A s \in Services : Dated(LivePins'[s], now)
         /\ \A c \in Callers :
              /\ caller'[c].op = "pin" => caller'[c].at <= now
              /\ \A s \in Services : Dated(PriorPins(caller'[c])[s], now)
<1> DEFINE D(pins) == \A s \in Services : Dated(pins[s], now)
           Fine(o) == (o.op = "pin" => o.at <= now) /\ D(PriorPins(o))
           Good == D(LivePins') /\ \A c \in Callers : Fine(caller'[c])
<1>1. D(LivePins) /\ \A c \in Callers : Fine(caller[c])
  BY DEF SweepInv
<1>2. now \in Nat
  BY DEF Inv, TypeOK, Times
<1>3. Dated(None, now) /\ \A s \in Services : NoPins[s] = None
  BY DEF Dated, NoPins
<1>4. Fine(Idle)
  BY <1>3 DEF Idle, PriorPins, Undoing
<1>5. ASSUME CalmStep PROVE Good
  <2>1. D(LivePins')
    <3>1. \A s \in Services : LivePins'[s] \in {None, LivePins[s]}
      BY <1>5 DEF CalmStep
    <3> QED
      BY <1>1, <1>3, <3>1
  <2>2. ASSUME NEW c \in Callers PROVE Fine(caller'[c])
    <3> DEFINE o == caller[c]
               n == caller'[c]
    <3>1. Calms(o, n) /\ Fine(o)
      BY <1>1, <1>5 DEF CalmStep
    <3>2. CASE n = o
      BY <3>1, <3>2
    <3>3. CASE n.op \notin {"pin", "recheck", "revert"}
      BY <1>3, <3>3 DEF PriorPins, Undoing
    <3>4. CASE o.op = "recheck" /\ n = [op |-> "revert", undo |-> o.undo]
      <4>1. PriorPins(n) = PriorPins(o) /\ n.op # "pin"
        BY <3>4 DEF PriorPins, Undoing
      <4> QED
        BY <3>1, <4>1
    <3> QED
      BY <3>1, <3>2, <3>3, <3>4 DEF Calms
  <2> QED
    BY <2>1, <2>2
<1>6. ASSUME NEW c \in Callers, ResolveStep(c) PROVE Good
  <2>1. PICK paired \in BOOLEAN : ResolveManifest(c, paired)
    BY <1>6 DEF ResolveStep
  <2> DEFINE n == [op |-> "pin", req |-> [caller[c].req EXCEPT !.paired = paired], at |-> now]
  <2>2. UNCHANGED lock /\ caller' = [caller EXCEPT ![c] = n]
    BY <2>1 DEF ResolveManifest, Becomes
  <2>3. Fine(n)
    BY <1>2, <1>3 DEF PriorPins, Undoing
  <2>4. \A d \in Callers : caller'[d] = IF d = c THEN n ELSE caller[d]
    BY <2>2 DEF Inv, TypeOK
  <2>5. LivePins' = LivePins
    BY <2>2 DEF LivePins
  <2> HIDE DEF n, Fine
  <2> QED
    BY <1>1, <2>3, <2>4, <2>5
<1>7. ASSUME NEW c \in Callers, PinStep(c) PROVE Good
  <2> DEFINE q == caller[c].req
             at == caller[c].at
             w == PinWrite(lock, q, at)
             u == UndoOf(lock, q, at)
  <2>1. /\ caller[c].op = "pin" /\ q \in Request /\ at \in Times /\ at <= now
        /\ lock \in Lock /\ lock # None /\ PinAdmitted(lock, q) /\ lock' = w
        /\ caller'[c] \in {caller[c], Idle, [op |-> "recheck", undo |-> u]} /\ MovesOnly(c)
    BY <1>1, <1>7, OpArguments DEF PinStep, Inv, TypeOK, PinOp
  <2>2. w \in Lock /\ \A s \in Services : w.pins[s] = IF s \in Targets(q) THEN NewPin(lock, q, s, at)
                                                 ELSE Release(lock, StaleLoader(lock, q)).pins[s]
    BY <2>1, PinWriteType
  <2>3. \A s \in Services : Release(lock, StaleLoader(lock, q)).pins[s] \in {None, lock.pins[s]}
    BY <2>1, PinNames, ReleaseType
  <2>4. ASSUME NEW s \in Services PROVE Dated(NewPin(lock, q, s, at), now)
    BY <2>1 DEF Dated, NewPin, Request
  <2>5. LivePins = lock.pins /\ LivePins' = w.pins
    BY <2>1, <2>2, NoneAssumption DEF LivePins
  <2>6. D(LivePins')
    BY <1>1, <1>3, <2>2, <2>3, <2>4, <2>5
  <2>7. \A s \in Services : u.priorPins[s] \in {None, lock.pins[s]}
    BY DEF UndoOf
  <2>8. Fine([op |-> "recheck", undo |-> u])
    <3>1. PriorPins([op |-> "recheck", undo |-> u]) = u.priorPins
      BY DEF PriorPins, Undoing
    <3>2. D(u.priorPins)
      BY <1>1, <1>3, <2>5, <2>7
    <3> QED
      BY <3>1, <3>2
  <2> HIDE DEF w, u, Fine
  <2>9. \A d \in Callers : Fine(caller'[d])
    BY <1>1, <1>4, <2>1, <2>8 DEF MovesOnly
  <2> QED
    BY <2>6, <2>9
<1>8. ASSUME NEW c \in Callers, RevertStep(c) PROVE Good
  <2> DEFINE u == caller[c].undo
             w == Reverted(lock, u)
  <2>1. /\ caller[c].op = "revert" /\ u \in Undo /\ lock \in Lock /\ lock # None /\ Stands(lock, u)
        /\ lock' = w /\ caller'[c] \in {caller[c], Idle} /\ MovesOnly(c)
    BY <1>8, OpArguments DEF RevertStep, Inv, TypeOK, UndoOp
  <2>2. PriorPins(caller[c]) = u.priorPins
    BY <2>1 DEF PriorPins, Undoing
  <2>3. /\ LivePins = lock.pins /\ LivePins' = w.pins
        /\ \A s \in Services : w.pins[s] = IF s \in u.names THEN u.priorPins[s] ELSE lock.pins[s]
    BY <2>1, RevertedType, NoneAssumption DEF LivePins
  <2>4. D(u.priorPins) /\ D(lock.pins)
    BY <1>1, <2>2, <2>3
  <2> HIDE DEF w, u, Fine
  <2>5. \A d \in Callers : Fine(caller'[d])
    BY <1>1, <1>4, <2>1 DEF MovesOnly
  <2> QED
    BY <2>3, <2>4, <2>5
<1> HIDE DEF Good, Fine, D
<1>9. Good
  BY <1>5, <1>6, <1>7, <1>8, StepShape
<1> QED
  BY <1>9 DEF Good, Fine, D

\* A sweep judges the pins of one read; those it is about to release no
\* running attempt placed.
LEMMA SeenSound ==
  ASSUME Inv, SweepInv, [Next]_vars, NEW c \in Callers, NEW s \in Services
  PROVE  LET seen == SeenPins(caller'[c])[s] IN
         /\ Dated(seen, now)
         /\ seen # None => seen.ephemeral
         /\ caller'[c].op = "sweep" => Past(run', seen)
<1> DEFINE o == caller[c]
           n == caller'[c]
           Good == LET seen == SeenPins(n)[s] IN
                   /\ Dated(seen, now)
                   /\ seen # None => seen.ephemeral
                   /\ n.op = "sweep" => Past(run', seen)
<1>1. LET seen == SeenPins(o)[s] IN
        /\ Dated(seen, now)
        /\ seen # None => seen.ephemeral
        /\ o.op = "sweep" => Past(run, seen)
  BY DEF SweepInv
<1>2. /\ now \in Nat
      /\ \A r \in Runs : WithinBudget(r, now)
      /\ \A r \in Runs : run[r].since \in Nat /\ run'[r].since \in Nat
      /\ \A r \in Runs : run'[r].state = "running" =>
           \/ run[r].state = "running" /\ run'[r].since = run[r].since
           \/ run'[r].since > now
  BY TimeMoves, InvStep DEF SweepInv, Inv, TypeOK, RunRecord, Times
<1>3. SeenPins(o)[s] # None => SeenPins(o)[s] \in Pin
  BY OpArguments DEF SeenPins, NoPins, Inv, TypeOK, SweepOp, PinMap
<1>4. AgeThreshold \in Nat
  BY ImageLockAssumption
<1>5. CASE n.op \notin {"judge", "sweep"}
  BY <1>5 DEF SeenPins, NoPins, Dated, Past
<1>6. CASE n.op \in {"judge", "sweep"} /\ n = o
  <2>1. ASSUME o.op = "sweep", SeenPins(o)[s] # None PROVE Past(run', SeenPins(o)[s])
    <3> DEFINE p == SeenPins(o)[s]
    <3>1. p \in Pin /\ p.run \in Runs /\ p.at \in Nat /\ p.at <= now /\ Past(run, p)
      BY <1>1, <1>3, <2>1 DEF Dated, Pin, Times
    <3> HIDE DEF p
    <3>2. run'[p.run].state = "running" =>
            \/ run[p.run].state = "running" /\ run'[p.run].since = run[p.run].since
            \/ run'[p.run].since > now
      BY <1>2, <3>1
    <3>3. run[p.run].since \in Nat /\ run'[p.run].since \in Nat
      BY <1>2, <3>1
    <3>4. p # None => ~(run'[p.run].state = "running" /\ p.at >= run'[p.run].since)
      BY <1>2, <3>1, <3>2, <3>3 DEF Past
    <3> QED
      BY <1>6, <3>4 DEF p, Past
  <2>2. o.op = "sweep" => Past(run', SeenPins(o)[s])
    BY <2>1 DEF Past
  <2> QED
    BY <1>1, <1>6, <2>2
<1>7. CASE SweepRead(c)
  <2> DEFINE m == [op |-> "judge",
                   seen |-> [t \in Services |-> IF t \in Ephemeral(lock) THEN lock.pins[t] ELSE None]]
  <2>1. lock # None /\ n = m
    BY <1>7 DEF SweepRead, Begin, Becomes, Inv, TypeOK
  <2>2. SeenPins(n)[s] = IF s \in Ephemeral(lock) THEN LivePins[s] ELSE None
    BY <2>1 DEF SeenPins, LivePins
  <2>3. s \in Ephemeral(lock) => LivePins[s].ephemeral
    BY <2>1 DEF Ephemeral, LivePins
  <2>4. Dated(LivePins[s], now) /\ Dated(None, now)
    BY DEF SweepInv, Dated
  <2> QED
    BY <2>1, <2>2, <2>3, <2>4
<1>8. ASSUME NEW unreachable \in SUBSET Runs, SweepJudge(c, unreachable) PROVE Good
  <2> DEFINE seen == o.seen
             stale == {t \in Services : seen[t] # None /\ StaleGroup(seen, t, unreachable)}
             m == [op |-> "sweep", seen |-> [t \in Services |-> IF t \in stale THEN seen[t] ELSE None]]
  <2>1. o.op = "judge" /\ n = (IF stale = {} THEN Idle ELSE m) /\ UNCHANGED <<run, now>>
    BY <1>8 DEF SweepJudge, Becomes, Inv, TypeOK
  <2>2. SeenPins(o)[s] = seen[s]
    BY <2>1 DEF SeenPins
  <2>3. SeenPins(n)[s] = IF s \in stale THEN seen[s] ELSE None
    BY <2>1 DEF SeenPins, NoPins, Idle
  <2>4. ASSUME s \in stale PROVE Past(run, seen[s])
    <3> DEFINE p == seen[s]
    <3>1. /\ p # None /\ p \in Pin /\ p.run \in Runs /\ p.at \in Nat
          /\ StaleGroup(seen, s, unreachable) /\ s \in GroupOf(seen, s)
      BY <1>1, <1>3, <2>2, <2>4 DEF Dated, Pin, Times, GroupOf
    <3>2. CASE p.run \in unreachable
      <4>1. now - p.at > AgeThreshold
        BY <3>1, <3>2 DEF StaleGroup, Aged
      <4>2. run[p.run].state = "running" => now - run[p.run].since <= AgeThreshold
        BY <1>2, <3>1 DEF WithinBudget
      <4>3. run[p.run].since \in Nat
        BY <1>2, <3>1
      <4> HIDE DEF p
      <4>4. run[p.run].state = "running" => p.at < run[p.run].since
        BY <1>2, <1>4, <3>1, <4>1, <4>2, <4>3
      <4> QED
        BY <3>1, <4>3, <4>4 DEF Past, p
    <3>3. CASE p.run \notin unreachable
      BY <3>1, <3>3 DEF StaleGroup, Past
    <3> QED
      BY <3>2, <3>3
  <2>5. Past(run, None) /\ Past(run', None) /\ Dated(None, now)
    BY DEF Past, Dated
  <2>6. s \in stale => Past(run', seen[s])
    BY <2>1, <2>4 DEF Past
  <2> HIDE DEF stale, m
  <2> QED
    BY <1>1, <2>2, <2>3, <2>5, <2>6
<1> HIDE DEF Good
<1>9. n.op \in {"judge", "sweep"} /\ n # o => Good
  BY <1>7, <1>8, SeenMoves DEF Good
<1>10. Good
  BY <1>5, <1>6, <1>9 DEF Good
<1> QED
  BY <1>10 DEF Good

\* At first nothing is pinned and no attempt is old.
LEMMA SweepInit == Init => SweepInv
<1> SUFFICES ASSUME Init PROVE SweepInv
  OBVIOUS
<1>1. \A s \in Services : LivePins[s] = None
  BY InitialPins
<1>2. \A c \in Callers : caller[c] = Idle
  BY DEF Init
<1>3. Dated(None, now) /\ \A s \in Services : NoPins[s] = None
  BY DEF NoPins, Dated
<1>4. \A r \in Runs : WithinBudget(r, now)
  BY ImageLockAssumption DEF Init, WithinBudget
<1> QED
  BY <1>1, <1>2, <1>3, <1>4 DEF SweepInv, Idle, SeenPins, PriorPins, Undoing

\* Every step keeps what the sweep relies on.
LEMMA SweepStep == Inv /\ SweepInv /\ [Next]_vars => SweepInv'
<1> SUFFICES ASSUME Inv, SweepInv, [Next]_vars PROVE SweepInv'
  OBVIOUS
<1>1. /\ now \in Nat /\ now' \in Nat /\ now <= now'
      /\ \A r \in Runs : WithinBudget(r, now)'
  BY TimeMoves DEF SweepInv
<1>2. ASSUME NEW p, Dated(p, now), p # None => p \in Pin PROVE Dated(p, now')
  BY <1>1, <1>2 DEF Dated, Pin, Times
<1>3. Inv'
  BY InvStep
<1>4. ASSUME NEW s \in Services PROVE Dated(LivePins'[s], now')
  <2>1. LivePins'[s] # None => LivePins'[s] \in Pin
    BY <1>3 DEF Inv, TypeOK, LivePins, NoPins, PinMap, Lock
  <2>2. Dated(LivePins'[s], now)
    BY PinsDated
  <2> QED
    BY <1>2, <2>1, <2>2
<1>5. ASSUME NEW c \in Callers, caller'[c].op = "pin" PROVE caller'[c].at <= now'
  <2>1. caller'[c].at \in Nat
    BY <1>3, <1>5, OpArguments DEF Inv, TypeOK, PinOp, Times
  <2>2. caller'[c].at <= now
    BY <1>5, PinsDated
  <2> QED
    BY <1>1, <2>1, <2>2
<1>6. ASSUME NEW c \in Callers, NEW s \in Services
      PROVE  /\ Dated(PriorPins(caller'[c])[s], now')
             /\ LET seen == SeenPins(caller'[c])[s] IN
                /\ Dated(seen, now')
                /\ seen # None => seen.ephemeral
                /\ caller'[c].op = "sweep" => Past(run', seen)
  <2> DEFINE n == caller'[c]
  <2>1. n \in Op
    BY <1>3 DEF Inv, TypeOK
  <2>2. PriorPins(n)[s] # None => PriorPins(n)[s] \in Pin
    BY <2>1, OpArguments DEF PriorPins, Undoing, NoPins, UndoOp, Undo, PinMap
  <2>3. SeenPins(n)[s] # None => SeenPins(n)[s] \in Pin
    BY <2>1, OpArguments DEF SeenPins, NoPins, SweepOp, PinMap
  <2>4. Dated(PriorPins(n)[s], now)
    BY PinsDated
  <2> QED
    BY <1>2, <2>2, <2>3, <2>4, SeenSound
<1> QED
  BY <1>1, <1>4, <1>5, <1>6 DEF SweepInv

\* The sweep never takes the pin a running attempt placed, nor an operator's,
\* however the run is re-run between its read, its query and its write, and
\* whether or not GitHub answers.
THEOREM SweepAlwaysSparesLiveRuns == Spec => SweepSparesLiveRuns
<1> DEFINE A == \A c \in Callers :
                  (caller[c].op = "sweep" /\ caller'[c] # caller[c])
                    => \A s \in Lost :
                         LET p == lock.pins[s] IN
                         /\ p.ephemeral
                         /\ ~(run[p.run].state = "running" /\ p.at >= run[p.run].since)
<1>1. Inv /\ SweepInv /\ [Next]_vars => [A]_vars
  <2> SUFFICES ASSUME Inv, SweepInv, [Next]_vars, NEW c \in Callers, caller[c].op = "sweep",
                      caller'[c] # caller[c], NEW s \in Lost
               PROVE  /\ lock.pins[s].ephemeral
                      /\ ~(/\ run[lock.pins[s].run].state = "running"
                           /\ lock.pins[s].at >= run[lock.pins[s].run].since)
    OBVIOUS
  <2> DEFINE seen == caller[c].seen
  <2>1. seen \in PinMap /\ SeenPins(caller[c]) = seen
    BY OpArguments DEF Inv, TypeOK, SweepOp, SeenPins
  <2>2. s \in Services /\ lock # None /\ lock \in Lock /\ lock'.pins[s] # lock.pins[s]
    BY DEF Lost, Inv, TypeOK
  <2>3. lock' = SweepOutcome(lock, caller[c]).lock
    BY <2>2, MutatorMoves DEF Outcome
  <2>4. lock' = Release(lock, SweepTargets(lock, seen))
    BY <2>2, <2>3 DEF SweepOutcome, Written, SweepWrite
  <2>5. s \in SweepTargets(lock, seen)
    BY <2>1, <2>2, <2>4, SweepNames, ReleaseType
  <2>6. seen[s] # None /\ s \in GroupOf(seen, s) /\ lock.pins[s] = seen[s]
    BY <2>2, <2>5 DEF SweepTargets, GroupOf
  <2> QED
    BY <2>1, <2>2, <2>6 DEF SweepInv, Past
<1>2. Spec => []SweepInv
  BY InvInvariant, SweepInit, SweepStep, PTL DEF Spec
<1> QED
  BY <1>1, <1>2, InvInvariant, PTL DEF Spec, SweepSparesLiveRuns
=============================================================================
