-------------------------- MODULE ImageLockProofs --------------------------
(***************************************************************************)
(* Proofs about LockData, ImageLock and ImageLockCas.  What the operators  *)
(* of LockData return comes first: every mutator maps a lock to a lock,    *)
(* and a sound lock to a sound lock.  The inductive invariant adds to the  *)
(* type that the lock is sound and that every rollback still to be made    *)
(* would replay sound state: without the second part a revert could write  *)
(* back anything.                                                          *)
(***************************************************************************)
EXTENDS ImageLockCas, TLAPS

\* A pin (or None) and the entry beside it agree: a pinned service runs its
\* pin's image, held exactly when borrowed, and has a canonical image to
\* return to; a service nobody pins runs one and is not held.
Sound(pin, entry) ==
  IF pin = None
    THEN entry.image \in Canonicals /\ ~entry.hold
    ELSE /\ pin.canonical \in Canonicals
         /\ entry = [image |-> pin.image, hold |-> pin.ephemeral]

SoundLock(l) == \A s \in Services : Sound(l.pins[s], l.entry[s])

\* The state a rollback replays is sound, name by name.
SoundUndo(u) == \A s \in u.names : Sound(u.priorPins[s], u.priorEntries[s])

(***************************************************************************)
(* Releasing pins                                                          *)
(***************************************************************************)

\* The entry a release leaves is an entry (_release_to_canonical).
LEMMA RestoredType ==
  ASSUME NEW l \in Lock, NEW s \in Services, l.pins[s] # None
  PROVE  Restored(l, s) \in Entry
<1>1. l.pins[s] \in Pin /\ l.entry[s] \in Entry
  BY DEF Lock, PinMap
<1> QED
  BY <1>1 DEF Restored, Entry, Pin, Images

\* Releasing pins leaves a lock whose other services are untouched.
LEMMA ReleaseType ==
  ASSUME NEW l \in Lock, NEW S \in SUBSET Pinned(l)
  PROVE  /\ Release(l, S) \in Lock
         /\ Release(l, S).trusted = l.trusted
         /\ \A s \in Services :
              /\ Release(l, S).pins[s] = IF s \in S THEN None ELSE l.pins[s]
              /\ Release(l, S).entry[s] = IF s \in S THEN Restored(l, s) ELSE l.entry[s]
<1> DEFINE e == [s \in Services |-> IF s \in S THEN Restored(l, s) ELSE l.entry[s]]
           p == [s \in Services |-> IF s \in S THEN None ELSE l.pins[s]]
<1>1. e \in [Services -> Entry]
  BY RestoredType DEF Lock, Pinned
<1>2. p \in PinMap
  BY DEF Lock, PinMap
<1>3. Release(l, S) = [entry |-> e, pins |-> p, trusted |-> l.trusted]
  BY DEF Release, Lock
<1> HIDE DEF e, p
<1>4. Release(l, S) \in Lock
  BY <1>1, <1>2, <1>3 DEF Lock
<1> QED
  BY <1>3, <1>4 DEF e, p

\* Releasing pins of a sound lock leaves a sound one.
LEMMA ReleaseSound ==
  ASSUME NEW l \in Lock, SoundLock(l), NEW S \in SUBSET Pinned(l)
  PROVE  SoundLock(Release(l, S))
<1> SUFFICES ASSUME NEW s \in Services
             PROVE  Sound(Release(l, S).pins[s], Release(l, S).entry[s])
  BY DEF SoundLock
<1>1. CASE s \in S
  <2>1. l.pins[s] # None /\ Sound(l.pins[s], l.entry[s])
    BY <1>1 DEF Pinned, SoundLock
  <2>2. l.pins[s].canonical \in Canonicals /\ l.pins[s].canonical # None
    BY <2>1, LockDataAssumption DEF Sound
  <2>3. Restored(l, s) = [image |-> l.pins[s].canonical, hold |-> FALSE]
    BY <2>2 DEF Restored
  <2>4. Release(l, S).pins[s] = None /\ Release(l, S).entry[s] = Restored(l, s)
    BY <1>1, ReleaseType
  <2> QED
    BY <2>2, <2>3, <2>4 DEF Sound
<1>2. CASE s \notin S
  BY <1>2, ReleaseType DEF SoundLock
<1> QED
  BY <1>1, <1>2

(***************************************************************************)
(* pin_service_image and its rollback                                      *)
(***************************************************************************)

\* A pin call names services of the registry, and the loader it releases is
\* pinned.
LEMMA PinNames ==
  ASSUME NEW l \in Lock, NEW q \in Request
  PROVE  /\ Targets(q) \in SUBSET Services
         /\ StaleLoader(l, q) \in SUBSET Pinned(l)
         /\ StaleLoader(l, q) \in SUBSET Services
  BY LockDataAssumption DEF Targets, StaleLoader, Request, Pinned

\* An admitted pin records a canonical image to return to.
LEMMA NewPinType ==
  ASSUME NEW l \in Lock, NEW q \in Request, NEW at \in Times,
         PinAdmitted(l, q), NEW s \in Targets(q)
  PROVE  NewPin(l, q, s, at) \in Pin /\ NewPin(l, q, s, at).canonical \in Canonicals
<1>1. Captured(l, s) \in Canonicals
  BY DEF PinAdmitted, Capturable
<1>2. q.image \in Builds /\ q.run \in Runs \cup {None} /\ q.ephemeral \in BOOLEAN
  BY DEF Request
<1> QED
  BY <1>1, <1>2 DEF NewPin, Pin, Images

\* An admitted pin writes a lock: its targets hold the new pin and run its
\* image, and every other service is as the release of the stale loader
\* left it.
LEMMA PinWriteType ==
  ASSUME NEW l \in Lock, NEW q \in Request, NEW at \in Times, PinAdmitted(l, q)
  PROVE  /\ PinWrite(l, q, at) \in Lock
         /\ \A s \in Services :
              /\ PinWrite(l, q, at).pins[s] =
                   IF s \in Targets(q) THEN NewPin(l, q, s, at)
                                       ELSE Release(l, StaleLoader(l, q)).pins[s]
              /\ PinWrite(l, q, at).entry[s] =
                   IF s \in Targets(q) THEN [image |-> q.image, hold |-> q.ephemeral]
                                       ELSE Release(l, StaleLoader(l, q)).entry[s]
<1> DEFINE r == Release(l, StaleLoader(l, q))
           e == [s \in Services |->
                   IF s \in Targets(q) THEN [image |-> q.image, hold |-> q.ephemeral]
                                       ELSE r.entry[s]]
           p == [s \in Services |-> IF s \in Targets(q) THEN NewPin(l, q, s, at) ELSE r.pins[s]]
<1>1. r \in Lock
  BY PinNames, ReleaseType
<1>2. q.image \in Images /\ q.ephemeral \in BOOLEAN
  BY DEF Request, Images
<1>3. PinWrite(l, q, at) = [entry |-> e, pins |-> p, trusted |-> l.trusted]
  BY DEF PinWrite
<1> HIDE DEF r
<1>4. e \in [Services -> Entry]
  BY <1>1, <1>2 DEF Lock, Entry
<1>5. p \in PinMap
  BY <1>1, NewPinType DEF Lock, PinMap
<1> HIDE DEF e, p
<1>6. PinWrite(l, q, at) \in Lock
  BY <1>3, <1>4, <1>5 DEF Lock
<1> QED
  BY <1>3, <1>6 DEF e, p, r

\* A pin keeps a sound lock sound.
LEMMA PinWriteSound ==
  ASSUME NEW l \in Lock, SoundLock(l), NEW q \in Request, NEW at \in Times, PinAdmitted(l, q)
  PROVE  SoundLock(PinWrite(l, q, at))
<1> SUFFICES ASSUME NEW s \in Services
             PROVE  Sound(PinWrite(l, q, at).pins[s], PinWrite(l, q, at).entry[s])
  BY DEF SoundLock
<1>1. CASE s \in Targets(q)
  <2>1. NewPin(l, q, s, at) # None /\ NewPin(l, q, s, at).canonical \in Canonicals
    BY <1>1, NewPinType, NoneAssumption
  <2>2. /\ NewPin(l, q, s, at).image = q.image
        /\ NewPin(l, q, s, at).ephemeral = q.ephemeral
    BY DEF NewPin
  <2>3. /\ PinWrite(l, q, at).pins[s] = NewPin(l, q, s, at)
        /\ PinWrite(l, q, at).entry[s] = [image |-> q.image, hold |-> q.ephemeral]
    BY <1>1, PinWriteType
  <2> QED
    BY <2>1, <2>2, <2>3 DEF Sound
<1>2. CASE s \notin Targets(q)
  BY <1>2, PinNames, ReleaseSound, PinWriteType DEF SoundLock
<1> QED
  BY <1>1, <1>2

\* The captured state is complete: what a pin call may have to replay.
LEMMA UndoOfType ==
  ASSUME NEW l \in Lock, NEW q \in Request, NEW at \in Times, PinAdmitted(l, q)
  PROVE  UndoOf(l, q, at) \in Undo
<1> DEFINE names == Targets(q) \cup StaleLoader(l, q)
           wrote == [s \in Services |-> IF s \in names THEN PinWrite(l, q, at).pins[s] ELSE None]
           pins == [s \in Services |-> IF s \in names THEN l.pins[s] ELSE None]
           entries == [s \in Services |-> IF s \in names THEN l.entry[s] ELSE None]
<1>1. names \in SUBSET Services
  BY PinNames
<1>2. wrote \in PinMap
  <2>1. PinWrite(l, q, at) \in Lock
    BY PinWriteType
  <2> QED
    BY <2>1 DEF Lock, PinMap
<1>3. pins \in PinMap
  BY DEF Lock, PinMap
<1>4. /\ entries \in [Services -> Entry \cup {None}]
      /\ \A s \in names : entries[s] # None
  BY <1>1, NoneAssumption DEF Lock
<1>5. UndoOf(l, q, at) = [names |-> names, wrote |-> wrote,
                          priorPins |-> pins, priorEntries |-> entries]
  BY DEF UndoOf
<1> HIDE DEF names, wrote, pins, entries
<1> QED
  BY <1>1, <1>2, <1>3, <1>4, <1>5 DEF Undo

\* What a pin of a sound lock captured is sound.
LEMMA UndoOfSound ==
  ASSUME NEW l \in Lock, SoundLock(l), NEW q \in Request, NEW at \in Times
  PROVE  SoundUndo(UndoOf(l, q, at))
  BY PinNames DEF SoundUndo, SoundLock, UndoOf

\* A rollback writes a lock.
LEMMA RevertedType ==
  ASSUME NEW l \in Lock, NEW u \in Undo
  PROVE  /\ Reverted(l, u) \in Lock
         /\ \A s \in Services :
              /\ Reverted(l, u).pins[s] = IF s \in u.names THEN u.priorPins[s] ELSE l.pins[s]
              /\ Reverted(l, u).entry[s] = IF s \in u.names THEN u.priorEntries[s] ELSE l.entry[s]
<1> DEFINE e == [s \in Services |-> IF s \in u.names THEN u.priorEntries[s] ELSE l.entry[s]]
           p == [s \in Services |-> IF s \in u.names THEN u.priorPins[s] ELSE l.pins[s]]
<1>1. e \in [Services -> Entry]
  BY DEF Lock, Undo
<1>2. p \in PinMap
  BY DEF Lock, Undo, PinMap
<1>3. Reverted(l, u) = [entry |-> e, pins |-> p, trusted |-> l.trusted]
  BY DEF Reverted
<1> HIDE DEF e, p
<1>4. Reverted(l, u) \in Lock
  BY <1>1, <1>2, <1>3 DEF Lock
<1> QED
  BY <1>3, <1>4 DEF e, p

\* Replaying sound state over a sound lock leaves a sound one, whatever was
\* written to the lock since.
LEMMA RevertedSound ==
  ASSUME NEW l \in Lock, SoundLock(l), NEW u \in Undo, SoundUndo(u)
  PROVE  SoundLock(Reverted(l, u))
<1> SUFFICES ASSUME NEW s \in Services
             PROVE  Sound(Reverted(l, u).pins[s], Reverted(l, u).entry[s])
  BY DEF SoundLock
<1>1. CASE s \in u.names
  <2>1. Sound(u.priorPins[s], u.priorEntries[s])
    BY <1>1 DEF SoundUndo
  <2> QED
    BY <1>1, <2>1, RevertedType
<1>2. CASE s \notin u.names
  <2>1. Sound(l.pins[s], l.entry[s])
    BY DEF SoundLock
  <2> QED
    BY <1>2, <2>1, RevertedType
<1> QED
  BY <1>1, <1>2

(***************************************************************************)
(* reset_service, the sweep, refresh, apply and the projection             *)
(***************************************************************************)

\* A reset and a sweep release pinned services only.
LEMMA ResetNames ==
  ASSUME NEW l, NEW service, NEW ifRun
  PROVE  ResetTargets(l, service, ifRun) \in SUBSET Pinned(l)
  BY DEF ResetTargets

\* A group is released only when every member still holds the judged pin.
LEMMA SweepNames ==
  ASSUME NEW l \in Lock, NEW seen \in PinMap
  PROVE  SweepTargets(l, seen) \in SUBSET Pinned(l)
<1> SUFFICES ASSUME NEW s \in SweepTargets(l, seen) PROVE s \in Pinned(l)
  OBVIOUS
<1>1. s \in Services /\ seen[s] # None /\ \A t \in GroupOf(seen, s) : l.pins[t] = seen[t]
  BY DEF SweepTargets
<1>2. s \in GroupOf(seen, s)
  BY <1>1 DEF GroupOf
<1> QED
  BY <1>1, <1>2 DEF Pinned

\* A reset keeps the lock a lock, and a sound one sound.
LEMMA ResetWriteSound ==
  ASSUME NEW l \in Lock, NEW service, NEW ifRun
  PROVE  /\ ResetWrite(l, service, ifRun) \in Lock
         /\ SoundLock(l) => SoundLock(ResetWrite(l, service, ifRun))
<1> DEFINE S == ResetTargets(l, service, ifRun)
                  \ (IF Defers(l, service, ifRun) THEN {Loader} ELSE {})
<1>1. S \in SUBSET Pinned(l)
  BY ResetNames
<1>2. ResetWrite(l, service, ifRun) = Release(l, S)
  BY DEF ResetWrite
<1> QED
  BY <1>1, <1>2, ReleaseType, ReleaseSound

\* A sweep keeps the lock a lock, and a sound one sound.
LEMMA SweepWriteSound ==
  ASSUME NEW l \in Lock, NEW seen \in PinMap
  PROVE  /\ SweepWrite(l, seen) \in Lock
         /\ SoundLock(l) => SoundLock(SweepWrite(l, seen))
  BY SweepNames, ReleaseType, ReleaseSound DEF SweepWrite

\* A refresh keeps the lock a lock, and a sound one sound: it moves no
\* pinned service.
LEMMA RefreshWriteSound ==
  ASSUME NEW l \in Lock, NEW names, NEW image \in Canonicals
  PROVE  /\ RefreshWrite(l, names, image) \in Lock
         /\ SoundLock(l) => SoundLock(RefreshWrite(l, names, image))
<1> DEFINE e == [s \in Services |->
                   IF s \in names \ Held(l, names)
                     THEN [image |-> image, hold |-> FALSE] ELSE l.entry[s]]
<1>1. e \in [Services -> Entry]
  BY DEF Lock, Entry, Images
<1>2. RefreshWrite(l, names, image) = [entry |-> e, pins |-> l.pins, trusted |-> l.trusted]
  BY DEF RefreshWrite
<1>3. ASSUME NEW s \in Services, s \in names \ Held(l, names)
      PROVE  l.pins[s] = None
  BY <1>3 DEF Held, Pinned
<1> HIDE DEF e
<1>4. RefreshWrite(l, names, image) \in Lock
  BY <1>1, <1>2 DEF Lock
<1>5. ASSUME SoundLock(l), NEW s \in Services
      PROVE  Sound(l.pins[s], e[s])
  <2>1. Sound(l.pins[s], l.entry[s])
    BY <1>5 DEF SoundLock
  <2> QED
    BY <2>1, <1>3 DEF Sound, e
<1> QED
  BY <1>2, <1>4, <1>5 DEF SoundLock

\* An apply keeps the lock a lock and makes it sound where pins have
\* canonical images, and the first one of all creates a sound lock.
LEMMA ApplyWriteSound ==
  ASSUME NEW l \in Lock \cup {None}, NEW image \in Canonicals
  PROVE  /\ ApplyWrite(l, image) \in Lock
         /\ l = None \/ SoundLock(l) => SoundLock(ApplyWrite(l, image))
<1> DEFINE bare == [image |-> image, hold |-> FALSE]
           e == [s \in Services |->
                   IF s \in Pinned(l) THEN [image |-> l.pins[s].image, hold |-> l.pins[s].ephemeral]
                                      ELSE bare]
<1>1. bare \in Entry
  BY DEF Entry, Images
<1>2. CASE l = None
  <2>1. ApplyWrite(l, image) = [entry |-> [s \in Services |-> bare],
                                pins |-> [s \in Services |-> None],
                                trusted |-> [s \in Services |-> None]]
    BY <1>2 DEF ApplyWrite
  <2>2. ApplyWrite(l, image) \in Lock
    BY <1>1, <2>1 DEF Lock, PinMap
  <2>3. SoundLock(ApplyWrite(l, image))
    <3>1. ASSUME NEW s \in Services
          PROVE  /\ ApplyWrite(l, image).pins[s] = None
                 /\ ApplyWrite(l, image).entry[s] = bare
      BY <2>1
    <3>2. Sound(None, bare)
      BY DEF Sound
    <3> QED
      BY <3>1, <3>2 DEF SoundLock
  <2> QED
    BY <2>2, <2>3
<1>3. CASE l \in Lock
  <2>1. ApplyWrite(l, image) = [entry |-> e, pins |-> l.pins, trusted |-> l.trusted]
    BY <1>3, NoneAssumption DEF ApplyWrite
  <2>2. ASSUME NEW s \in Services
        PROVE  e[s] \in Entry
    <3>1. l.pins[s] \in Pin \cup {None}
      BY <1>3 DEF Lock, PinMap
    <3> QED
      BY <1>1, <3>1 DEF Pinned, Pin, Entry, Images
  <2>3. ASSUME SoundLock(l), NEW s \in Services
        PROVE  Sound(l.pins[s], e[s])
    <3>1. Sound(l.pins[s], l.entry[s])
      BY <2>3 DEF SoundLock
    <3> QED
      BY <3>1 DEF Sound, Pinned
  <2>4. e \in [Services -> Entry]
    BY <2>2
  <2> HIDE DEF e
  <2>5. ApplyWrite(l, image) \in Lock
    BY <1>3, <2>1, <2>4 DEF Lock
  <2> QED
    BY <1>3, <2>1, <2>3, <2>5, NoneAssumption DEF SoundLock
<1> QED
  BY <1>2, <1>3

\* The projection touches neither pins nor entries.
LEMMA ProjectWriteSound ==
  ASSUME NEW l \in Lock, NEW s \in Services, NEW repo \in Repos \cup {None}
  PROVE  /\ ProjectWrite(l, s, repo) \in Lock
         /\ SoundLock(l) => SoundLock(ProjectWrite(l, s, repo))
  BY DEF ProjectWrite, Lock, SoundLock

---------------------------------------------------------------------------
(* Processes.                                                                *)

\* A process about to check or roll back holds state that is safe to replay.
SoundOp(o) == o.op \in {"recheck", "revert"} => SoundUndo(o.undo)

Inv ==
  /\ TypeOK
  /\ lock # None => SoundLock(lock)
  /\ \A c \in Callers : SoundOp(caller[c])

(***************************************************************************)
(* What a process is about to do, by kind                                  *)
(***************************************************************************)

\* The kind of an operation gives its arguments.
LEMMA OpArguments ==
  ASSUME NEW o \in Op
  PROVE  /\ o.op = "resolve" => o \in ResolveOp
         /\ o.op = "pin" => o \in PinOp
         /\ o.op \in {"recheck", "revert"} => o \in UndoOp
         /\ o.op = "reset" => o \in ResetOp
         /\ o.op = "await" => o \in AwaitOp
         /\ o.op = "loader" => o \in LoaderOp
         /\ o.op \in {"judge", "sweep"} => o \in SweepOp
         /\ o.op = "refresh" => o \in RefreshOp
         /\ o.op = "apply" => o \in ApplyOp
         /\ o.op = "project" => o \in ProjectOp
  BY DEF Op, IdleOp, ResolveOp, PinOp, UndoOp, ResetOp, AwaitOp, LoaderOp, SweepOp,
         RefreshOp, ApplyOp, ProjectOp

\* Idle is an operation, and has nothing to replay.
LEMMA IdleOk == Idle \in Op /\ SoundOp(Idle)
  BY DEF Idle, Op, IdleOp, SoundOp

(***************************************************************************)
(* One mutation                                                            *)
(***************************************************************************)

\* The outcome of a mutation keeps the lock a sound lock, and what its
\* caller does next is a sound operation.
GoodOutcome(out) ==
  /\ out \in Result
  /\ out.lock # None => SoundLock(out.lock)
  /\ SoundOp(out.next)

\* A refused mutation changes nothing.
LEMMA RefusedGood ==
  ASSUME NEW l \in Lock \cup {None}, l # None => SoundLock(l)
  PROVE  GoodOutcome(Refused(l))
  BY IdleOk DEF GoodOutcome, Result, Refused, Raised

\* A write that ends the call is good when the lock written is.
LEMMA WrittenGood ==
  ASSUME NEW l \in Lock, SoundLock(l)
  PROVE  GoodOutcome(Written(l, Idle))
  BY IdleOk DEF GoodOutcome, Result, Written

\* Whatever the operation, its mutation has a good outcome.
LEMMA OutcomeGood ==
  ASSUME NEW l \in Lock \cup {None}, l # None => SoundLock(l),
         NEW o \in Op, o.op \in MutatorOps, SoundOp(o)
  PROVE  GoodOutcome(Outcome(l, o))
<1>1. CASE o.op = "pin"
  <2>1. o.req \in Request /\ o.at \in Times
    BY <1>1, OpArguments DEF PinOp
  <2>2. CASE l # None /\ PinAdmitted(l, o.req)
    <3> DEFINE u == UndoOf(l, o.req, o.at)
               w == PinWrite(l, o.req, o.at)
    <3>1. u \in Undo /\ SoundUndo(u)
      BY <2>1, <2>2, UndoOfType, UndoOfSound
    <3>2. w \in Lock /\ SoundLock(w)
      BY <2>1, <2>2, PinWriteType, PinWriteSound
    <3>3. Outcome(l, o) = Written(w, [op |-> "recheck", undo |-> u])
      BY <1>1, <2>2 DEF Outcome, PinOutcome
    <3> HIDE DEF u, w
    <3>4. [op |-> "recheck", undo |-> u] \in Op
      BY <3>1 DEF Op, UndoOp
    <3>5. SoundOp([op |-> "recheck", undo |-> u])
      BY <3>1 DEF SoundOp
    <3> QED
      BY <3>2, <3>3, <3>4, <3>5 DEF Written, GoodOutcome, Result
  <2>3. CASE ~(l # None /\ PinAdmitted(l, o.req))
    BY <1>1, <2>3, RefusedGood DEF Outcome, PinOutcome
  <2> QED
    BY <2>2, <2>3
<1>2. CASE o.op = "revert"
  <2>1. o.undo \in Undo /\ SoundUndo(o.undo)
    BY <1>2, OpArguments DEF UndoOp, SoundOp
  <2>2. CASE l # None /\ Stands(l, o.undo)
    BY <1>2, <2>1, <2>2, RevertedType, RevertedSound, WrittenGood DEF Outcome, RevertOutcome
  <2>3. CASE ~(l # None /\ Stands(l, o.undo))
    BY <1>2, <2>3, RefusedGood DEF Outcome, RevertOutcome
  <2> QED
    BY <2>2, <2>3
<1>3. CASE o.op = "reset"
  <2>1. Outcome(l, o) = ResetOutcome(l, o)
    BY <1>3 DEF Outcome
  <2>3. CASE l # None /\ Orphaned(l, o.service, o.ifRun)
    <3> DEFINE next == [op |-> "await", image |-> l.entry[Schema].image, loader |-> l.pins[Loader]]
    <3>1. Outcome(l, o) = Raised(l, next)
      BY <2>1, <2>3 DEF ResetOutcome
    <3>2. l.entry[Schema] \in Entry /\ l.pins[Loader] \in Pin
      BY <2>3, LockDataAssumption DEF Orphaned, Pinned, Lock, PinMap
    <3>3. next \in Op /\ SoundOp(next)
      BY <3>2 DEF Op, AwaitOp, Entry, SoundOp
    <3> HIDE DEF next
    <3> QED
      BY <2>3, <3>1, <3>3 DEF Raised, GoodOutcome, Result
  <2>4. CASE /\ l # None /\ ~Orphaned(l, o.service, o.ifRun)
             /\ ResetAdmitted(l, o.service, o.ifRun)
    <3> DEFINE w == ResetWrite(l, o.service, o.ifRun)
               next == IF Defers(l, o.service, o.ifRun)
                         THEN [op |-> "await", image |-> l.pins[Schema].canonical,
                               loader |-> l.pins[Loader]]
                         ELSE Idle
    <3>1. w \in Lock /\ SoundLock(w)
      BY <2>4, ResetWriteSound
    <3>2. Outcome(l, o) = Written(w, next)
      BY <2>1, <2>4 DEF ResetOutcome
    <3>3. next \in Op /\ SoundOp(next)
      <4>1. CASE Defers(l, o.service, o.ifRun)
        <5>1. Schema \in Pinned(l) /\ Loader \in Pinned(l) /\ l.pins[Schema].canonical # None
          BY <4>1 DEF Defers, Pair, ResetTargets
        <5>2. l.pins[Loader] \in Pin /\ l.pins[Schema] \in Pin
          BY <2>4, <5>1 DEF Pinned, Lock, PinMap
        <5>3. l.pins[Schema].canonical \in Images
          BY <5>1, <5>2 DEF Pin, Images
        <5> QED
          BY <4>1, <5>2, <5>3 DEF Op, AwaitOp, SoundOp
      <4> QED
        BY <4>1, IdleOk
    <3> HIDE DEF w, next
    <3> QED
      BY <3>1, <3>2, <3>3 DEF Written, GoodOutcome, Result
  <2>5. CASE /\ ~(l # None /\ Orphaned(l, o.service, o.ifRun))
             /\ ~(l # None /\ ResetAdmitted(l, o.service, o.ifRun))
    BY <2>1, <2>5, RefusedGood DEF ResetOutcome
  <2> QED
    BY <2>3, <2>4, <2>5
<1>4. CASE o.op = "loader"
  <2>1. o.loader \in Pin
    BY <1>4, OpArguments DEF LoaderOp
  <2>2. CASE l # None /\ l.pins[Loader] = o.loader
    <3>1. {Loader} \in SUBSET Pinned(l)
      BY <2>1, <2>2, LockDataAssumption, NoneAssumption DEF Pinned
    <3> QED
      BY <1>4, <2>2, <3>1, ReleaseType, ReleaseSound, WrittenGood DEF Outcome, LoaderOutcome
  <2>3. CASE ~(l # None /\ l.pins[Loader] = o.loader)
    BY <1>4, <2>3, RefusedGood DEF Outcome, LoaderOutcome
  <2> QED
    BY <2>2, <2>3
<1>5. CASE o.op = "sweep"
  <2>1. o.seen \in PinMap
    BY <1>5, OpArguments DEF SweepOp
  <2> QED
    BY <1>5, <2>1, SweepWriteSound, WrittenGood, RefusedGood DEF Outcome, SweepOutcome
<1>6. CASE o.op = "refresh"
  <2>1. o.image \in Canonicals
    BY <1>6, OpArguments DEF RefreshOp
  <2> QED
    BY <1>6, <2>1, RefreshWriteSound, WrittenGood, RefusedGood DEF Outcome, RefreshOutcome
<1>7. CASE o.op = "apply"
  <2>1. o.image \in Canonicals
    BY <1>7, OpArguments DEF ApplyOp
  <2>2. ApplyWrite(l, o.image) \in Lock /\ SoundLock(ApplyWrite(l, o.image))
    BY <2>1, ApplyWriteSound
  <2> QED
    BY <1>7, <2>2, WrittenGood DEF Outcome, ApplyOutcome
<1>8. CASE o.op = "project"
  <2>1. o.service \in Services /\ o.repo \in Repos \cup {None}
    BY <1>8, OpArguments DEF ProjectOp
  <2> QED
    BY <1>8, <2>1, ProjectWriteSound, WrittenGood, RefusedGood DEF Outcome, ProjectOutcome
<1> QED
  BY <1>1, <1>2, <1>3, <1>4, <1>5, <1>6, <1>7, <1>8 DEF MutatorOps

(***************************************************************************)
(* The invariant                                                           *)
(***************************************************************************)

\* A step of one process that leaves it with a sound operation.
LEMMA BecomesSound ==
  ASSUME caller \in [Callers -> Op], \A d \in Callers : SoundOp(caller[d]),
         NEW c \in Callers, NEW o \in Op, SoundOp(o), Becomes(c, o)
  PROVE  /\ caller' \in [Callers -> Op]
         /\ \A d \in Callers : SoundOp(caller'[d])
<1>1. caller' = [caller EXCEPT ![c] = o]
  BY DEF Becomes
<1>2. caller' \in [Callers -> Op]
  BY <1>1
<1>3. ASSUME NEW d \in Callers PROVE caller'[d] = IF d = c THEN o ELSE caller[d]
  BY <1>1
<1> QED
  BY <1>2, <1>3

\* The initial locks are sound.
LEMMA InitialLockSound ==
  ASSUME NEW l \in InitialLocks
  PROVE  l \in Lock \cup {None} /\ (l # None => SoundLock(l))
<1>1. CASE l = None
  BY <1>1
<1>2. CASE l # None
  <2>1. PICK image \in Canonicals, t \in [Services -> Repos \cup {None}] :
          l = [ApplyWrite(None, image) EXCEPT !.trusted = t]
    BY <1>2 DEF InitialLocks
  <2> DEFINE w == ApplyWrite(None, image)
  <2>2. w \in Lock /\ SoundLock(w)
    BY ApplyWriteSound
  <2>3. l = [w EXCEPT !.trusted = t]
    BY <2>1
  <2> HIDE DEF w
  <2>4. l \in Lock /\ l.pins = w.pins /\ l.entry = w.entry
    BY <2>2, <2>3 DEF Lock
  <2> QED
    BY <2>2, <2>4 DEF SoundLock
<1> QED
  BY <1>1, <1>2

\* The invariant holds at the start.
LEMMA InvInit == Init => Inv
<1> SUFFICES ASSUME Init PROVE Inv
  OBVIOUS
<1>1. lock \in Lock \cup {None} /\ (lock # None => SoundLock(lock))
  BY InitialLockSound DEF Init
<1>2. caller \in [Callers -> Op] /\ \A c \in Callers : SoundOp(caller[c])
  BY IdleOk DEF Init
<1>3. run \in [Runs -> RunRecord]
  BY DEF Init, RunRecord, Times
<1> QED
  BY <1>1, <1>2, <1>3 DEF Init, Inv, TypeOK, Times

\* A step of one process keeps the invariant.
LEMMA InvProcessStep ==
  ASSUME Inv, NEW c \in Callers, ProcessStep(c)
  PROVE  Inv'
<1> USE DEF Inv
<1> DEFINE o == caller[c]
           Keeps(n) == /\ n \in Op /\ SoundOp(n) /\ Becomes(c, n)
                       /\ UNCHANGED <<lock, record, run, now, pinCalls>>
           Mutates(op) == op \in MutatorOps /\ Mutate(c, op)
<1>1. o \in Op /\ SoundOp(o)
  BY DEF TypeOK
<1>2. ASSUME NEW n, Keeps(n) PROVE Inv'
  BY <1>2, BecomesSound DEF TypeOK
<1>3. ASSUME NEW op, Mutates(op) PROVE Inv'
  <2> DEFINE out == Outcome(lock, o)
  <2>1. GoodOutcome(out)
    BY <1>1, <1>3, OutcomeGood DEF Mutate, TypeOK
  <2>2. lock' = out.lock /\ Becomes(c, out.next) /\ UNCHANGED env
    BY <1>3 DEF Mutate
  <2> HIDE DEF out
  <2>3. lock' \in Lock \cup {None} /\ (lock' # None => SoundLock(lock'))
    BY <2>1, <2>2 DEF GoodOutcome, Result
  <2>4. caller' \in [Callers -> Op] /\ \A d \in Callers : SoundOp(caller'[d])
    BY <2>1, <2>2, BecomesSound DEF GoodOutcome, Result, TypeOK
  <2> QED
    BY <2>2, <2>3, <2>4 DEF TypeOK, env
<1>4. ASSUME NEW q \in PinRequests, CheckDeployable(c, q) PROVE Inv'
  <2> DEFINE n == [op |-> "resolve", req |-> q]
  <2>1. q \in Request
    BY ImageLockAssumption
  <2>2. n \in Op /\ SoundOp(n)
    BY <2>1 DEF Op, ResolveOp, SoundOp
  <2>3. Becomes(c, n) /\ pinCalls' = pinCalls + 1 /\ UNCHANGED <<lock, record, run, now>>
    BY <1>4 DEF CheckDeployable, Begin
  <2> HIDE DEF n
  <2> QED
    BY <2>2, <2>3, BecomesSound DEF TypeOK
<1>5. ASSUME NEW paired \in BOOLEAN, ResolveManifest(c, paired) PROVE Inv'
  <2> DEFINE q == [o.req EXCEPT !.paired = paired]
             n == [op |-> "pin", req |-> q, at |-> now]
  <2>1. o.req \in Request
    BY <1>1, <1>5, OpArguments DEF ResolveManifest, ResolveOp
  <2>2. paired => o.req.service = Schema /\ o.req.ephemeral
    BY <1>5 DEF ResolveManifest
  <2>3. q \in Request
    BY <2>1, <2>2 DEF Request
  <2>4. Becomes(c, n) /\ UNCHANGED <<lock, record, now, pinCalls>>
    BY <1>5 DEF ResolveManifest
  <2>5. run' \in [Runs -> RunRecord]
    <3>1. CASE o.req.run = None
      BY <1>5, <3>1 DEF ResolveManifest, TypeOK
    <3>2. CASE o.req.run # None
      <4>1. run' = [run EXCEPT ![o.req.run].nextPin = now + 1]
        BY <1>5, <3>2 DEF ResolveManifest
      <4>2. o.req.run \in Runs
        BY <2>1, <3>2 DEF Request
      <4> DEFINE moved == [run[o.req.run] EXCEPT !.nextPin = now + 1]
      <4>3. moved \in RunRecord
        BY <4>2 DEF TypeOK, RunRecord, Times
      <4>4. run' = [run EXCEPT ![o.req.run] = moved]
        BY <4>1
      <4> HIDE DEF moved
      <4> QED
        BY <4>3, <4>4 DEF TypeOK
    <3> QED
      BY <3>1, <3>2
  <2> HIDE DEF q
  <2>6. n \in Op /\ SoundOp(n)
    BY <2>3 DEF Op, PinOp, SoundOp, TypeOK
  <2> HIDE DEF n
  <2> QED
    BY <2>4, <2>5, <2>6, BecomesSound DEF TypeOK
<1>6. ASSUME WritePin(c) PROVE Inv'
  BY <1>3, <1>6 DEF WritePin, MutatorOps
<1>7. ASSUME RecheckClear(c) PROVE Inv'
  BY <1>2, <1>7, IdleOk DEF RecheckClear
<1>8. ASSUME RecheckBlocked(c) PROVE Inv'
  <2> DEFINE n == [op |-> "revert", undo |-> o.undo]
  <2>1. o.undo \in Undo /\ SoundUndo(o.undo)
    BY <1>1, <1>8, OpArguments DEF RecheckBlocked, UndoOp, SoundOp
  <2>2. n \in Op /\ SoundOp(n)
    BY <2>1 DEF Op, UndoOp, SoundOp
  <2> QED
    BY <1>2, <1>8, <2>2 DEF RecheckBlocked
<1>9. ASSUME RevertPin(c) PROVE Inv'
  BY <1>3, <1>9 DEF RevertPin, MutatorOps
<1>10. ASSUME NEW s \in Services, NEW r \in Runs \cup {None}, StartReset(c, s, r) PROVE Inv'
  <2> DEFINE n == [op |-> "reset", service |-> s, ifRun |-> r]
  <2>1. n \in Op /\ SoundOp(n)
    BY DEF Op, ResetOp, SoundOp
  <2> QED
    BY <1>2, <1>10, <2>1 DEF StartReset, Begin
<1>11. ASSUME ResetService(c) PROVE Inv'
  BY <1>3, <1>11 DEF ResetService, MutatorOps
<1>12. ASSUME SchemaServes(c) PROVE Inv'
  <2> DEFINE n == [op |-> "loader", loader |-> o.loader]
  <2>1. o.loader \in Pin
    BY <1>1, <1>12, OpArguments DEF SchemaServes, AwaitOp
  <2>2. n \in Op /\ SoundOp(n)
    BY <2>1 DEF Op, LoaderOp, SoundOp
  <2> QED
    BY <1>2, <1>12, <2>2 DEF SchemaServes
<1>13. ASSUME ResetPairedLoader(c) PROVE Inv'
  BY <1>3, <1>13 DEF ResetPairedLoader, MutatorOps
<1>14. ASSUME SweepRead(c) PROVE Inv'
  <2> DEFINE seen == [s \in Services |-> IF s \in Ephemeral(lock) THEN lock.pins[s] ELSE None]
             n == [op |-> "judge", seen |-> seen]
  <2>1. lock \in Lock
    BY <1>14 DEF SweepRead, TypeOK
  <2>2. seen \in PinMap
    BY <2>1 DEF Lock, PinMap
  <2> HIDE DEF seen
  <2>3. n \in Op /\ SoundOp(n)
    BY <2>2 DEF Op, SweepOp, SoundOp
  <2>4. Becomes(c, n) /\ UNCHANGED <<lock, record, run, now, pinCalls>>
    BY <1>14 DEF SweepRead, Begin, seen
  <2> QED
    BY <1>2, <2>3, <2>4
<1>15. ASSUME NEW unreachable \in SUBSET Runs, SweepJudge(c, unreachable) PROVE Inv'
  <2> DEFINE stale == {s \in Services : o.seen[s] # None /\ StaleGroup(o.seen, s, unreachable)}
             seen == [s \in Services |-> IF s \in stale THEN o.seen[s] ELSE None]
             n == IF stale = {} THEN Idle ELSE [op |-> "sweep", seen |-> seen]
  <2>1. o.seen \in PinMap
    BY <1>1, <1>15, OpArguments DEF SweepJudge, SweepOp
  <2>2. Becomes(c, n) /\ UNCHANGED <<lock, record, run, now, pinCalls>>
    BY <1>15 DEF SweepJudge
  <2>3. seen \in PinMap
    BY <2>1 DEF PinMap
  <2> HIDE DEF stale, seen
  <2>4. n \in Op /\ SoundOp(n)
    BY <2>3, IdleOk DEF Op, SweepOp, SoundOp
  <2> QED
    BY <1>2, <2>2, <2>4
<1>16. ASSUME SweepStale(c) PROVE Inv'
  BY <1>3, <1>16 DEF SweepStale, MutatorOps
<1>17. ASSUME NEW names \in RefreshSets, NEW image \in Canonicals, StartRefresh(c, names, image)
       PROVE  Inv'
  <2> DEFINE n == [op |-> "refresh", names |-> names, image |-> image]
  <2>1. n \in Op /\ SoundOp(n)
    BY DEF Op, RefreshOp, SoundOp
  <2> QED
    BY <1>2, <1>17, <2>1 DEF StartRefresh, Begin
<1>18. ASSUME ApplyRefresh(c) PROVE Inv'
  BY <1>3, <1>18 DEF ApplyRefresh, MutatorOps
<1>19. ASSUME NEW image \in Canonicals, StartApply(c, image) PROVE Inv'
  <2> DEFINE n == [op |-> "apply", image |-> image]
  <2>1. n \in Op /\ SoundOp(n)
    BY DEF Op, ApplyOp, SoundOp
  <2> QED
    BY <1>2, <1>19, <2>1 DEF StartApply, Begin
<1>20. ASSUME ApplyImageLock(c) PROVE Inv'
  BY <1>3, <1>20 DEF ApplyImageLock, MutatorOps
<1>21. ASSUME NEW s \in Services, NEW repo \in Repos \cup {None}, StartProject(c, s, repo)
       PROVE  Inv'
  <2> DEFINE n == [op |-> "project", service |-> s, repo |-> repo]
  <2>1. n \in Op /\ SoundOp(n)
    BY DEF Op, ProjectOp, SoundOp
  <2> QED
    BY <1>2, <1>21, <2>1 DEF StartProject, Begin
<1>22. ASSUME ProjectRoster(c) PROVE Inv'
  BY <1>3, <1>22 DEF ProjectRoster, MutatorOps
<1>23. ASSUME GiveUp(c) PROVE Inv'
  BY <1>2, <1>23, IdleOk DEF GiveUp
<1>24. ASSUME ReplyLost(c) PROVE Inv'
  <2> DEFINE out == Outcome(lock, o)
  <2>1. GoodOutcome(out) /\ lock' = out.lock /\ UNCHANGED env
    BY <1>1, <1>24, OutcomeGood DEF ReplyLost, TypeOK
  <2> HIDE DEF out
  <2>2. lock' \in Lock \cup {None} /\ (lock' # None => SoundLock(lock'))
    BY <2>1 DEF GoodOutcome, Result
  <2>3. UNCHANGED caller \/ Becomes(c, Idle)
    BY <1>24 DEF ReplyLost
  <2>4. caller' \in [Callers -> Op] /\ \A d \in Callers : SoundOp(caller'[d])
    BY <2>3, IdleOk, BecomesSound DEF TypeOK
  <2> QED
    BY <2>1, <2>2, <2>4 DEF TypeOK, env
<1> QED
  BY <1>4, <1>5, <1>6, <1>7, <1>8, <1>9, <1>10, <1>11, <1>12, <1>13, <1>14, <1>15, <1>16,
     <1>17, <1>18, <1>19, <1>20, <1>21, <1>22, <1>23, <1>24 DEF ProcessStep, AckedStep

\* So does a step of the environment.
LEMMA InvEnvironmentStep ==
  ASSUME Inv, EnvironmentStep
  PROVE  Inv'
<1> USE DEF Inv
<1>1. ASSUME NEW flag \in {"clear", "maintenance"}, UpsertDeployRecord(flag) \/ SetMaintenance(flag)
      PROVE  Inv'
  BY <1>1 DEF UpsertDeployRecord, SetMaintenance, TypeOK
<1>2. ASSUME NEW r \in Runs, RunCompletes(r) PROVE Inv'
  BY <1>2 DEF RunCompletes, TypeOK, RunRecord
<1>3. ASSUME NEW r \in Runs, RerunStarts(r) PROVE Inv'
  <2>1. now' \in Times
    BY <1>3 DEF RerunStarts, Tick, TypeOK, Times
  <2>2. run' \in [Runs -> RunRecord]
    BY <1>3, <2>1 DEF RerunStarts, TypeOK, RunRecord
  <2> QED
    BY <1>3, <2>1, <2>2 DEF RerunStarts, TypeOK
<1>4. ASSUME TimePasses PROVE Inv'
  BY <1>4 DEF TimePasses, Tick, TypeOK, Times
<1> QED
  BY <1>1, <1>2, <1>3, <1>4 DEF EnvironmentStep

\* The invariant is inductive.
LEMMA InvStep == Inv /\ [Next]_vars => Inv'
<1> SUFFICES ASSUME Inv, [Next]_vars PROVE Inv'
  OBVIOUS
<1>1. CASE Next
  BY <1>1, InvProcessStep, InvEnvironmentStep DEF Next
<1>2. CASE UNCHANGED vars
  BY <1>2 DEF Inv, TypeOK, vars
<1> QED
  BY <1>1, <1>2

\* Every state of the system satisfies the invariant.
LEMMA InvInvariant == Spec => []Inv
  BY InvInit, InvStep, PTL DEF Spec

\* The state of every run of the system is of its type.
THEOREM TypeCorrect == Spec => []TypeOK
<1>1. Inv => TypeOK
  BY DEF Inv
<1> QED
  BY <1>1, InvInvariant, PTL

\* However pins, re-pins, rollbacks, resets, sweeps, refreshes and applies of
\* any number of processes interleave, the image a service returns to is a
\* canonical one.
THEOREM CanonicalAlwaysSurvives == Spec => []CanonicalSurvives
<1>1. Inv => CanonicalSurvives
  <2> SUFFICES ASSUME Inv, lock # None, NEW s \in Services
               PROVE  RestoreTarget(lock, s) \in Canonicals
    BY DEF CanonicalSurvives
  <2>1. Sound(lock.pins[s], lock.entry[s])
    BY DEF Inv, SoundLock
  <2> QED
    BY <2>1 DEF RestoreTarget, Sound, Pinned
<1> QED
  BY <1>1, InvInvariant, PTL

\* The keys Flux substitutes always agree with the pins annotation.
THEOREM EntryAlwaysFollowsPin == Spec => []EntryFollowsPin
<1>1. Inv => EntryFollowsPin
  <2> SUFFICES ASSUME Inv, lock # None, NEW s \in Services
               PROVE  IF s \in Pinned(lock)
                        THEN lock.entry[s] = [image |-> lock.pins[s].image,
                                              hold |-> lock.pins[s].ephemeral]
                        ELSE ~lock.entry[s].hold
    BY DEF EntryFollowsPin
  <2>1. Sound(lock.pins[s], lock.entry[s])
    BY DEF Inv, SoundLock
  <2> QED
    BY <2>1 DEF Sound, Pinned
<1> QED
  BY <1>1, InvInvariant, PTL

(***************************************************************************)
(* What a step may never do                                                *)
(***************************************************************************)

\* A step of one process moves no other process.
LEMMA OneProcessMoves ==
  ASSUME caller \in [Callers -> Op], NEW c \in Callers, NEW d \in Callers, d # c,
         ProcessStep(d)
  PROVE  caller'[c] = caller[c]
<1>1. PICK o : caller' = [caller EXCEPT ![d] = o]
  BY DEF ProcessStep, AckedStep, CheckDeployable, ResolveManifest, WritePin, RecheckClear, RecheckBlocked,
       RevertPin, StartReset, ResetService, SchemaServes, ResetPairedLoader, SweepRead,
       SweepJudge, SweepStale, StartRefresh, ApplyRefresh, StartApply, ApplyImageLock,
       StartProject, ProjectRoster, ReplyLost, GiveUp, Mutate, Begin, Becomes
<1> QED
  BY <1>1

\* A process that is about to write the lock either does, acknowledged or
\* not, or is given up and leaves it alone.
LEMMA MutatorMoves ==
  ASSUME Inv, NEW c \in Callers, caller[c].op \in {"reset", "loader", "sweep"},
         [Next]_vars, caller'[c] # caller[c]
  PROVE  lock' = Outcome(lock, caller[c]).lock \/ UNCHANGED lock
<1>1. ASSUME UNCHANGED vars PROVE FALSE
  BY <1>1 DEF vars
<1>2. ASSUME EnvironmentStep PROVE FALSE
  BY <1>2 DEF EnvironmentStep, UpsertDeployRecord, SetMaintenance, RunCompletes, RerunStarts,
       TimePasses
<1>3. ProcessStep(c)
  BY <1>1, <1>2, OneProcessMoves DEF Next, Inv, TypeOK
<1> QED
  BY <1>3 DEF ProcessStep, AckedStep, CheckDeployable, ResolveManifest, WritePin, RecheckClear,
       RecheckBlocked, RevertPin, StartReset, ResetService, SchemaServes, ResetPairedLoader,
       SweepRead, SweepJudge, SweepStale, StartRefresh, ApplyRefresh, StartApply,
       ApplyImageLock, StartProject, ProjectRoster, ReplyLost, GiveUp, Mutate, Begin

\* A reset bound to a run releases only pins that record it.
LEMMA ResetTakesOwn ==
  ASSUME NEW l \in Lock, NEW service \in Services, NEW ifRun \in Runs, NEW s \in Services,
         ResetAdmitted(l, service, ifRun),
         ResetWrite(l, service, ifRun).pins[s] # l.pins[s]
  PROVE  l.pins[s].run = ifRun
<1> DEFINE S == ResetTargets(l, service, ifRun)
                  \ (IF Defers(l, service, ifRun) THEN {Loader} ELSE {})
<1>0. ifRun # None
  BY LockDataAssumption
<1>1. S \in SUBSET Pinned(l) /\ S \subseteq ResetTargets(l, service, ifRun)
  BY ResetNames
<1>2. s \in S
  BY <1>1, ReleaseType DEF ResetWrite
<1> QED
  BY <1>0, <1>1, <1>2 DEF ResetTargets, ResetAdmitted

\* A restore job's `reset --if-run` never takes a pin of another run or of an
\* operator, whatever was pinned between its start and its write.
THEOREM ResetTakesOnlyOwnPin == Spec => ResetOnlyOwnPin
<1> DEFINE A == \A c \in Callers :
                  (caller[c].op = "reset" /\ caller[c].ifRun # None /\ caller'[c] # caller[c])
                    => \A s \in Lost : lock.pins[s].run = caller[c].ifRun
<1>1. Inv /\ [Next]_vars => [A]_vars
  <2> SUFFICES ASSUME Inv, [Next]_vars, NEW c \in Callers, caller[c].op = "reset",
                      caller[c].ifRun # None, caller'[c] # caller[c], NEW s \in Lost
               PROVE  lock.pins[s].run = caller[c].ifRun
    OBVIOUS
  <2> DEFINE o == caller[c]
  <2>1. o \in ResetOp /\ o.service \in Services /\ o.ifRun \in Runs
    BY OpArguments DEF Inv, TypeOK, ResetOp
  <2>2. s \in Services /\ lock # None /\ lock \in Lock /\ lock'.pins[s] # lock.pins[s]
    BY DEF Lost, Inv, TypeOK
  <2>3. lock' = ResetOutcome(lock, o).lock
    BY <2>2, MutatorMoves DEF Outcome
  <2>4. ResetAdmitted(lock, o.service, o.ifRun) /\ lock' = ResetWrite(lock, o.service, o.ifRun)
    BY <2>2, <2>3 DEF ResetOutcome, Written, Raised, Refused
  <2> QED
    BY <2>1, <2>2, <2>4, ResetTakesOwn
<1> QED
  BY <1>1, InvInvariant, PTL DEF Spec, ResetOnlyOwnPin

-----------------------------------------------------------------------------
(* The read-compute-patch loop implements the atomic mutation: every step  *)
(* of ImageLockCas is a step of ImageLock or changes none of its           *)
(* variables.                                                              *)

\* A process holds a copy only inside a mutation, and a copy read at the
\* live resourceVersion is the outcome of the mutation on the live lock.
CasInv ==
  /\ Inv
  /\ copy \in [Callers -> Result \cup {None}]
  /\ fresh \subseteq Callers
  /\ \A c \in Callers : copy[c] # None => caller[c].op \in MutatorOps
  /\ \A c \in fresh : /\ copy[c] # None
                      /\ copy[c] = Outcome(lock, caller[c]) /\ copy[c].writes

\* The outcome of the operation a process is in the middle of is a result.
LEMMA OutcomeIsResult ==
  ASSUME Inv, NEW c \in Callers, caller[c].op \in MutatorOps
  PROVE  Outcome(lock, caller[c]) \in Result /\ Outcome(lock, caller[c]).next \in Op
  BY OutcomeGood DEF Inv, TypeOK, GoodOutcome, Result

\* The mutation of a process is a step of ImageLock.
LEMMA MutateIsStep ==
  ASSUME NEW c \in Callers, NEW op \in MutatorOps, Mutate(c, op)
  PROVE  Next
<1>1. ProcessStep(c)
  BY DEF MutatorOps, ProcessStep, AckedStep, WritePin, RevertPin, ResetService, ResetPairedLoader,
         SweepStale, ApplyRefresh, ApplyImageLock, ProjectRoster
<1> QED
  BY <1>1 DEF Next

\* Ending a mutation without a write is a call given up.
LEMMA FinishIsGiveUp ==
  ASSUME NEW c \in Callers, caller[c].op # "idle", Finish(c, Idle), UNCHANGED <<lock, env>>
  PROVE  Next
<1>1. GiveUp(c)
  BY DEF GiveUp, Finish, env
<1> QED
  BY <1>1 DEF Next, ProcessStep, AckedStep

\* What a process does between mutations.
LEMMA OtherIsStep ==
  ASSUME NEW c \in Callers, OtherStep(c)
  PROVE  ProcessStep(c) /\ UNCHANGED lock
  BY DEF OtherStep, ProcessStep, AckedStep, CheckDeployable, ResolveManifest, RecheckClear, RecheckBlocked,
         StartReset, SchemaServes, SweepRead, SweepJudge, StartRefresh, StartApply, StartProject

\* Every step of the loop is a step of ImageLock or a stutter.
LEMMA CasStepSimulates ==
  ASSUME CasInv, CasNext
  PROVE  [Next]_vars
<1>1. ASSUME NEW c \in Callers, ReadLock(c) PROVE [Next]_vars
  <2> DEFINE out == Outcome(lock, caller[c])
  <2>1. caller[c].op \in MutatorOps /\ UNCHANGED <<lock, env>>
    BY <1>1 DEF ReadLock
  <2>2. CASE out.writes
    BY <1>1, <2>1, <2>2 DEF ReadLock, vars, env
  <2>3. CASE ~out.writes
    <3>1. Becomes(c, out.next)
      BY <1>1, <2>3 DEF ReadLock, Finish
    <3>2. out.lock = lock
      BY <2>1, <2>3 DEF MutatorOps, Outcome, PinOutcome, RevertOutcome, ResetOutcome,
           LoaderOutcome, SweepOutcome, RefreshOutcome, ApplyOutcome, ProjectOutcome,
           Written, Raised, Refused
    <3>3. Mutate(c, caller[c].op)
      BY <2>1, <3>1, <3>2 DEF Mutate
    <3> QED
      BY <2>1, <3>3, MutateIsStep
  <2> QED
    BY <2>2, <2>3
<1>2. ASSUME NEW c \in Callers, PatchLock(c) PROVE [Next]_vars
  <2>1. c \in fresh /\ lock' = copy[c].lock /\ Becomes(c, copy[c].next) /\ UNCHANGED env
    BY <1>2 DEF PatchLock, Applied, Finish
  <2>2. copy[c] = Outcome(lock, caller[c]) /\ caller[c].op \in MutatorOps
    BY <2>1 DEF CasInv
  <2>3. Mutate(c, caller[c].op)
    BY <2>1, <2>2 DEF Mutate
  <2> QED
    BY <2>2, <2>3, MutateIsStep
<1>3. ASSUME NEW c \in Callers, LostRace(c) PROVE [Next]_vars
  <2>1. caller[c].op # "idle"
    BY <1>3 DEF LostRace, CasInv, MutatorOps
  <2>2. UNCHANGED <<lock, env>>
    BY <1>3 DEF LostRace
  <2>3. UNCHANGED caller \/ Finish(c, Idle)
    BY <1>3 DEF LostRace, Retry
  <2> QED
    BY <2>1, <2>2, <2>3, FinishIsGiveUp DEF vars, env
<1>4. ASSUME NEW c \in Callers, CasReplyLost(c) PROVE [Next]_vars
  <2>1. c \in fresh /\ lock' = copy[c].lock /\ UNCHANGED env /\ LostReplies
    BY <1>4 DEF CasReplyLost, Applied
  <2>2. copy[c] = Outcome(lock, caller[c]) /\ caller[c].op \in MutatorOps /\ copy[c].writes
    BY <2>1 DEF CasInv
  <2>3. (lock # None /\ UNCHANGED caller) \/ Becomes(c, Idle)
    BY <1>4 DEF CasReplyLost, Retry, Finish
  <2>4. ReplyLost(c)
    BY <2>1, <2>2, <2>3 DEF ReplyLost
  <2> QED
    BY <2>4 DEF Next, ProcessStep, AckedStep
<1>5. ASSUME NEW c \in Callers, OtherStep(c) PROVE [Next]_vars
  BY <1>5, OtherIsStep DEF Next
<1>6. ASSUME NEW c \in Callers, CasGiveUp(c) PROVE [Next]_vars
  BY <1>6, FinishIsGiveUp DEF CasGiveUp
<1>7. ASSUME EnvironmentStep PROVE [Next]_vars
  BY <1>7 DEF Next
<1> QED
  BY <1>1, <1>2, <1>3, <1>4, <1>5, <1>6, <1>7 DEF CasNext

\* The copies stay right: other processes' copies go stale only when the
\* resourceVersion moves, and a move empties `fresh`.
LEMMA CasInvStep ==
  ASSUME CasInv, [CasNext]_casVars
  PROVE  CasInv'
<1> DEFINE Rest ==
             /\ copy \in [Callers -> Result \cup {None}]
             /\ fresh \subseteq Callers
             /\ \A c \in Callers : copy[c] # None => caller[c].op \in MutatorOps
             /\ \A c \in fresh : /\ copy[c] # None
                                 /\ copy[c] = Outcome(lock, caller[c]) /\ copy[c].writes
<1>1. Inv'
  <2>1. [Next]_vars
    BY CasStepSimulates DEF vars, casVars
  <2> QED
    BY <2>1, InvStep DEF CasInv
<1>a. caller \in [Callers -> Op]
  BY DEF CasInv, Inv, TypeOK
<1>2. ASSUME NEW c \in Callers, ReadLock(c) PROVE Rest'
  <2> DEFINE out == Outcome(lock, caller[c])
  <2>1. copy[c] = None /\ caller[c].op \in MutatorOps /\ UNCHANGED lock /\ c \notin fresh
    BY <1>2 DEF ReadLock, CasInv
  <2>2. CASE out.writes
    <3>1. copy' = [copy EXCEPT ![c] = out] /\ fresh' = fresh \cup {c} /\ UNCHANGED caller
      BY <1>2, <2>2 DEF ReadLock
    <3>2. out \in Result /\ out # None
      BY <2>1, OutcomeIsResult, CasAssumption DEF CasInv
    <3> HIDE DEF out
    <3>3. copy' \in [Callers -> Result \cup {None}]
      BY <3>1, <3>2 DEF CasInv
    <3>4. \A d \in Callers : copy'[d] = IF d = c THEN out ELSE copy[d]
      BY <3>1 DEF CasInv
    <3>5. \A d \in fresh' : /\ copy'[d] # None
                            /\ copy'[d] = Outcome(lock', caller'[d]) /\ copy'[d].writes
      BY <2>1, <2>2, <3>1, <3>2, <3>4 DEF CasInv, out
    <3> QED
      BY <2>1, <3>1, <3>3, <3>4, <3>5 DEF CasInv
  <2>3. CASE ~out.writes
    <3>1. /\ copy' = [copy EXCEPT ![c] = None] /\ caller' = [caller EXCEPT ![c] = out.next]
          /\ UNCHANGED fresh
      BY <1>2, <2>3 DEF ReadLock, Finish, Becomes
    <3> QED
      BY <1>a, <2>1, <3>1 DEF CasInv
  <2> QED
    BY <2>2, <2>3
<1>3. ASSUME NEW c \in Callers, PatchLock(c) PROVE Rest'
  <2>1. /\ copy' = [copy EXCEPT ![c] = None] /\ caller' = [caller EXCEPT ![c] = copy[c].next]
        /\ fresh' = {} \/ (fresh' = fresh \ {c} /\ lock' = lock)
    BY <1>3 DEF PatchLock, Applied, Finish, Becomes
  <2> QED
    BY <1>a, <2>1 DEF CasInv
<1>4. ASSUME NEW c \in Callers, LostRace(c) PROVE Rest'
  <2>1. /\ copy' = [copy EXCEPT ![c] = None] /\ c \notin fresh
        /\ UNCHANGED caller \/ caller' = [caller EXCEPT ![c] = Idle]
        /\ UNCHANGED <<lock, fresh>>
    BY <1>4 DEF LostRace, Retry, Finish, Becomes
  <2> QED
    BY <1>a, <2>1 DEF CasInv
<1>5. ASSUME NEW c \in Callers, CasReplyLost(c) PROVE Rest'
  <2>1. /\ copy' = [copy EXCEPT ![c] = None]
        /\ UNCHANGED caller \/ caller' = [caller EXCEPT ![c] = Idle]
        /\ fresh' = {}
    BY <1>5 DEF CasReplyLost, Applied, Retry, Finish, Becomes
  <2> QED
    BY <1>a, <2>1 DEF CasInv
<1>6. ASSUME NEW c \in Callers, OtherStep(c) PROVE Rest'
  <2>1. copy[c] = None /\ UNCHANGED <<lock, copy, fresh>>
    BY <1>6, OtherIsStep DEF OtherStep
  <2>2. ASSUME NEW d \in Callers, d # c PROVE caller'[d] = caller[d]
    <3>1. PICK o : caller' = [caller EXCEPT ![c] = o]
      BY <1>6 DEF OtherStep, CheckDeployable, ResolveManifest, RecheckClear, RecheckBlocked,
           StartReset, SchemaServes, SweepRead, SweepJudge, StartRefresh, StartApply,
           StartProject, Begin, Becomes
    <3> QED
      BY <1>a, <2>2, <3>1
  <2>3. c \notin fresh
    BY <2>1 DEF CasInv
  <2> QED
    BY <2>1, <2>2, <2>3 DEF CasInv
<1>7. ASSUME NEW c \in Callers, CasGiveUp(c) PROVE Rest'
  <2>1. /\ copy' = [copy EXCEPT ![c] = None] /\ caller' = [caller EXCEPT ![c] = Idle]
        /\ fresh' = fresh \ {c} /\ UNCHANGED lock
    BY <1>7 DEF CasGiveUp, Finish, Becomes
  <2> QED
    BY <1>a, <2>1 DEF CasInv
<1>8. ASSUME EnvironmentStep, UNCHANGED <<copy, fresh>> PROVE Rest'
  <2>1. UNCHANGED <<lock, caller>>
    BY <1>8 DEF EnvironmentStep, UpsertDeployRecord, SetMaintenance, RunCompletes,
         RerunStarts, TimePasses
  <2> QED
    BY <1>8, <2>1 DEF CasInv
<1>9. ASSUME UNCHANGED casVars PROVE Rest'
  BY <1>9 DEF CasInv, casVars
<1>10. Rest'
  BY <1>2, <1>3, <1>4, <1>5, <1>6, <1>7, <1>8, <1>9 DEF CasNext
<1> QED
  BY <1>1, <1>10 DEF CasInv

\* The copies are right at the start.
LEMMA CasInvInit == CasInit => CasInv
<1> SUFFICES ASSUME CasInit PROVE CasInv
  OBVIOUS
<1>1. Inv
  BY InvInit DEF CasInit
<1> QED
  BY <1>1 DEF CasInit, CasInv

\* mutate_lock takes effect at one instant: the read-compute-patch loop
\* implements ImageLock, so whatever is proved of ImageLock holds of it.
THEOREM CasRefinesImageLock == CasSpec => MutationsAreAtomic
<1>1. CasInit => Init
  BY DEF CasInit
<1>2. CasInv /\ [CasNext]_casVars => [Next]_vars
  BY CasStepSimulates DEF vars, casVars
<1>3. CasInv /\ [CasNext]_casVars => CasInv'
  BY CasInvStep
<1> QED
  BY <1>1, <1>2, <1>3, CasInvInit, PTL DEF CasSpec, Spec, MutationsAreAtomic
=============================================================================
