------------------------------ MODULE LockData ------------------------------
(***************************************************************************)
(* The osdu-image-lock ConfigMap as data, and what each mutator handed to  *)
(* mutate_lock computes from the lock it has just read (src/spi/pins.py).  *)
(*                                                                         *)
(* An image is a member of Canonicals (a tagged main-line build) or of     *)
(* Builds (a fork or local build pinned by digest, which has no tag).  The *)
(* images of schema and of its loader made from one commit are the same    *)
(* member.                                                                 *)
(***************************************************************************)
EXTENDS Integers

CONSTANTS
  Services,    \* names of the image registry
  Schema,      \* SCHEMA_SERVICE_NAME
  Loader,      \* SCHEMA_LOAD_SERVICE_NAME
  Canonicals,  \* images a canonical repository published
  Builds,      \* images a pin can name
  Runs,        \* GitHub workflow run ids
  Repos,       \* GitHub repositories
  RepoOf,      \* the repository each run belongs to
  None         \* no pin, no recorded image, no run, no repository, no lock

ASSUME LockDataAssumption ==
  /\ Schema \in Services /\ Loader \in Services /\ Schema # Loader
  /\ Canonicals \cap Builds = {}
  /\ RepoOf \in [Runs -> Repos]
  /\ None \notin Canonicals \cup Builds \cup Runs \cup Repos

Images == Canonicals \cup Builds
Times == Nat
Pair == {Schema, Loader}

(***************************************************************************)
(* Types                                                                   *)
(***************************************************************************)

\* What a service's lock keys say: the image it runs and the
\* do-not-disrupt flag of its node.
Entry == [image : Images, hold : BOOLEAN]

\* One record of the pins annotation (ServicePin).
Pin == [image : Builds, canonical : Images \cup {None},
        run : Runs \cup {None}, ephemeral : BOOLEAN, at : Times]

PinMap == [Services -> Pin \cup {None}]

\* The ConfigMap: data keys, pins annotation, trusted-repos annotation.
Lock == [entry : [Services -> Entry], pins : PinMap,
         trusted : [Services -> Repos \cup {None}]]

\* None is none of the records either.
ASSUME NoneAssumption == None \notin Pin /\ None \notin Entry /\ None \notin Lock

\* The arguments of one `spi service pin` call.  An ephemeral pin names its
\* run and is never local; the loader is never pinned directly.
Request ==
  {q \in [service : Services \ {Loader}, image : Builds, run : Runs \cup {None},
          ephemeral : BOOLEAN, local : BOOLEAN, paired : BOOLEAN] :
     /\ q.ephemeral => q.run # None
     /\ q.local => ~q.ephemeral /\ q.run = None
     /\ q.paired => q.service = Schema /\ q.ephemeral}

\* One lock write's outcome and the state it replaced (_LockMutation).
Undo == {u \in [names : SUBSET Services, wrote : PinMap, priorPins : PinMap,
                priorEntries : [Services -> Entry \cup {None}]] :
           \A s \in u.names : u.priorEntries[s] # None}

(***************************************************************************)
(* Helpers shared by the mutators                                          *)
(***************************************************************************)

Pinned(l) == {s \in Services : l.pins[s] # None}

Ephemeral(l) == {s \in Pinned(l) : l.pins[s].ephemeral}

\* Mutant of Restored: the released service keeps its node held.
RestoredKeepsHold(l, s) ==
  [image |-> IF l.pins[s].canonical = None THEN l.entry[s].image ELSE l.pins[s].canonical,
   hold |-> l.entry[s].hold]

\* The entry a released pin leaves: its canonical image, or, when the pin
\* recorded none, the image it had with the flag lowered.
Restored(l, s) ==
  IF l.pins[s].canonical = None
    THEN [image |-> l.entry[s].image, hold |-> FALSE]
    ELSE [image |-> l.pins[s].canonical, hold |-> FALSE]

\* Drop the pins of S and restore what they recorded.
Release(l, S) ==
  [entry |-> [s \in Services |-> IF s \in S THEN Restored(l, s) ELSE l.entry[s]],
   pins |-> [s \in Services |-> IF s \in S THEN None ELSE l.pins[s]],
   trusted |-> l.trusted]

\* The restore target a pin must record: the live entry on the first pin,
\* the existing pin's own target on a re-pin.
Captured(l, s) == IF s \in Pinned(l) THEN l.pins[s].canonical ELSE l.entry[s].image

\* A target without a repository and a tag is refused; only canonical
\* images carry a tag.
Capturable(l, s) == Captured(l, s) \in Canonicals

(***************************************************************************)
(* pin_service_image                                                       *)
(***************************************************************************)

Targets(q) == {q.service} \cup (IF q.paired THEN {Loader} ELSE {})

\* Mutant of StaleLoader: the earlier run's loader stays pinned.
StaleLoaderKept(l, q) == {}

\* A loader pinned by an earlier run that would mismatch the schema image.
StaleLoader(l, q) ==
  IF q.service = Schema /\ ~q.paired THEN {Loader} \cap Pinned(l) ELSE {}

PinAdmitted(l, q) ==
  /\ q.ephemeral => l.trusted[q.service] = RepoOf[q.run]
  /\ q.local => q.service \notin Ephemeral(l)
  /\ \A s \in StaleLoader(l, q) : l.pins[s].canonical # None
  /\ \A s \in Targets(q) : Capturable(l, s)

\* Mutant of NewPin: a re-pin captures the borrowed image it overwrites.
NewPinFromLive(l, q, s, at) ==
  [image |-> q.image, canonical |-> l.entry[s].image, run |-> q.run,
   ephemeral |-> q.ephemeral, at |-> at]

NewPin(l, q, s, at) ==
  [image |-> q.image, canonical |-> Captured(l, s), run |-> q.run,
   ephemeral |-> q.ephemeral, at |-> at]

PinWrite(l, q, at) ==
  LET r == Release(l, StaleLoader(l, q)) IN
  [entry |-> [s \in Services |->
                IF s \in Targets(q) THEN [image |-> q.image, hold |-> q.ephemeral]
                                    ELSE r.entry[s]],
   pins |-> [s \in Services |-> IF s \in Targets(q) THEN NewPin(l, q, s, at) ELSE r.pins[s]],
   trusted |-> l.trusted]

\* Mutant of UndoOf: the prior state is read after the write.
UndoOfAfter(l, q, at) ==
  LET names == Targets(q) \cup StaleLoader(l, q)
      after == PinWrite(l, q, at)
      pins == [s \in Services |-> IF s \in names THEN after.pins[s] ELSE None]
  IN [names |-> names, wrote |-> pins, priorPins |-> pins,
      priorEntries |-> [s \in Services |-> IF s \in names THEN after.entry[s] ELSE None]]

UndoOf(l, q, at) ==
  LET names == Targets(q) \cup StaleLoader(l, q)
      after == PinWrite(l, q, at)
  IN [names |-> names,
      wrote |-> [s \in Services |-> IF s \in names THEN after.pins[s] ELSE None],
      priorPins |-> [s \in Services |-> IF s \in names THEN l.pins[s] ELSE None],
      priorEntries |-> [s \in Services |-> IF s \in names THEN l.entry[s] ELSE None]]

(***************************************************************************)
(* _revert_pin                                                             *)
(***************************************************************************)

\* Every name still holds what the call wrote there.
Stands(l, u) == \A s \in u.names : l.pins[s] = u.wrote[s]

Reverted(l, u) ==
  [entry |-> [s \in Services |-> IF s \in u.names THEN u.priorEntries[s] ELSE l.entry[s]],
   pins |-> [s \in Services |-> IF s \in u.names THEN u.priorPins[s] ELSE l.pins[s]],
   trusted |-> l.trusted]

(***************************************************************************)
(* reset_service                                                           *)
(***************************************************************************)

\* Schema is unpinned and its loader is not: the wait runs behind the live
\* schema image.
Orphaned(l, service, ifRun) ==
  /\ service = Schema /\ ifRun = None
  /\ Schema \notin Pinned(l) /\ Loader \in Pinned(l)

\* Mutant of ResetAdmitted: the run is not compared.
ResetAdmittedAnyRun(l, service, ifRun) ==
  ~Orphaned(l, service, ifRun) /\ service \in Pinned(l)

\* With a run named, the service's live pin must record it.
ResetAdmitted(l, service, ifRun) ==
  /\ ~Orphaned(l, service, ifRun)
  /\ service \in Pinned(l)
  /\ ifRun # None => l.pins[service].run = ifRun

ResetTargets(l, service, ifRun) ==
  {s \in ({service} \cup (IF service = Schema THEN {Loader} ELSE {})) \cap Pinned(l) :
     s = service \/ ifRun = None \/ l.pins[s].run = ifRun}

\* A restored schema releases its loader in a second write.
Defers(l, service, ifRun) ==
  /\ Pair \subseteq ResetTargets(l, service, ifRun)
  /\ l.pins[Schema].canonical # None

ResetWrite(l, service, ifRun) ==
  Release(l, ResetTargets(l, service, ifRun)
               \ (IF Defers(l, service, ifRun) THEN {Loader} ELSE {}))

(***************************************************************************)
(* refresh_services, apply_image_lock, sweep_stale_ephemeral_pins          *)
(***************************************************************************)

\* Mutant of Held: schema and its loader are held one by one.
HeldSingly(l, names) == names \cap Pinned(l)

\* Pinned names stay, and schema and its loader stay as a pair.
Held(l, names) ==
  LET held == names \cap Pinned(l) IN
  IF held \cap Pair # {} THEN held \cup (Pair \cap names) ELSE held

RefreshWrite(l, names, image) ==
  [entry |-> [s \in Services |->
                IF s \in names \ Held(l, names)
                  THEN [image |-> image, hold |-> FALSE] ELSE l.entry[s]],
   pins |-> l.pins, trusted |-> l.trusted]

\* The whole data map rebuilt from resolved images with the live pins over
\* them; annotations the render does not own are carried.
ApplyWrite(l, image) ==
  IF l = None
    THEN [entry |-> [s \in Services |-> [image |-> image, hold |-> FALSE]],
          pins |-> [s \in Services |-> None],
          trusted |-> [s \in Services |-> None]]
    ELSE [entry |-> [s \in Services |->
            IF s \in Pinned(l) THEN [image |-> l.pins[s].image, hold |-> l.pins[s].ephemeral]
                               ELSE [image |-> image, hold |-> FALSE]],
          pins |-> l.pins, trusted |-> l.trusted]

\* Names the sweep judged stale and that share a run with s: one group.
GroupOf(seen, s) == {t \in Services : seen[t] # None /\ seen[t].run = seen[s].run}

\* Mutant of SweepTargets: the judged names are released unread.
SweepTargetsUnread(l, seen) == {s \in Services : seen[s] # None} \cap Pinned(l)

\* Only a group whose every member still holds the judged pin is released.
SweepTargets(l, seen) ==
  {s \in Services : /\ seen[s] # None
                    /\ \A t \in GroupOf(seen, s) : l.pins[t] = seen[t]}

SweepWrite(l, seen) == Release(l, SweepTargets(l, seen))

(***************************************************************************)
(* The projection of the deploy identity's credentials (onboard.py)        *)
(***************************************************************************)
ProjectWrite(l, s, repo) ==
  [entry |-> l.entry, pins |-> l.pins, trusted |-> [l.trusted EXCEPT ![s] = repo]]
=============================================================================
