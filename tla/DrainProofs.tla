---------------------------- MODULE DrainProofs ----------------------------
(* Theorems of Drain: type correctness, that a drained environment stays    *)
(* drained, and that no poll outlives the deadline.                         *)
EXTENDS Drain, FiniteSetTheorems, TLAPS

Busy(k) == call[k].stage \in {"checked", "written"}
NoPins == \A s \in Services : pin[s] = None
EmptyAt == drain.start + drain.emptySince

\* A pin call between its check and its recheck is younger than PinPath.
CallsAreYoung == \A k \in Calls : Busy(k) => call[k].since <= now /\ now <= call[k].since + PinPath

\* The script's times are in the past.
TimesPassed ==
  /\ drain.pc = "off" => drain.emptySince = Unset /\ drain.readAt = 0
  /\ drain.start + drain.readAt <= now \/ drain.readAt = 0
  /\ drain.start <= now
  /\ drain.emptySince # Unset => EmptyAt <= now

\* What was read is what stands, as far as the flag goes.
ReadsStand ==
  /\ drain.pc \in {"read", "judge"} /\ drain.flag = "set" /\ ~cleared => maintenance
  /\ drain.pc = "judge" /\ drain.count # Unset => drain.flag = "set"

\* Since the set was first seen empty no pin call has passed its check.
NoneAdmitted ==
  drain.emptySince # Unset /\ ~cleared =>
    /\ maintenance
    /\ \A k \in Calls : call[k].stage = "checked" => call[k].since <= EmptyAt

\* A set read empty once the interval is over stays empty.
LastReadHolds ==
  /\ drain.pc \in {"read", "judge"} /\ drain.count = 0 /\ drain.emptySince # Unset
  /\ drain.readAt - drain.emptySince >= QUIESCENCE /\ ~cleared
  => NoPins

Drained ==
  drain.pc = "drained" /\ ~cleared =>
    maintenance /\ NoPins /\ \A k \in Calls : call[k].stage # "checked"

QuietInv == TypeOK /\ CallsAreYoung /\ TimesPassed /\ ReadsStand /\ NoneAdmitted /\ LastReadHolds /\ Drained

-----------------------------------------------------------------------------
\* A count of zero pins means there are none.
LEMMA CountZero ==
  ASSUME TypeOK, IsFiniteSet(Services)
  PROVE  LET n == Cardinality({s \in Services : pin[s] # None}) IN n \in Nat /\ (n = 0 => NoPins)
<1> DEFINE S == {s \in Services : pin[s] # None}
<1>1. IsFiniteSet(S) BY FS_Subset
<1>2. Cardinality(S) \in Nat BY <1>1, FS_CardinalityType
<1>3. Cardinality(S) = 0 => S = {} BY <1>1, FS_EmptySet
<1> QED BY <1>2, <1>3 DEF NoPins

\* The initial state satisfies the invariant.
LEMMA QuietInit == Init => QuietInv
<1> SUFFICES ASSUME Init PROVE QuietInv OBVIOUS
<1> USE DrainAssumption DEF Init
<1>1. TypeOK BY DEF TypeOK, CallState, DrainState, Unset
<1>2. CallsAreYoung /\ TimesPassed BY DEF CallsAreYoung, Busy, TimesPassed, Unset
<1>3. ReadsStand /\ NoneAdmitted /\ LastReadHolds /\ Drained
  BY DEF ReadsStand, NoneAdmitted, LastReadHolds, Drained, Unset
<1> QED BY <1>1, <1>2, <1>3 DEF QuietInv

\* A step of a pin call keeps the types.
LEMMA CallKeepsTypes ==
  ASSUME TypeOK, NEW k \in Calls, CallStep(k)
  PROVE  TypeOK'
<1> USE DrainAssumption DEF TypeOK, flagVars
<1>1. CASE CheckDeployable(k) BY <1>1 DEF CheckDeployable, CallState
<1>2. CASE WritePin(k)
  <2>1. ServiceOf[k] \in Services /\ pin[ServiceOf[k]] \in Calls \cup {None} OBVIOUS
  <2>2. pin' \in [Services -> Calls \cup {None}] BY <1>2, <2>1 DEF WritePin
  <2>3. call' \in [Calls -> CallState] BY <1>2, <2>1 DEF WritePin, CallState
  <2> QED BY <1>2, <2>2, <2>3 DEF WritePin
<1>3. CASE Recheck(k) BY <1>3 DEF Recheck, CallState
<1>4. CASE RevertPin(k)
  <2>1. call[k].prior \in Calls \cup {None} BY DEF CallState
  <2>2. pin' \in [Services -> Calls \cup {None}] BY <1>4, <2>1 DEF RevertPin
  <2>3. call' \in [Calls -> CallState] BY <1>4 DEF RevertPin, CallState
  <2> QED BY <1>4, <2>2, <2>3 DEF RevertPin
<1>5. CASE CallDies(k) BY <1>5 DEF CallDies, CallState
<1> QED BY <1>1, <1>2, <1>3, <1>4, <1>5 DEF CallStep

\* A step of a pin call keeps the invariant: only a call that has passed its
\* check can pin, and once the interval is over there is none.
LEMMA CallKeepsQuiet ==
  ASSUME QuietInv, NEW k \in Calls, CallStep(k)
  PROVE  QuietInv'
<1> USE DrainAssumption DEF QuietInv, flagVars
<1>0. TypeOK' BY CallKeepsTypes
<1>1. CASE CheckDeployable(k)
  BY <1>0, <1>1 DEF CheckDeployable, TypeOK, CallState, DrainState, CallsAreYoung, Busy, TimesPassed,
     ReadsStand, NoneAdmitted, LastReadHolds, Drained, NoPins, Unset, EmptyAt
<1>2. CASE WritePin(k)
  <2> USE <1>2 DEF WritePin, TypeOK, CallState, DrainState
  <2>1. /\ call[k].stage = "checked" /\ call'[k].stage = "written" /\ call'[k].since = call[k].since
        /\ \A j \in Calls \ {k} : call'[j] = call[j]
    OBVIOUS
  <2> HIDE <1>2 DEF WritePin
  <2>2. UNCHANGED <<completed, maintenance, cleared, drain, now>> BY <1>2 DEF WritePin
  <2>3. (CallsAreYoung /\ TimesPassed /\ ReadsStand /\ NoneAdmitted)'
    BY <2>1, <2>2 DEF CallsAreYoung, Busy, TimesPassed, ReadsStand, NoneAdmitted, Unset, EmptyAt
  <2>4. LastReadHolds' /\ Drained'
    BY <2>1, <2>2 DEF CallsAreYoung, Busy, TimesPassed, NoneAdmitted, LastReadHolds, Drained, Unset, EmptyAt
  <2> QED BY <1>0, <2>3, <2>4
<1>3. CASE Recheck(k)
  BY <1>0, <1>3 DEF Recheck, TypeOK, CallState, DrainState, CallsAreYoung, Busy, TimesPassed,
     ReadsStand, NoneAdmitted, LastReadHolds, Drained, NoPins, Unset, EmptyAt
<1>4. CASE RevertPin(k)
  <2>1. /\ \A j \in Calls : call'[j].since = call[j].since
        /\ \A j \in Calls : call'[j].stage \in {call[j].stage, "over"}
        /\ UNCHANGED <<completed, maintenance, cleared, drain, now>>
    BY <1>4 DEF RevertPin, TypeOK, CallState
  <2>2. NoPins => NoPins' BY <1>4 DEF RevertPin, NoPins, TypeOK
  <2>3. (CallsAreYoung /\ TimesPassed /\ ReadsStand /\ NoneAdmitted)'
    BY <2>1 DEF CallsAreYoung, Busy, TimesPassed, ReadsStand, NoneAdmitted, Unset, EmptyAt
  <2>4. LastReadHolds' /\ Drained' BY <2>1, <2>2 DEF LastReadHolds, Drained
  <2> QED BY <1>0, <2>3, <2>4
<1>5. CASE CallDies(k)
  BY <1>0, <1>5 DEF CallDies, TypeOK, CallState, DrainState, CallsAreYoung, Busy, TimesPassed,
     ReadsStand, NoneAdmitted, LastReadHolds, Drained, NoPins, Unset, EmptyAt
<1> QED BY <1>1, <1>2, <1>3, <1>4, <1>5 DEF CallStep

\* So do the lanes, the flag and the clock.
LEMMA OthersKeepQuiet ==
  ASSUME QuietInv,
         \/ \E r \in Runs : RunCompletes(r) \/ RestoreRun(r)
         \/ SetMaintenance \/ ClearMaintenance \/ Tick
  PROVE  QuietInv'
<1> USE DrainAssumption DEF QuietInv, flagVars, pinVars
<1>1. CASE \E r \in Runs : RunCompletes(r)
  BY <1>1 DEF RunCompletes, TypeOK, CallsAreYoung, Busy, TimesPassed, ReadsStand, NoneAdmitted,
     LastReadHolds, Drained, NoPins, EmptyAt
<1>2. CASE \E r \in Runs : RestoreRun(r)
  <2>1. NoPins => NoPins' BY <1>2 DEF RestoreRun, Released, NoPins
  <2>2. TypeOK' BY <1>2 DEF RestoreRun, Released, TypeOK
  <2> QED BY <1>2, <2>1, <2>2 DEF RestoreRun, CallsAreYoung, Busy, TimesPassed, ReadsStand, NoneAdmitted,
     LastReadHolds, Drained, EmptyAt
<1>3. CASE SetMaintenance
  BY <1>3 DEF SetMaintenance, TypeOK, CallsAreYoung, Busy, TimesPassed, ReadsStand, NoneAdmitted,
     LastReadHolds, Drained, NoPins, EmptyAt
<1>4. CASE ClearMaintenance
  BY <1>4 DEF ClearMaintenance, TypeOK, CallsAreYoung, Busy, TimesPassed, ReadsStand, NoneAdmitted,
     LastReadHolds, Drained, NoPins, EmptyAt
<1>5. CASE Tick
  BY <1>5 DEF Tick, TypeOK, CallState, DrainState, CallsAreYoung, Busy, TimesPassed, ReadsStand,
     NoneAdmitted, LastReadHolds, Drained, NoPins, EmptyAt, Unset
<1> QED BY <1>1, <1>2, <1>3, <1>4, <1>5

\* What a bounded call leaves alone.
LEMMA BoundedGives ==
  ASSUME NEW d \in DrainState, NEW pc \in {"sweep", "read"}, now \in Nat, d.start <= now
  PROVE  LET b == Bounded(d, pc) IN
         /\ b \in DrainState
         /\ b.pc \in {pc, "judge"} /\ b.count = Unset /\ b.flag = "unread"
         /\ b.start = d.start /\ b.readAt = d.readAt /\ b.emptySince = d.emptySince
<1>1. DEADLINE \in Nat /\ CALL_TIMEOUT \in Nat BY DrainAssumption DEF DEADLINE
<1>2. d.start \in Nat BY DEF DrainState
<1> DEFINE left == DEADLINE - Elapsed(d)
<1>3. CASE left <= 0
  <2>1. Bounded(d, pc) = Unread(d) BY <1>3 DEF Bounded
  <2> QED BY <2>1 DEF Unread, DrainState, Unset
<1>4. CASE ~(left <= 0)
  <2> DEFINE until == now + Smaller(left, CALL_TIMEOUT)
  <2>1. until \in Nat BY <1>1, <1>2, <1>4 DEF Elapsed, Smaller
  <2>2. Bounded(d, pc) = [d EXCEPT !.pc = pc, !.until = until, !.flag = "unread", !.count = Unset]
    BY <1>4 DEF Bounded
  <2> HIDE DEF until
  <2> QED BY <2>1, <2>2 DEF DrainState, Unset
<1> QED BY <1>3, <1>4

\* What a sleep leaves alone.
LEMMA SleepGives ==
  ASSUME NEW d \in DrainState, NEW time \in Int, now \in Nat
  PROVE  LET b == SleepTo(d, time) IN
         /\ b \in DrainState /\ b.pc = "sleep"
         /\ b.start = d.start /\ b.readAt = d.readAt /\ b.emptySince = d.emptySince
<1>1. POLL \in Nat BY DrainAssumption
<1>2. d.start \in Nat BY DEF DrainState
<1> DEFINE wait == time - Elapsed(d)
           until == now + (IF wait < 0 THEN 0 ELSE Smaller(wait, POLL))
<1>3. until \in Nat BY <1>1, <1>2 DEF Elapsed, Smaller
<1>4. SleepTo(d, time) = [d EXCEPT !.pc = "sleep", !.until = until] BY DEF SleepTo
<1> HIDE DEF until
<1> QED BY <1>3, <1>4 DEF DrainState

\* So does the script.
LEMMA DrainKeepsQuiet ==
  ASSUME QuietInv, DrainStep
  PROVE  QuietInv'
<1> USE DrainAssumption DEF QuietInv, flagVars, pinVars
<1> DEFINE Same == UNCHANGED <<pin, call, completed, maintenance, cleared, now>>
<1>0. drain \in DrainState /\ now \in Nat /\ DEADLINE \in Nat /\ drain.start \in Nat
  BY DEF TypeOK, DrainState, DEADLINE
<1> USE <1>0
<1>a. ASSUME Same, drain' \in DrainState, drain'.pc \notin {"off", "drained"},
             drain'.start = drain.start, drain'.emptySince = drain.emptySince,
             drain'.count = Unset, drain'.flag = "unread",
             drain'.readAt = drain.readAt \/ drain'.readAt = Elapsed(drain)
      PROVE  QuietInv'
  BY <1>a DEF TypeOK, DrainState, CallState, CallsAreYoung, Busy, TimesPassed, ReadsStand, NoneAdmitted,
     LastReadHolds, Drained, EmptyAt, Unset, Elapsed
<1>1. CASE StartDrain
  <2> DEFINE d == [drain EXCEPT !.start = now]
  <2>1. d \in DrainState /\ d.start = now /\ d.readAt = drain.readAt /\ d.emptySince = drain.emptySince
    BY DEF DrainState
  <2>2. drain' = Bounded(d, "sweep") /\ Same /\ drain.pc = "off" BY <1>1 DEF StartDrain
  <2> HIDE DEF d
  <2>3. /\ drain' \in DrainState /\ drain'.pc \in {"sweep", "judge"} /\ drain'.count = Unset
        /\ drain'.flag = "unread" /\ drain'.start = now /\ drain'.readAt = drain.readAt /\ drain'.emptySince = drain.emptySince
    BY <2>1, <2>2, BoundedGives
  <2>4. drain.readAt = 0 /\ drain.emptySince = Unset BY <2>2 DEF TimesPassed
  <2>5. TypeOK' BY <2>2, <2>3 DEF TypeOK
  <2>6. TimesPassed' BY <2>2, <2>3, <2>4 DEF TimesPassed, EmptyAt
  <2>7. CallsAreYoung' /\ ReadsStand' /\ NoneAdmitted' /\ Drained'
    BY <2>2, <2>3, <2>4 DEF CallsAreYoung, Busy, ReadsStand, NoneAdmitted, Drained
  <2>8. LastReadHolds' BY <2>3, <2>4 DEF LastReadHolds
  <2> QED BY <2>5, <2>6, <2>7, <2>8
<1>2. CASE SweepWrites
  <2>1. NoPins => NoPins' BY <1>2 DEF SweepWrites, Released, NoPins
  <2>2. pin' \in [Services -> Calls \cup {None}] BY <1>2 DEF SweepWrites, Released, TypeOK
  <2> QED BY <1>2, <2>1, <2>2 DEF SweepWrites, TypeOK, CallsAreYoung, Busy, TimesPassed, ReadsStand,
     NoneAdmitted, LastReadHolds, Drained, EmptyAt
<1>3. CASE SweepReturns
  <2> DEFINE d == [drain EXCEPT !.readAt = Elapsed(drain)]
  <2>1. /\ d \in DrainState /\ d.start = drain.start /\ d.readAt = Elapsed(drain)
        /\ d.emptySince = drain.emptySince
    BY DEF DrainState, Elapsed, TimesPassed
  <2>2. drain' = Bounded(d, "read") /\ Same BY <1>3 DEF SweepReturns
  <2>3. d.start <= now BY <2>1 DEF TimesPassed
  <2> HIDE DEF d
  <2> QED BY <2>1, <2>2, <2>3, <1>a, BoundedGives
<1>4. CASE ReadFlag
  BY <1>4 DEF ReadFlag, NoPins, TypeOK, DrainState, CallState, CallsAreYoung, Busy, TimesPassed, ReadsStand,
     NoneAdmitted, LastReadHolds, Drained, EmptyAt, Unset
<1>5. CASE ReadPins
  <2>1. LET n == Cardinality({s \in Services : pin[s] # None}) IN n \in Nat /\ (n = 0 => NoPins)
    BY CountZero
  <2> QED BY <1>5, <2>1 DEF ReadPins, NoPins, TypeOK, DrainState, CallState, CallsAreYoung, Busy, TimesPassed,
     ReadsStand, NoneAdmitted, LastReadHolds, Drained, EmptyAt, Unset
<1>6. CASE StatusReturns
  BY <1>6 DEF StatusReturns, NoPins, TypeOK, DrainState, CallState, CallsAreYoung, Busy, TimesPassed,
     ReadsStand, NoneAdmitted, LastReadHolds, Drained, EmptyAt, Unset
<1>7. CASE CallFails BY <1>7, <1>a DEF CallFails, Unread, DrainState, Unset
<1>8. CASE Judge
  <2>0. drain.pc = "judge" /\ Same BY <1>8 DEF Judge
  <2>1. CASE drain.count = 0
    <3>0. drain' = SeesEmpty(drain) BY <1>8, <2>1 DEF Judge
    <3>1. ~cleared => maintenance BY <2>0, <2>1 DEF ReadsStand, Unset
    <3>2. CASE Held(drain) >= QUIESCENCE
      <4>1. drain' = [drain EXCEPT !.pc = "drained"] BY <3>0, <3>2 DEF SeesEmpty
      <4>2. /\ drain.emptySince # Unset /\ drain.readAt - drain.emptySince >= QUIESCENCE
            /\ drain.readAt # 0 /\ drain.start + drain.readAt <= now
        BY <3>2 DEF Held, DrainState, Unset, TimesPassed
      <4>3. ~cleared => NoPins BY <2>0, <2>1, <4>2 DEF LastReadHolds
      <4>4. ~cleared => \A k \in Calls : call[k].stage # "checked"
        BY <4>2 DEF NoneAdmitted, CallsAreYoung, Busy, EmptyAt, DrainState, TypeOK, CallState, Unset
      <4> QED BY <2>0, <3>1, <4>1, <4>3, <4>4 DEF TypeOK, DrainState, CallsAreYoung, Busy, TimesPassed, ReadsStand,
         NoneAdmitted, LastReadHolds, Drained, NoPins, EmptyAt, Unset
    <3>3. CASE ~(Held(drain) >= QUIESCENCE)
      <4> DEFINE d == [drain EXCEPT !.emptySince = EmptyFrom(drain)]
      <4>1. /\ EmptyFrom(drain) \in Nat /\ drain.start + EmptyFrom(drain) <= now
            /\ drain.emptySince # Unset => EmptyFrom(drain) = drain.emptySince
            /\ drain.emptySince = Unset => drain.start + EmptyFrom(drain) = now
        BY DEF EmptyFrom, Elapsed, DrainState, TimesPassed, EmptyAt, Unset
      <4>2. d \in DrainState /\ d.start = drain.start /\ d.readAt = drain.readAt /\ d.emptySince = EmptyFrom(drain)
        BY <4>1 DEF DrainState
      <4>3. drain' = SleepTo(d, EmptyFrom(drain) + QUIESCENCE) BY <3>0, <3>3 DEF SeesEmpty
      <4> HIDE DEF d
      <4>4. /\ drain' \in DrainState /\ drain'.pc = "sleep" /\ drain'.start = drain.start
            /\ drain'.readAt = drain.readAt /\ drain'.emptySince = EmptyFrom(drain)
        <5>1. EmptyFrom(drain) + QUIESCENCE \in Int BY <4>1
        <5> HIDE DEF Same
        <5> QED BY <4>2, <4>3, <5>1, SleepGives
      <4>5. TypeOK' /\ TimesPassed' /\ ReadsStand' /\ LastReadHolds' /\ Drained'
        BY <2>0, <4>1, <4>4 DEF TypeOK, TimesPassed, ReadsStand, LastReadHolds, Drained, EmptyAt
      <4>6. NoneAdmitted'
        BY <2>0, <3>1, <4>1, <4>4 DEF NoneAdmitted, CallsAreYoung, Busy, EmptyAt
      <4> QED BY <2>0, <4>5, <4>6 DEF CallsAreYoung, Busy
    <3> QED BY <3>2, <3>3
  <2>2. CASE drain.count # 0
    <3> DEFINE d == [drain EXCEPT !.emptySince = Unset]
    <3>1. d \in DrainState /\ d.start = drain.start /\ d.readAt = drain.readAt /\ d.emptySince = Unset
      BY DEF DrainState, Unset
    <3>2. drain' = [drain EXCEPT !.pc = "failed", !.emptySince = Unset] \/ drain' = SleepTo(d, WINDOW)
      BY <1>8, <2>2 DEF Judge, SeesPins
    <3> HIDE DEF d
    <3>3. /\ drain' \in DrainState /\ drain'.pc \in {"failed", "sleep"} /\ drain'.start = drain.start
          /\ drain'.readAt = drain.readAt /\ drain'.emptySince = Unset
      <4>1. CASE drain' = [drain EXCEPT !.pc = "failed", !.emptySince = Unset] BY <4>1 DEF DrainState, Unset
      <4>2. CASE drain' = SleepTo(d, WINDOW)
        <5>1. WINDOW \in Int OBVIOUS
        <5> QED BY <3>1, <4>2, <5>1, SleepGives
      <4> QED BY <3>2, <4>1, <4>2
    <3> QED BY <2>0, <3>3 DEF TypeOK, CallsAreYoung, Busy, TimesPassed, ReadsStand, NoneAdmitted,
       LastReadHolds, Drained, EmptyAt
  <2> QED BY <2>1, <2>2
<1>9. CASE Wake
  <2>1. drain' = Bounded(drain, "sweep") /\ Same BY <1>9 DEF Wake
  <2>2. drain.start <= now BY DEF TimesPassed
  <2> QED BY <2>1, <2>2, <1>a, BoundedGives
<1> QED BY <1>1, <1>2, <1>3, <1>4, <1>5, <1>6, <1>7, <1>8, <1>9 DEF DrainStep

\* The invariant holds throughout.
LEMMA QuietAlways == Spec => []QuietInv
<1>1. QuietInv /\ [Next]_vars => QuietInv'
  <2> SUFFICES ASSUME QuietInv, [Next]_vars PROVE QuietInv' OBVIOUS
  <2>1. CASE Next BY <2>1, CallKeepsQuiet, OthersKeepQuiet, DrainKeepsQuiet DEF Next
  <2>2. CASE UNCHANGED vars
    BY <2>2 DEF vars, QuietInv, TypeOK, CallsAreYoung, Busy, TimesPassed, ReadsStand, NoneAdmitted,
       LastReadHolds, Drained, NoPins, EmptyAt
  <2> QED BY <2>1, <2>2
<1> QED BY <1>1, QuietInit, PTL DEF Spec

-----------------------------------------------------------------------------
\* Every variable of the drain model keeps its type.
THEOREM TypeCorrect == Spec => []TypeOK
<1>1. QuietInv => TypeOK BY DEF QuietInv
<1> QED BY <1>1, QuietAlways, PTL

\* A drain that exits 0 leaves no fork deploy, and none appears while the
\* flag stays set: for any number of services, runs and pin calls and every
\* window, quiescence, poll interval and call timeout, as long as a pin's
\* path is shorter than the quiescence.
THEOREM DrainIsSound == Spec => []DrainedStaysDrained
<1>1. QuietInv => DrainedStaysDrained BY DEF QuietInv, Drained, NoPins, DrainedStaysDrained
<1> QED BY <1>1, QuietAlways, PTL

-----------------------------------------------------------------------------
\* The sleeps of a drain that has not seen the set empty end by the window,
\* so it first sees it empty two call timeouts later at the latest, which
\* leaves the quiescence until the deadline.
LatestEmpty == WINDOW + 2 * CALL_TIMEOUT

Begun(d, t) ==
  /\ d.pc = "sweep" => t <= d.start + WINDOW + CALL_TIMEOUT
  /\ d.pc = "read" => t <= d.start + LatestEmpty
  /\ d.pc = "sleep" => t <= d.start + WINDOW

Paced ==
  /\ drain.pc \in {"sweep", "read", "sleep"} =>
       now <= drain.until /\ drain.until <= drain.start + DEADLINE
  /\ drain.emptySince = Unset => Begun(drain, drain.until)
  /\ drain.pc = "judge" => now <= drain.start + DEADLINE
  /\ drain.pc = "judge" /\ drain.emptySince = Unset => now <= drain.start + LatestEmpty
  /\ drain.emptySince # Unset => drain.emptySince <= LatestEmpty

PaceInv == QuietInv /\ Paced

\* The initial state satisfies the invariant of the deadline.
LEMMA PaceInit == Init => Paced
BY DrainAssumption DEF Init, Paced, Begun, Unset

\* A call begun in time ends in time.
LEMMA BoundedInTime ==
  ASSUME NEW d \in DrainState, NEW pc \in {"sweep", "read"}, now \in Nat, d.start <= now,
         now <= d.start + DEADLINE
  PROVE  LET b == Bounded(d, pc) IN
         b.pc = pc => now <= b.until /\ b.until <= b.start + DEADLINE /\ b.until <= now + CALL_TIMEOUT
<1>1. DEADLINE \in Nat /\ CALL_TIMEOUT \in Nat BY DrainAssumption DEF DEADLINE
<1>2. d.start \in Nat BY DEF DrainState
<1> DEFINE left == DEADLINE - Elapsed(d)
<1>3. CASE left <= 0
  <2>1. Bounded(d, pc) = Unread(d) BY <1>3 DEF Bounded
  <2> QED BY <2>1 DEF Unread, DrainState
<1>4. CASE ~(left <= 0)
  <2> DEFINE until == now + Smaller(left, CALL_TIMEOUT)
  <2>1. until \in Nat /\ now <= until /\ until <= d.start + DEADLINE /\ until <= now + CALL_TIMEOUT
    BY <1>1, <1>2, <1>4 DEF Elapsed, Smaller
  <2>2. Bounded(d, pc) = [d EXCEPT !.pc = pc, !.until = until, !.flag = "unread", !.count = Unset]
    BY <1>4 DEF Bounded
  <2> HIDE DEF until
  <2> QED BY <2>1, <2>2 DEF DrainState
<1> QED BY <1>3, <1>4

\* A sleep reaches to the time it aims at, or is none.
LEMMA SleepInTime ==
  ASSUME NEW d \in DrainState, NEW time \in Int, now \in Nat, d.start <= now
  PROVE  LET b == SleepTo(d, time) IN now <= b.until /\ (b.until <= d.start + time \/ b.until = now)
<1>1. POLL \in Nat BY DrainAssumption
<1>2. d.start \in Nat BY DEF DrainState
<1> QED BY <1>1, <1>2 DEF SleepTo, Elapsed, Smaller, DrainState

\* Every step keeps the invariant of the deadline.
LEMMA StepKeepsPace ==
  ASSUME PaceInv, QuietInv', [Next]_vars
  PROVE  Paced'
<1> USE DEF PaceInv
<1>0. /\ drain \in DrainState /\ now \in Nat /\ drain.start \in Nat /\ drain.until \in Nat
      /\ drain.start <= now /\ WINDOW \in Nat /\ QUIESCENCE \in Nat /\ CALL_TIMEOUT \in Nat
      /\ DEADLINE = WINDOW + QUIESCENCE + 2 * CALL_TIMEOUT
  BY DrainAssumption DEF QuietInv, TypeOK, DrainState, DEADLINE, TimesPassed
<1> USE <1>0
<1>1. CASE UNCHANGED <<drain, now>> BY <1>1 DEF Paced, Begun, LatestEmpty
<1>2. CASE Tick BY <1>2 DEF Tick, Paced, Begun, LatestEmpty, DrainState
<1>3. CASE UNCHANGED now /\ drain' \in DrainState /\ drain'.pc \in {"drained", "failed"}
                /\ (drain'.emptySince = drain.emptySince \/ drain'.emptySince = Unset)
  BY <1>3 DEF Paced, Begun, LatestEmpty
<1>4. CASE StartDrain
  <2> DEFINE d == [drain EXCEPT !.start = now]
  <2>1. d \in DrainState /\ d.start = now /\ d.emptySince = Unset
    BY <1>4 DEF StartDrain, DrainState, QuietInv, TimesPassed
  <2>2. drain' = Bounded(d, "sweep") /\ now' = now /\ now <= d.start + DEADLINE
    BY <1>4, <2>1 DEF StartDrain
  <2> HIDE DEF d
  <2>3. /\ drain'.pc \in {"sweep", "judge"} /\ drain'.start = d.start /\ drain'.emptySince = d.emptySince
        /\ drain'.until \in Nat
    <3>1. /\ drain' \in DrainState
          /\ drain'.pc \in {"sweep", "judge"} /\ drain'.start = d.start /\ drain'.emptySince = d.emptySince
      BY <2>1, <2>2, BoundedGives
    <3> QED BY <3>1 DEF DrainState
  <2>4. drain'.pc = "sweep" =>
          now <= drain'.until /\ drain'.until <= drain'.start + DEADLINE /\ drain'.until <= now + CALL_TIMEOUT
    BY <2>1, <2>2, BoundedInTime
  <2> QED BY <2>1, <2>2, <2>3, <2>4 DEF Paced, Begun, LatestEmpty, DrainState, Unset
<1>5. CASE SweepReturns
  <2> DEFINE d == [drain EXCEPT !.readAt = Elapsed(drain)]
  <2>1. d \in DrainState /\ d.start = drain.start /\ d.emptySince = drain.emptySince
    BY DEF DrainState, Elapsed
  <2>2. drain' = Bounded(d, "read") /\ now' = now /\ drain.pc = "sweep" /\ now <= d.start + DEADLINE
    BY <1>5, <2>1 DEF SweepReturns, Paced
  <2> HIDE DEF d
  <2>3. /\ drain'.pc \in {"read", "judge"} /\ drain'.start = d.start /\ drain'.emptySince = d.emptySince
        /\ drain'.until \in Nat
    <3>1. /\ drain' \in DrainState
          /\ drain'.pc \in {"read", "judge"} /\ drain'.start = d.start /\ drain'.emptySince = d.emptySince
      BY <2>1, <2>2, BoundedGives
    <3> QED BY <3>1 DEF DrainState
  <2>4. drain'.pc = "read" =>
          now <= drain'.until /\ drain'.until <= drain'.start + DEADLINE /\ drain'.until <= now + CALL_TIMEOUT
    BY <2>1, <2>2, BoundedInTime
  <2> QED BY <2>1, <2>2, <2>3, <2>4 DEF Paced, Begun, LatestEmpty, DrainState, Unset
<1>6. CASE ReadFlag \/ ReadPins
  <2>1. /\ drain'.pc = drain.pc /\ drain'.until = drain.until /\ drain'.start = drain.start
        /\ drain'.emptySince = drain.emptySince /\ now' = now
    BY <1>6 DEF ReadFlag, ReadPins, DrainState
  <2> QED BY <2>1 DEF Paced, Begun, LatestEmpty
<1>7. CASE StatusReturns BY <1>7 DEF StatusReturns, DrainState, Paced, Begun, LatestEmpty
<1>8. CASE CallFails BY <1>8 DEF CallFails, Unread, DrainState, Paced, Begun, LatestEmpty
<1>9. CASE Judge
  <2>0. drain.pc = "judge" /\ now' = now BY <1>9 DEF Judge
  <2>1. CASE drain.count = 0
    <3>1. EmptyFrom(drain) \in Nat /\ EmptyFrom(drain) <= LatestEmpty
      BY <2>0 DEF EmptyFrom, Elapsed, DrainState, Paced, LatestEmpty, Unset
    <3>2. CASE Held(drain) >= QUIESCENCE
      BY <1>3, <1>9, <2>0, <2>1, <3>2 DEF Judge, SeesEmpty, DrainState
    <3>3. CASE ~(Held(drain) >= QUIESCENCE)
      <4> DEFINE d == [drain EXCEPT !.emptySince = EmptyFrom(drain)]
                 time == EmptyFrom(drain) + QUIESCENCE
      <4>1. d \in DrainState /\ d.start = drain.start /\ d.emptySince = EmptyFrom(drain)
        BY <3>1 DEF DrainState
      <4>2. drain' = SleepTo(d, time) BY <1>9, <2>1, <3>3 DEF Judge, SeesEmpty
      <4>3. time \in Int /\ d.start + time <= drain.start + DEADLINE BY <3>1, <4>1 DEF LatestEmpty
      <4> HIDE DEF d, time
      <4>4. /\ drain' \in DrainState /\ drain'.pc = "sleep" /\ drain'.start = drain.start
            /\ drain'.emptySince = EmptyFrom(drain)
        BY <4>1, <4>2, <4>3, SleepGives
      <4>5. now <= drain'.until /\ (drain'.until <= d.start + time \/ drain'.until = now)
        BY <4>1, <4>2, <4>3, SleepInTime
      <4>6. now <= drain.start + DEADLINE /\ drain'.until \in Nat /\ time \in Int
        BY <2>0, <4>3, <4>4 DEF Paced, DrainState
      <4>7. drain'.until <= drain'.start + DEADLINE BY <4>1, <4>3, <4>4, <4>5, <4>6
      <4>8. drain'.emptySince # Unset BY <3>1, <4>4 DEF Unset
      <4> QED BY <2>0, <3>1, <4>4, <4>5, <4>7, <4>8 DEF Paced
    <3> QED BY <3>2, <3>3
  <2>2. CASE drain.count # 0
    <3>1. CASE Elapsed(drain) >= WINDOW
      BY <1>3, <1>9, <2>0, <2>2, <3>1 DEF Judge, SeesPins, DrainState, Unset
    <3>2. CASE ~(Elapsed(drain) >= WINDOW)
      <4> DEFINE d == [drain EXCEPT !.emptySince = Unset]
      <4>1. d \in DrainState /\ d.start = drain.start /\ d.emptySince = Unset BY DEF DrainState, Unset
      <4>2. drain' = SleepTo(d, WINDOW) BY <1>9, <2>2, <3>2 DEF Judge, SeesPins
      <4> HIDE DEF d
      <4>3. WINDOW \in Int OBVIOUS
      <4>4. /\ drain' \in DrainState /\ drain'.pc = "sleep" /\ drain'.start = drain.start
            /\ drain'.emptySince = Unset
        BY <4>1, <4>2, <4>3, SleepGives
      <4>5. now <= drain'.until /\ (drain'.until <= d.start + WINDOW \/ drain'.until = now)
        BY <4>1, <4>2, <4>3, SleepInTime
      <4> QED BY <2>0, <3>2, <4>1, <4>4, <4>5 DEF Paced, Begun, LatestEmpty, DrainState, Elapsed
    <3> QED BY <3>1, <3>2
  <2> QED BY <2>1, <2>2
<1>10. CASE Wake
  <2>1. drain' = Bounded(drain, "sweep") /\ now' = now /\ drain.pc = "sleep" BY <1>10 DEF Wake
  <2>2. now <= drain.start + DEADLINE BY <2>1 DEF Paced
  <2>3. /\ drain'.pc \in {"sweep", "judge"} /\ drain'.start = drain.start /\ drain'.emptySince = drain.emptySince
        /\ drain'.until \in Nat
    <3>1. /\ drain' \in DrainState
          /\ drain'.pc \in {"sweep", "judge"} /\ drain'.start = drain.start /\ drain'.emptySince = drain.emptySince
      BY <2>1, <2>2, BoundedGives
    <3> QED BY <3>1 DEF DrainState
  <2>4. drain'.pc = "sweep" =>
          now <= drain'.until /\ drain'.until <= drain'.start + DEADLINE /\ drain'.until <= now + CALL_TIMEOUT
    BY <2>1, <2>2, BoundedInTime
  <2> QED BY <2>1, <2>2, <2>3, <2>4 DEF Paced, Begun, LatestEmpty, DrainState, Unset
<1> QED
  <2>1. \A k \in Calls : CallStep(k) => UNCHANGED <<drain, now>>
    BY DEF CallStep, CheckDeployable, WritePin, Recheck, RevertPin, CallDies
  <2>2. (\E r \in Runs : RunCompletes(r) \/ RestoreRun(r)) \/ SetMaintenance \/ ClearMaintenance \/ SweepWrites
          => UNCHANGED <<drain, now>>
    BY DEF RunCompletes, RestoreRun, SetMaintenance, ClearMaintenance, SweepWrites
  <2> QED BY <1>1, <1>2, <1>4, <1>5, <1>6, <1>7, <1>8, <1>9, <1>10, <2>1, <2>2 DEF Next, DrainStep, vars

\* Every poll and every sleep of the script ends by --window plus
\* --quiescence plus two call timeouts, whatever the arguments: the bound
\* the workflow's own time limit is computed from.
THEOREM DrainKeepsDeadline == Spec => []WithinDeadline
<1>1. Init => PaceInv BY QuietInit, PaceInit DEF PaceInv
<1>2. PaceInv /\ QuietInv' /\ [Next]_vars => PaceInv' BY StepKeepsPace DEF PaceInv
<1>3. PaceInv => WithinDeadline
  BY DrainAssumption DEF PaceInv, QuietInv, TypeOK, DrainState, Paced, WithinDeadline, Elapsed, DEADLINE
<1> QED BY <1>1, <1>2, <1>3, QuietAlways, PTL DEF Spec
=============================================================================
