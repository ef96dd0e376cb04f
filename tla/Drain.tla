------------------------------- MODULE Drain -------------------------------
(***************************************************************************)
(* The drain a lifecycle run performs once the maintenance flag is set     *)
(* (scripts/drain_ephemeral_pins.sh), beside the pin calls that read the   *)
(* flag before it was set.  A pin call is its path in pins.py: the         *)
(* deployability check, the lock write, the recheck and the rollback.      *)
(* Only ephemeral pins are here: operator pins never hold the drain.       *)
(***************************************************************************)
EXTENDS Integers, FiniteSets

CONSTANTS
  Services, Calls, Runs,
  None,
  ServiceOf,     \* the service a pin call names
  RunOf,         \* the workflow run it belongs to
  WINDOW, QUIESCENCE, POLL, CALL_TIMEOUT,   \* the script's arguments
  PinPath,       \* longest path from a deployability check to its recheck
  MaxStart       \* bound on when the drain starts

\* The workflows choose QUIESCENCE "longer than a pin's slowest path from
\* its deployability check to its maintenance recheck" (env-reset.yml).
ASSUME DrainAssumption ==
  /\ None \notin Calls
  /\ ServiceOf \in [Calls -> Services] /\ RunOf \in [Calls -> Runs]
  /\ IsFiniteSet(Services)
  /\ WINDOW \in Nat /\ QUIESCENCE \in Nat /\ PinPath \in Nat /\ MaxStart \in Nat
  /\ POLL \in Nat \ {0} /\ CALL_TIMEOUT \in Nat \ {0}
  /\ PinPath < QUIESCENCE

VARIABLES
  pin,           \* per service, the call whose ephemeral pin the lock holds
  call,          \* each pin call: where it is, when it checked, what it replaced
  completed,     \* the workflow runs that are over
  maintenance,   \* the flag
  cleared,       \* the flag was cleared after the drain started
  drain,         \* the drain script
  now            \* the clock

vars == <<pin, call, completed, maintenance, cleared, drain, now>>
pinVars == <<pin, call, completed>>
flagVars == <<maintenance, cleared>>

DEADLINE == WINDOW + QUIESCENCE + 2 * CALL_TIMEOUT
Unset == -1

CallState ==
  [stage : {"free", "checked", "written", "undo", "over"}, since : Nat, prior : Calls \cup {None}]

DrainState ==
  [pc : {"off", "sweep", "read", "judge", "sleep", "drained", "failed"},
   start : Nat,        \* START
   until : Nat,        \* when the call is killed or the sleep ends
   flag : {"unread", "set", "clear"}, count : Nat \cup {Unset},   \* what status read
   readAt : Nat,       \* read_at
   emptySince : Nat \cup {Unset}]   \* EMPTY_SINCE

TypeOK ==
  /\ pin \in [Services -> Calls \cup {None}]
  /\ call \in [Calls -> CallState]
  /\ completed \in SUBSET Runs
  /\ maintenance \in BOOLEAN /\ cleared \in BOOLEAN
  /\ drain \in DrainState
  /\ now \in Nat

Init ==
  /\ pin = [s \in Services |-> None]
  /\ call = [k \in Calls |-> [stage |-> "free", since |-> 0, prior |-> None]]
  /\ completed = {}
  /\ maintenance = FALSE /\ cleared = FALSE
  /\ drain = [pc |-> "off", start |-> 0, until |-> 0, flag |-> "unread", count |-> Unset,
              readAt |-> 0, emptySince |-> Unset]
  /\ now = 0

(***************************************************************************)
(* Pin calls                                                               *)
(***************************************************************************)
CheckDeployable(k) ==
  /\ call[k].stage = "free"
  /\ ~maintenance
  /\ call' = [call EXCEPT ![k].stage = "checked", ![k].since = now]
  /\ UNCHANGED <<pin, completed, flagVars, drain, now>>

WritePin(k) ==
  /\ call[k].stage = "checked"
  /\ pin' = [pin EXCEPT ![ServiceOf[k]] = k]
  /\ call' = [call EXCEPT ![k].stage = "written", ![k].prior = pin[ServiceOf[k]]]
  /\ UNCHANGED <<completed, flagVars, drain, now>>

Recheck(k) ==
  /\ call[k].stage = "written"
  /\ call' = [call EXCEPT ![k].stage = IF maintenance THEN "undo" ELSE "over"]
  /\ UNCHANGED <<pin, completed, flagVars, drain, now>>

\* The rollback puts back what the write replaced, if its pin still stands.
RevertPin(k) ==
  /\ call[k].stage = "undo"
  /\ pin' = IF pin[ServiceOf[k]] = k THEN [pin EXCEPT ![ServiceOf[k]] = call[k].prior] ELSE pin
  /\ call' = [call EXCEPT ![k].stage = "over"]
  /\ UNCHANGED <<completed, flagVars, drain, now>>

\* Refused, failed, or the runner was lost: whatever it wrote stays.
CallDies(k) ==
  /\ call[k].stage \in {"checked", "written", "undo"}
  /\ call' = [call EXCEPT ![k].stage = "over"]
  /\ UNCHANGED <<pin, completed, flagVars, drain, now>>

RunCompletes(r) ==
  /\ r \notin completed
  /\ completed' = completed \cup {r}
  /\ UNCHANGED <<pin, call, flagVars, drain, now>>

Released(runs) ==
  [s \in Services |-> IF pin[s] # None /\ RunOf[pin[s]] \in runs THEN None ELSE pin[s]]

\* The lane's own restore step: `reset --if-run`.
RestoreRun(r) ==
  /\ pin' = Released({r})
  /\ UNCHANGED <<call, completed, flagVars, drain, now>>

(***************************************************************************)
(* The maintenance flag                                                    *)
(***************************************************************************)
SetMaintenance ==
  /\ maintenance' = TRUE
  /\ UNCHANGED <<pinVars, cleared, drain, now>>

ClearMaintenance ==
  /\ maintenance
  /\ maintenance' = FALSE
  /\ cleared' = (cleared \/ drain.pc # "off")
  /\ UNCHANGED <<pinVars, drain, now>>

(***************************************************************************)
(* The script                                                              *)
(***************************************************************************)

Elapsed(d) == now - d.start
Smaller(a, b) == IF a < b THEN a ELSE b

\* The call's outcome is a problem, so nothing was read.
Unread(d) == [d EXCEPT !.pc = "judge", !.flag = "unread", !.count = Unset]

\* bounded: a call gets at most what is left before the deadline, and does
\* not run once nothing is.
Bounded(d, pc) ==
  LET left == DEADLINE - Elapsed(d) IN
  IF left <= 0 THEN Unread(d)
  ELSE [d EXCEPT !.pc = pc, !.until = now + Smaller(left, CALL_TIMEOUT),
                 !.flag = "unread", !.count = Unset]

StartDrain ==
  /\ drain.pc = "off"
  /\ drain' = Bounded([drain EXCEPT !.start = now], "sweep")
  /\ UNCHANGED <<pinVars, flagVars, now>>

\* The sweep's lock write.  It lands before the wait on Flux, in which the
\* call may be killed.
SweepWrites ==
  /\ drain.pc = "sweep"
  /\ pin' = Released(completed)
  /\ UNCHANGED <<call, completed, flagVars, drain, now>>

SweepReturns ==
  /\ drain.pc = "sweep"
  /\ drain' = Bounded([drain EXCEPT !.readAt = Elapsed(drain)], "read")
  /\ UNCHANGED <<pinVars, flagVars, now>>

\* `spi status` reads the flag and the lock in one concurrent wave.
ReadFlag ==
  /\ drain.pc = "read" /\ drain.flag = "unread"
  /\ drain' = [drain EXCEPT !.flag = IF maintenance THEN "set" ELSE "clear"]
  /\ UNCHANGED <<pinVars, flagVars, now>>

ReadPins ==
  /\ drain.pc = "read" /\ drain.count = Unset
  /\ drain' = [drain EXCEPT !.count = Cardinality({s \in Services : pin[s] # None})]
  /\ UNCHANGED <<pinVars, flagVars, now>>

\* Mutant of StatusReturns: the flag is not looked at.
StatusReturnsAny ==
  /\ drain.pc = "read" /\ drain.flag # "unread" /\ drain.count # Unset
  /\ drain' = [drain EXCEPT !.pc = "judge"]
  /\ UNCHANGED <<pinVars, flagVars, now>>

StatusReturns ==
  /\ drain.pc = "read" /\ drain.flag # "unread" /\ drain.count # Unset
  /\ drain' = [drain EXCEPT !.pc = IF drain.flag = "set" THEN "judge" ELSE "failed"]
  /\ UNCHANGED <<pinVars, flagVars, now>>

\* A sweep or a status read that fails, or is killed.
CallFails ==
  /\ drain.pc \in {"sweep", "read"}
  /\ drain' = Unread(drain)
  /\ UNCHANGED <<pinVars, flagVars, now>>

SleepTo(d, time) ==
  LET wait == time - Elapsed(d) IN
  [d EXCEPT !.pc = "sleep", !.until = now + (IF wait < 0 THEN 0 ELSE Smaller(wait, POLL))]

\* Mutant of EmptyFrom: counted from before the read.
EmptyFromRead(d) == IF d.emptySince = Unset THEN d.readAt ELSE d.emptySince

\* The interval begins after the read that first saw the set empty ...
EmptyFrom(d) == IF d.emptySince = Unset THEN Elapsed(d) ELSE d.emptySince

\* Mutant of Held: counted to after the latest read.
HeldToNow(d) == IF d.emptySince = Unset THEN 0 ELSE Elapsed(d) - d.emptySince

\* ... and ends before the latest read.
Held(d) == IF d.emptySince = Unset THEN 0 ELSE d.readAt - d.emptySince

SeesEmpty(d) ==
  IF Held(d) >= QUIESCENCE THEN [d EXCEPT !.pc = "drained"]
  ELSE SleepTo([d EXCEPT !.emptySince = EmptyFrom(d)], EmptyFrom(d) + QUIESCENCE)

\* Mutant of SeesPins: a window that runs out does not end the drain.
SeesPinsForever(d) == SleepTo([d EXCEPT !.emptySince = Unset], Elapsed(d) + POLL)

SeesPins(d) ==
  IF Elapsed(d) >= WINDOW THEN [d EXCEPT !.pc = "failed", !.emptySince = Unset]
  ELSE SleepTo([d EXCEPT !.emptySince = Unset], WINDOW)

Judge ==
  /\ drain.pc = "judge"
  /\ drain' = IF drain.count = 0 THEN SeesEmpty(drain) ELSE SeesPins(drain)
  /\ UNCHANGED <<pinVars, flagVars, now>>

Wake ==
  /\ drain.pc = "sleep" /\ now >= drain.until
  /\ drain' = Bounded(drain, "sweep")
  /\ UNCHANGED <<pinVars, flagVars, now>>

(***************************************************************************)
(* Time.  A running call is killed when its time is up, the script's own   *)
(* steps take none, and a pin call is past its recheck, or dead, PinPath   *)
(* after its check.                                                        *)
(***************************************************************************)
Tick ==
  /\ now <= MaxStart + DEADLINE
  /\ drain.pc \notin {"drained", "failed"}   \* nothing reads the clock any more
  /\ drain.pc = "off" => now < MaxStart
  /\ drain.pc \in {"sweep", "read", "sleep"} => now < drain.until
  /\ drain.pc # "judge"
  /\ \A k \in Calls : call[k].stage \in {"checked", "written"} => now < call[k].since + PinPath
  /\ now' = now + 1
  /\ UNCHANGED <<pinVars, flagVars, drain>>

CallStep(k) == CheckDeployable(k) \/ WritePin(k) \/ Recheck(k) \/ RevertPin(k) \/ CallDies(k)

DrainStep ==
  StartDrain \/ SweepWrites \/ SweepReturns \/ ReadFlag \/ ReadPins \/ StatusReturns \/ CallFails
    \/ Judge \/ Wake

Next ==
  \/ \E k \in Calls : CallStep(k)
  \/ \E r \in Runs : RunCompletes(r) \/ RestoreRun(r)
  \/ SetMaintenance \/ ClearMaintenance
  \/ DrainStep
  \/ Tick

Spec == Init /\ [][Next]_vars

\* Time passes, a call that is killed or answers ends, the shell goes on
\* with what follows, and a pin call past its check does not stop for ever.
FairSpec ==
  /\ Spec
  /\ WF_vars(Tick) /\ WF_vars(CallFails) /\ WF_vars(Judge) /\ WF_vars(Wake)
  /\ \A k \in Calls : WF_vars(CallDies(k))

(***************************************************************************)
(* Properties                                                              *)
(***************************************************************************)

\* Exit 0 means what the lifecycle run takes it to mean: as long as the
\* flag stays set no fork deploy is left and none appears, however slow the
\* pin calls that read the flag clear, whatever their rollbacks bring back
\* and however the sweeps and reads overlap them.
DrainedStaysDrained ==
  drain.pc = "drained" /\ ~cleared => \A s \in Services : pin[s] = None

\* No poll and no sleep runs past the deadline the workflow's time limit is
\* computed from, though a sleep is not cut at it ("no poll runs past that
\* deadline").
WithinDeadline ==
  drain.pc \in {"sweep", "read", "judge", "sleep"} => Elapsed(drain) <= DEADLINE

\* The drain gives an answer, whatever its calls do.
DrainEnds == drain.pc \notin {"off", "drained", "failed"} ~> drain.pc \in {"drained", "failed"}
=============================================================================
