----------------------------- MODULE Convergence -----------------------------
(***************************************************************************)
(* The verdict `spi status` and the deployability guard draw from one read  *)
(* of the Flux Kustomizations (collect_kustomization_readiness and its      *)
(* helpers, src/src/spi/status.py): which of them converge, and which one   *)
(* is named as the blocker when some do not.                                *)
(*                                                                          *)
(* The code walks dependsOn depth first with a memo and a trail; the        *)
(* properties compare the walk with a fixed point.                          *)
(***************************************************************************)
EXTENDS Naturals, Sequences, FiniteSets, SequencesExt, TLC

CONSTANTS
  KsNames,       \* the Kustomizations of the namespace, in listing order
  Elsewhere,     \* a dependency outside the listed set
  NoBlocker, NoVerdict

VARIABLES
  listing,       \* one answer of the API server
  verdict        \* what was made of it

convergenceVars == <<listing, verdict>>

-----------------------------------------------------------------------------
KsReasons == {"Ready", "Progressing", "ProgressingWithRetry", "DependencyNotReady", "Unset"}

\* A Kustomization as the listing shows it: `Ready` stands for the condition,
\* `Unset` for one that has no condition yet, the others are reasons.
KsState == [reason : KsReasons, depends : Seq(ToSet(KsNames) \union {Elsewhere}), gating : BOOLEAN]

Waits(states, name) == states[name].reason = "DependencyNotReady"

\* Mutant of Moving: anything that is not waiting progresses.
MovingOrRetried(state) == state.reason \in {"Ready", "Progressing", "ProgressingWithRetry"}

\* ProgressingWithRetry follows a failed attempt, so only plain Progressing counts.
Moving(state) == state.reason \in {"Ready", "Progressing"}

\* A name outside the listed set, or met again on the way to itself.
Unresolved(states, name, trail) == name \notin DOMAIN states \/ name \in trail

RECURSIVE Visit(_, _, _, _)

\* `converges` of _converging_names: the memo after it looked at `name`.  The
\* fold stops at the first dependency that does not converge, as `all` does.
Visit(states, name, trail, memo) ==
  IF name \in DOMAIN memo THEN memo
  ELSE IF Unresolved(states, name, trail) THEN (name :> FALSE) @@ memo
  ELSE IF Moving(states[name]) THEN (name :> TRUE) @@ memo
  ELSE IF ~Waits(states, name) THEN (name :> FALSE) @@ memo
  ELSE LET step(acc, dep) ==
             IF ~acc.all THEN acc
             ELSE LET m == Visit(states, dep, trail \union {name}, acc.memo)
                  IN  [all |-> m[dep], memo |-> m]
           walked == FoldLeft(step, [all |-> TRUE, memo |-> memo], states[name].depends)
       IN  (name :> walked.all) @@ walked.memo

\* _converging_names: one memo for all of them.
Converging(states) ==
  LET look(memo, name) == Visit(states, name, {}, memo)
      memo == FoldLeft(look, <<>>, SelectSeq(KsNames, LAMBDA n : n \in DOMAIN states))
  IN  {name \in DOMAIN states : memo[name]}

RECURSIVE Behind(_, _, _, _, _)

\* _failure_behind: breadth first over what the stuck one waits on.
Behind(states, stuck, converging, pending, seen) ==
  IF pending = <<>> THEN stuck
  ELSE LET name == Head(pending)
       IN  IF name \notin DOMAIN states \/ name \in seen \/ name \in converging
             THEN Behind(states, stuck, converging, Tail(pending), seen)
           ELSE IF ~Waits(states, name) THEN name
           ELSE Behind(states, stuck, converging, Tail(pending) \o states[name].depends,
                       seen \union {name})

\* Mutant of FailureBehind: the first dependency that does not converge.
FirstBehind(states, stuck, converging) ==
  LET held == SelectSeq(states[stuck].depends,
                        LAMBDA n : n \in DOMAIN states /\ n \notin converging)
  IN  IF ~Waits(states, stuck) \/ held = <<>> THEN stuck ELSE Head(held)

FailureBehind(states, stuck, converging) == Behind(states, stuck, converging, <<stuck>>, {})

\* collect_kustomization_readiness over one listing.
ReadinessOf(states) ==
  LET gating == SelectSeq(KsNames, LAMBDA n : n \in DOMAIN states /\ states[n].gating)
      converging == Converging(states)
      stuck == SelectSeq(gating, LAMBDA n : n \notin converging)
      ready == gating # <<>> /\ \A n \in ToSet(gating) : states[n].reason = "Ready"
      code == IF gating = <<>> THEN "no_kustomizations"
              ELSE IF ready THEN "ready"
              ELSE IF stuck # <<>> THEN "kustomization_not_ready" ELSE "kustomization_converging"
  IN  [code |-> code,
       blocker |-> IF code = "kustomization_not_ready"
                     THEN FailureBehind(states, Head(stuck), converging) ELSE NoBlocker]

Blocked(v) == v.code \in {"no_kustomizations", "kustomization_not_ready"}

-----------------------------------------------------------------------------
\* Up to two dependencies, repeated or not, of a Kustomization that waits;
\* what the others depend on is never looked at.
SomeStates ==
  [reason : {"Ready", "Progressing", "ProgressingWithRetry"}, depends : {<<>>}, gating : BOOLEAN]
    \union
  [reason : {"DependencyNotReady"}, gating : BOOLEAN,
   depends : UNION {[1..n -> ToSet(KsNames) \union {Elsewhere}] : n \in 0..2}]

ConvergenceInit ==
  /\ listing \in [ToSet(KsNames) -> SomeStates]
  /\ \A name \in ToSet(KsNames) : listing[name].gating \/ name = KsNames[1]
  /\ verdict = NoVerdict

CollectReadiness ==
  /\ verdict' = ReadinessOf(listing)
  /\ UNCHANGED listing

ConvergenceNext == CollectReadiness

-----------------------------------------------------------------------------
ConvergenceTypeOK ==
  /\ DOMAIN listing \subseteq ToSet(KsNames)
  /\ \A name \in DOMAIN listing : listing[name] \in KsState
  /\ verdict # NoVerdict => verdict.blocker \in ToSet(KsNames) \union {NoBlocker}

\* The least set that holds what is Ready or reconciling, and what waits
\* only on members of the set.
Settles(states, X) ==
  {n \in DOMAIN states : IF Waits(states, n) THEN ToSet(states[n].depends) \subseteq X
                          ELSE states[n].reason \in {"Ready", "Progressing"}}
LeastSettled(states) ==
  {n \in DOMAIN states : \A X \in SUBSET DOMAIN states : Settles(states, X) \subseteq X => n \in X}

\* "A lock write still converging through Flux never reads as a broken
\* environment", and a gating Kustomization that failed, waits on one that
\* failed, on one that is not listed, or on itself, always does: the memoised
\* walk finds exactly the fixed point (_converging_names).
BlockedExactlyWhenBroken ==
  verdict # NoVerdict =>
    (Blocked(verdict) <=> \E n \in DOMAIN listing : listing[n].gating /\ n \notin LeastSettled(listing))

\* What a Kustomization waits on, directly or not, itself included.
WaitsOn(states, n) ==
  {m \in DOMAIN states :
     \A X \in SUBSET DOMAIN states :
       n \in X /\ (\A p \in X : Waits(states, p) =>
                     ToSet(states[p].depends) \intersect DOMAIN states \subseteq X)
         => m \in X}

FailedNames == {n \in DOMAIN listing : listing[n].reason = "ProgressingWithRetry"}

\* The reason an operator is shown names the Kustomization that failed when
\* there is one behind the first that is stuck, and else that one, whose
\* dependency is missing or in a cycle (_failure_behind).
BlockerNamesFailure ==
  verdict # NoVerdict /\ verdict.blocker # NoBlocker =>
    LET gating == SelectSeq(KsNames, LAMBDA n : listing[n].gating)
        stuck == Head(SelectSeq(gating, LAMBDA n : n \notin LeastSettled(listing)))
        failed == WaitsOn(listing, stuck) \intersect FailedNames
    IN  IF failed = {} THEN verdict.blocker = stuck ELSE verdict.blocker \in failed

\* The verdict on a listing is exact, and so is the reason it names.
VerdictIsExact == BlockedExactlyWhenBroken /\ BlockerNamesFailure
=============================================================================
