---------------------------- MODULE MCImageLock ----------------------------
(* Instances of ImageLock: one schema/loader pair, borrowed by two workflow *)
(* runs of one repository and pinned locally by an operator.                *)
EXTENDS ImageLock, TLC

CONSTANTS schema, loader, forkA, forkB, local, runA, runB, repo

PinCall(service, image, r) ==
  [service |-> service, image |-> image, run |-> r, ephemeral |-> r # None,
   local |-> r = None, paired |-> FALSE]

RunCalls == {PinCall(schema, forkA, runA), PinCall(schema, forkB, runB)}
AllCalls == RunCalls \cup {PinCall(schema, local, None)}

OneRepo == [r \in {runA, runB} |-> repo]

\* The two runs borrow in the same way, each with its own build.
RunsSwapped ==
  [v \in {runA, runB, forkA, forkB} |->
     CASE v = runA -> runB [] v = runB -> runA [] v = forkA -> forkB [] v = forkB -> forkA]

Symmetry == Permutations(Callers) \cup Permutations(Canonicals) \cup {RunsSwapped}

\* The steps of processes of which none but runs and the sweep write the lock:
\* with Kinds = {"pin", "sweep"} the others of ProcessStep are disabled.
BorrowStep(c) ==
  \/ \E q \in PinRequests : CheckDeployable(c, q)
  \/ \E paired \in BOOLEAN : ResolveManifest(c, paired)
  \/ WritePin(c) \/ RecheckClear(c) \/ RecheckBlocked(c) \/ RevertPin(c)
  \/ SweepRead(c) \/ SweepStale(c) \/ GiveUp(c)
  \/ \E unreachable \in SUBSET Runs : SweepJudge(c, unreachable)

BorrowNext == (\E c \in Callers : BorrowStep(c)) \/ EnvironmentStep

BorrowSpec == Init /\ [][BorrowNext]_vars /\ Fairness
=============================================================================
