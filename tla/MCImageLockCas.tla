---------------------------- MODULE MCImageLockCas ----------------------------
(* Instances of ImageLockCas over the pair and the runs of MCImageLock.      *)
EXTENDS ImageLockCas, TLC

CONSTANTS schema, loader, forkA, forkB, local, runA, runB, repo

PinCall(service, image, r) ==
  [service |-> service, image |-> image, run |-> r, ephemeral |-> r # None,
   local |-> r = None, paired |-> FALSE]

RunCalls == {PinCall(schema, forkA, runA), PinCall(schema, forkB, runB)}
AllCalls == RunCalls \cup {PinCall(schema, local, None)}

OneRepo == [r \in {runA, runB} |-> repo]

\* The two runs borrow in the same way, each with its own build.
RunsSwapped ==
  [v \in {runA, runB, forkA, forkB} |->
     CASE v = runA -> runB [] v = runB -> runA [] v = forkA -> forkB [] v = forkB -> forkA]

Symmetry == Permutations(Callers) \cup Permutations(Canonicals) \cup {RunsSwapped}
=============================================================================
