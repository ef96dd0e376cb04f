---------------------------- MODULE ImageLockCas ----------------------------
(***************************************************************************)
(* mutate_lock as the code runs it: read the lock, compute on the copy,    *)
(* then patch on condition that the resourceVersion read is still the live *)
(* one, and start over, a bounded number of times, when it is not.  The    *)
(* resourceVersion enters only through that comparison: `fresh` holds the  *)
(* processes whose copy carries the live version.                          *)
(***************************************************************************)
EXTENDS ImageLock

CONSTANTS
  MaxAttempts   \* LOCK_MUTATION_MAX_ATTEMPTS

ASSUME CasAssumption ==
  /\ MaxAttempts \in Nat \ {0}
  /\ None \notin Result

VARIABLES
  copy,      \* per process: None, or the result computed from the lock it read
  fresh,     \* processes whose copy was read at the live resourceVersion
  attempt    \* per process: the attempt it is on

casVars == <<lock, caller, record, run, now, pinCalls, copy, fresh, attempt>>

CasInit ==
  /\ Init
  /\ copy = [c \in Callers |-> None]
  /\ fresh = {}
  /\ attempt = [c \in Callers |-> 1]

\* The mutation is over, whatever came of it.
Finish(c, o) ==
  /\ Becomes(c, o)
  /\ copy' = [copy EXCEPT ![c] = None]
  /\ attempt' = [attempt EXCEPT ![c] = 1]

\* The mutator runs on the copy just read; if it raises, nothing is written.
ReadLock(c) ==
  /\ caller[c].op \in MutatorOps
  /\ copy[c] = None
  /\ LET out == Outcome(lock, caller[c]) IN
     IF out.writes
       THEN /\ copy' = [copy EXCEPT ![c] = out]
            /\ fresh' = fresh \cup {c}
            /\ UNCHANGED <<caller, attempt>>
       ELSE Finish(c, out.next) /\ UNCHANGED fresh
  /\ UNCHANGED <<lock, env>>

\* Mutant of Applied: the patch carries no resourceVersion test.
AppliedUntested(c, moved) ==
  /\ copy[c] # None
  /\ lock' = copy[c].lock
  /\ lock' # lock => moved
  /\ fresh' = IF moved THEN {} ELSE fresh \ {c}
  /\ UNCHANGED env

\* The server takes the patch.  A change of content moves the
\* resourceVersion; a rewrite of the same pins and images moves it too when
\* only a timestamp or a label of the object differs.
Applied(c, moved) ==
  /\ c \in fresh
  /\ lock' = copy[c].lock
  /\ lock' # lock => moved
  /\ fresh' = IF moved THEN {} ELSE fresh \ {c}
  /\ UNCHANGED env

PatchLock(c) == (\E moved \in BOOLEAN : Applied(c, moved)) /\ Finish(c, copy[c].next)

Retry(c) ==
  IF attempt[c] < MaxAttempts
    THEN /\ copy' = [copy EXCEPT ![c] = None]
         /\ attempt' = [attempt EXCEPT ![c] = @ + 1]
         /\ UNCHANGED caller
    ELSE Finish(c, Idle)

\* The test on the resourceVersion failed, or the object already existed.
LostRace(c) ==
  /\ copy[c] # None
  /\ c \notin fresh
  /\ Retry(c)
  /\ UNCHANGED <<lock, fresh, env>>

\* ReplyLost of ImageLock, with the attempts counted.
CasReplyLost(c) ==
  /\ LostReplies
  /\ Applied(c, TRUE)
  /\ \/ lock # None /\ Retry(c)
     \/ Finish(c, Idle)

\* Between mutations a process behaves as in ImageLock.
OtherStep(c) ==
  /\ copy[c] = None
  /\ \/ \E q \in PinRequests : CheckDeployable(c, q)
     \/ \E paired \in BOOLEAN : ResolveManifest(c, paired)
     \/ RecheckClear(c)
     \/ RecheckBlocked(c)
     \/ \E s \in Services, r \in Runs \cup {None} : StartReset(c, s, r)
     \/ SchemaServes(c)
     \/ SweepRead(c)
     \/ \E unreachable \in SUBSET Runs : SweepJudge(c, unreachable)
     \/ \E names \in RefreshSets, image \in Canonicals : StartRefresh(c, names, image)
     \/ \E image \in Canonicals : StartApply(c, image)
     \/ \E s \in Services, repo \in Repos \cup {None} : StartProject(c, s, repo)
  /\ UNCHANGED <<copy, fresh, attempt>>

CasGiveUp(c) ==
  /\ caller[c].op # "idle"
  /\ Finish(c, Idle)
  /\ fresh' = fresh \ {c}
  /\ UNCHANGED <<lock, env>>

CasNext ==
  \/ \E c \in Callers :
       ReadLock(c) \/ PatchLock(c) \/ LostRace(c) \/ CasReplyLost(c) \/ OtherStep(c) \/ CasGiveUp(c)
  \/ EnvironmentStep /\ UNCHANGED <<copy, fresh, attempt>>

CasSpec == CasInit /\ [][CasNext]_casVars

(***************************************************************************)
(* Properties                                                              *)
(***************************************************************************)

\* Every mutate_lock takes effect at one instant, on the lock as it is at
\* that instant: two writers never lose one another's change, and a call
\* that ran out of attempts, all its replies received, changed nothing.  The abstract specification is
\* ImageLock's, over the same variables.
MutationsAreAtomic == Spec
=============================================================================
