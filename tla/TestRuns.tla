------------------------------ MODULE TestRuns ------------------------------
(***************************************************************************)
(* A run of `spi test` (testing.py) or of the core DAG smoke               *)
(* (dag_testing.py) against services whose images others borrow, restore   *)
(* and refresh meanwhile.  Every kubectl read is a step of its own.        *)
(***************************************************************************)
EXTENDS Integers, FiniteSets

CONSTANTS
  TestTargets,       \* services: the DAG smoke judges all, a suite one
  Published,    \* images the forks publish
  Borrows,       \* images of fork runs
  FirstImage,
  NoTest,
  MaxChanges,    \* bound on what others do to the environment
  TwoRollouts,   \* a template can change twice between two reads of a check
  StackReturns   \* the stack can go back to a commit that it has run before

TestImages == Published \cup Borrows

ASSUME TestAssumption ==
  /\ TestTargets # {} /\ FirstImage \in Published /\ Published \cap Borrows = {}
  /\ MaxChanges \in Nat /\ {TwoRollouts, StackReturns} \subseteq BOOLEAN

VARIABLES
  entry,       \* the image lock's entry of a service
  borrowed,    \* services under an ephemeral pin
  template,    \* the image in the Deployment's pod template
  revision,    \* the Deployment's revision
  pods,        \* the images of its running pods
  underMaintenance, \* the deploy record's flag
  stack,       \* the stack commit the environment runs
  dag,         \* the state of the smoke's workflow run
  stored,      \* the smoke's record is stored
  container,   \* the suite's container is there
  test,        \* the run, or NoTest
  served,      \* ghost: what was there while the run's tests executed
  stacks,      \* ghost: stack commits while they executed
  changes      \* ghost

servingVars == <<entry, borrowed, template, revision, pods, underMaintenance, stack, changes>>
testVars == <<entry, borrowed, template, revision, pods, underMaintenance, stack, dag, stored,
              container, test, served, stacks, changes>>

TestSteps == {"deployable", "facts", "lock", "target", "live", "deployment", "running", "revision",
              "start", "suite", "echo", "ingest", "record", "copy", "judge", "stillDeployable",
              "sameStack", "result"}

TestTypeOK ==
  /\ entry \in [TestTargets -> TestImages] /\ template \in [TestTargets -> TestImages]
  /\ borrowed \subseteq TestTargets
  /\ \A s \in borrowed : entry[s] \in Borrows
  /\ pods \in [TestTargets -> SUBSET TestImages] /\ \A s \in TestTargets : pods[s] # {}
  /\ revision \in [TestTargets -> 0 .. MaxChanges] /\ stack \in 1 .. MaxChanges + 1
  /\ changes \in 0 .. MaxChanges
  /\ {underMaintenance, stored, container} \subseteq BOOLEAN
  /\ dag \in {"none", "active", "success", "failed"}
  /\ served \subseteq TestTargets \X TestImages /\ stacks \subseteq 1 .. MaxChanges + 1
  /\ test # NoTest =>
       /\ test.at \in TestSteps /\ test.smoke \in BOOLEAN /\ test.after \in BOOLEAN
       /\ test.services \subseteq TestTargets /\ test.left \subseteq test.services
       /\ test.expected \in [TestTargets -> TestImages] /\ test.revision \in [TestTargets -> 0 .. MaxChanges]
       /\ test.stack \in 0 .. MaxChanges + 1 /\ {test.overdue, test.moved} \subseteq BOOLEAN
       /\ test.verdict \in {"none", "passed", "failed"}

TestInit ==
  /\ entry = [s \in TestTargets |-> FirstImage] /\ template = entry
  /\ borrowed = {} /\ revision = [s \in TestTargets |-> 0]
  /\ pods = [s \in TestTargets |-> {FirstImage}]
  /\ underMaintenance = FALSE /\ stack = 1
  /\ dag = "none" /\ stored = FALSE /\ container = FALSE
  /\ test = NoTest /\ served = {} /\ stacks = {} /\ changes = 0

TestAt(step) == test # NoTest /\ test.at = step

TestGoes(step) == test' = [test EXCEPT !.at = step]

\* SuiteNotRun or VerifyError: no verdict of the suite is reported.
TestRefused == test' = NoTest /\ served' = {} /\ stacks' = {}

\* What collect_running_version makes of an object it cannot read.
UnreadStack == 0

\* The tests execute against the services from their start to their verdict.
Executing == test # NoTest /\ test.at \in {"suite", "echo", "ingest", "record", "copy"}

-----------------------------------------------------------------------------
(* The run.                                                                *)

TestStarts(services, smoke) ==
  /\ test = NoTest
  /\ test' = [at |-> "deployable", smoke |-> smoke, after |-> FALSE, services |-> services,
              left |-> services, expected |-> [s \in TestTargets |-> FirstImage],
              revision |-> [s \in TestTargets |-> 0], stack |-> UnreadStack, overdue |-> FALSE,
              moved |-> FALSE, verdict |-> "none"]
  /\ dag' = "none" /\ stored' = FALSE /\ container' = FALSE
  /\ UNCHANGED servingVars /\ UNCHANGED <<served, stacks>>

\* A check that only reads and either goes on or refuses.
ReadStep(step, holds, next) ==
  /\ TestAt(step)
  /\ \/ holds /\ TestGoes(next) /\ UNCHANGED <<served, stacks>>
     \/ ~holds /\ TestRefused
  /\ UNCHANGED servingVars /\ UNCHANGED <<dag, stored, container>>

TestDeployable == ReadStep("deployable", ~underMaintenance, "facts")

\* collect_running_version: a read that failed is an empty commit.
StackReads == {stack, UnreadStack}

ReadFacts ==
  /\ TestAt("facts")
  /\ \E read \in StackReads : test' = [test EXCEPT !.at = "lock", !.stack = read]
  /\ UNCHANGED servingVars /\ UNCHANGED <<dag, stored, container, served, stacks>>

\* A borrowed service is refused; else its entry is what the run is judged by.
CaptureTargets ==
  /\ TestAt("lock")
  /\ IF test.services \cap borrowed # {} THEN TestRefused
     ELSE /\ test' = [test EXCEPT !.at = "target", !.expected = entry]
          /\ UNCHANGED <<served, stacks>>
  /\ UNCHANGED servingVars /\ UNCHANGED <<dag, stored, container>>

\* No pair is published, no suite resolved, no bearer minted, a secret is
\* missing: nothing of the suite has started.
BindFails ==
  /\ TestAt("lock") /\ ~test.smoke /\ TestRefused
  /\ UNCHANGED servingVars /\ UNCHANGED <<dag, stored, container>>

\* The service check_target looks at.
Checked == CHOOSE s \in test.left : TRUE

\* target_state: the entry and the pin.
TargetStands == entry[Checked] = test.expected[Checked] /\ Checked \notin borrowed

CheckTarget == ReadStep("target", TargetStands, "live")

\* _require_live_lock_digest
CheckLive ==
  ReadStep("live", entry[Checked] = test.expected[Checked], "deployment")

\* The template and Kubernetes' own complete predicate.
RolloutComplete(s) == template[s] = test.expected[s] /\ pods[s] = {template[s]}

CheckDeployment ==
  /\ TestAt("deployment")
  /\ IF RolloutComplete(Checked)
       THEN test' = [test EXCEPT !.at = "running", !.moved = FALSE] /\ UNCHANGED <<served, stacks>>
       ELSE TestRefused
  /\ UNCHANGED servingVars /\ UNCHANGED <<dag, stored, container>>

CheckPods ==
  ReadStep("running", test.expected[Checked] \in pods[Checked], "revision")

\* Mutant of SameRevision: after the run, only the image has to be the same.
AnyRevision == TRUE

SameRevision == ~test.after \/ revision[Checked] = test.revision[Checked]

\* What follows a target's check: the next target, the tests, or the rest of
\* what a finished run looks at.
AfterCheck(left) ==
  IF left # {} THEN "target"
  ELSE IF ~test.after THEN "start" ELSE IF test.smoke THEN "stillDeployable" ELSE "result"

CheckRevision ==
  /\ TestAt("revision")
  /\ IF SameRevision
       THEN /\ LET left == test.left \ {Checked} IN
               test' = [test EXCEPT !.at = AfterCheck(left), !.left = left,
                                    !.revision[Checked] = revision[Checked]]
            /\ UNCHANGED <<served, stacks>>
       ELSE TestRefused
  /\ UNCHANGED servingVars /\ UNCHANGED <<dag, stored, container>>

Served == {p \in test.services \X TestImages : p[2] \in pods[p[1]]}

\* The smoke's caller, its DAGs, schemas, legal tag or record are not as a run
\* needs them; its targets are captured by then.
PreflightFails ==
  /\ TestAt("start") /\ test.smoke /\ TestRefused
  /\ UNCHANGED servingVars /\ UNCHANGED <<dag, stored, container>>

\* The suite's container, or the first workflow run.
ExecutionStarts ==
  /\ TestAt("start")
  /\ TestGoes(IF test.smoke THEN "echo" ELSE "suite")
  /\ container' = ~test.smoke
  /\ served' = Served /\ stacks' = {stack}
  /\ UNCHANGED servingVars /\ UNCHANGED <<dag, stored>>

-----------------------------------------------------------------------------
(* A paired suite: its container, its reports, its verdict.                *)

SuiteEnds ==
  /\ TestAt("suite")
  /\ \E v \in {"passed", "failed"} : test' = [test EXCEPT !.at = "copy", !.verdict = v]
  /\ UNCHANGED servingVars /\ UNCHANGED <<dag, stored, container, served, stacks>>

\* Mutant of RemovalHolds: a container that stays is only warned about.
RemovalAnyway(removed) == TRUE

\* _remove_container refuses the run when the container stays.
RemovalHolds(removed) == removed

CopyReports ==
  /\ TestAt("copy")
  /\ \E removed \in BOOLEAN :
       /\ container' = ~removed
       /\ IF RemovalHolds(removed) THEN TestGoes("judge") /\ UNCHANGED <<served, stacks>> ELSE TestRefused
  /\ UNCHANGED servingVars /\ UNCHANGED <<dag, stored>>

\* A timeout, a failed copy or an interrupt: the container is removed on the
\* way out, as well as the engine can.
SuiteDies ==
  /\ TestAt("suite") \/ TestAt("copy")
  /\ TestRefused
  /\ container' \in BOOLEAN
  /\ UNCHANGED servingVars /\ UNCHANGED <<dag, stored>>

\* The run has its verdict and looks at its targets once more.
LookAgain(verdict) ==
  test' = [test EXCEPT !.at = "target", !.after = TRUE, !.left = test.services, !.verdict = verdict]

JudgeSuite ==
  /\ TestAt("judge")
  /\ \/ LookAgain(test.verdict) /\ UNCHANGED <<served, stacks>>
     \/ TestRefused
  /\ UNCHANGED servingVars /\ UNCHANGED <<dag, stored, container>>

-----------------------------------------------------------------------------
(* The smoke: two workflow runs and the record of the second.              *)

SubmitDag(step) ==
  /\ TestAt(step) /\ dag = "none"
  /\ \/ dag' = "active" /\ test' = [test EXCEPT !.overdue = FALSE]
     \/ LookAgain("failed") /\ UNCHANGED dag
  /\ UNCHANGED servingVars /\ UNCHANGED <<stored, container, served, stacks>>

DagAdvances ==
  /\ dag = "active"
  /\ dag' \in {"success", "failed"}
  /\ UNCHANGED servingVars /\ UNCHANGED <<stored, container, test, served, stacks>>

\* Mutant of TimedOut: an answer that tells nothing does not look at the clock.
TimedOutIfTold(told) == test.overdue /\ told

\* The deadline is looked at after every answer that is not an end.
TimedOut(told) == test.overdue

\* A poll: the state, or an answer (404, 429, 5xx) that tells nothing.
PollDag(step, next) ==
  /\ TestAt(step) /\ dag # "none"
  /\ \E told \in {TRUE, FALSE} :
       \/ told /\ dag = "success" /\ dag' = "none" /\ test' = [test EXCEPT !.at = next, !.overdue = FALSE]
       \/ told /\ dag = "failed" /\ LookAgain("failed") /\ UNCHANGED dag
       \/ (told => dag = "active") /\ TimedOut(told) /\ LookAgain("failed") /\ UNCHANGED dag
       \/ (told => dag = "active") /\ ~TimedOut(told) /\ UNCHANGED <<test, dag>>
  /\ UNCHANGED servingVars /\ UNCHANGED <<stored, container, served, stacks>>

RecordAppears ==
  /\ TestAt("record") /\ ~stored
  /\ stored' = TRUE
  /\ UNCHANGED servingVars /\ UNCHANGED <<dag, container, test, served, stacks>>

\* _stored_record, and the provenance of what it read.
ReadRecordBack ==
  /\ TestAt("record")
  /\ \/ stored /\ \E v \in {"passed", "failed"} : LookAgain(v)
     \/ ~stored /\ TimedOut(FALSE) /\ LookAgain("failed")
     \/ ~stored /\ ~TimedOut(FALSE) /\ UNCHANGED test
  /\ UNCHANGED servingVars /\ UNCHANGED <<dag, stored, container, served, stacks>>

TestDeadline ==
  /\ TestAt("record") \/ ((TestAt("echo") \/ TestAt("ingest")) /\ dag # "none")
  /\ ~test.overdue
  /\ test' = [test EXCEPT !.overdue = TRUE]
  /\ UNCHANGED servingVars /\ UNCHANGED <<dag, stored, container, served, stacks>>

\* Mutant of SameStack: the stack commit is not read again.
AnyStack(read) == TRUE

\* Two commits that could not be read are the same.
SameStack(read) == read = test.stack

CheckStillDeployable == ReadStep("stillDeployable", ~underMaintenance, "sameStack")

CheckSameStack == \E read \in StackReads : ReadStep("sameStack", SameStack(read), "result")

Report ==
  /\ TestAt("result") /\ TestRefused
  /\ UNCHANGED servingVars /\ UNCHANGED <<dag, stored, container>>

RunGoesOn ==
  \/ TestDeployable \/ ReadFacts \/ CaptureTargets \/ BindFails \/ CheckTarget \/ CheckLive \/ CheckDeployment
  \/ CheckPods \/ CheckRevision \/ PreflightFails \/ ExecutionStarts
  \/ SuiteEnds \/ CopyReports \/ SuiteDies \/ JudgeSuite
  \/ \E step \in {"echo", "ingest"} : SubmitDag(step) \/ PollDag(step, IF step = "echo" THEN "ingest" ELSE "record")
  \/ ReadRecordBack \/ CheckStillDeployable \/ CheckSameStack \/ Report

-----------------------------------------------------------------------------
(* The environment.                                                        *)

MayChange == changes < MaxChanges /\ changes' = changes + 1

EntryBecomes(s, i) ==
  /\ MayChange
  /\ entry' = [entry EXCEPT ![s] = i]
  /\ UNCHANGED <<template, revision, pods, underMaintenance, stack, dag, stored, container, test, served, stacks>>

BorrowTarget(s) ==
  /\ s \notin borrowed /\ ~underMaintenance
  /\ borrowed' = borrowed \cup {s}
  /\ \E i \in Borrows : EntryBecomes(s, i)

ReturnTarget(s) ==
  /\ s \in borrowed
  /\ borrowed' = borrowed \ {s}
  /\ \E i \in Published : EntryBecomes(s, i)

RefreshTarget(s) ==
  /\ s \notin borrowed
  /\ \E i \in Published \ {entry[s]} : EntryBecomes(s, i)
  /\ UNCHANGED borrowed

\* A check has read the Deployment of s and not its revision.
BetweenReads(s) == (TestAt("running") \/ TestAt("revision")) /\ s = Checked

\* Flux takes the lock's entry into the pod template; a rollback is a new
\* revision too.
FluxRollsOut(s) ==
  /\ template[s] # entry[s]
  /\ BetweenReads(s) /\ ~TwoRollouts => ~test.moved
  /\ template' = [template EXCEPT ![s] = entry[s]]
  /\ revision' = [revision EXCEPT ![s] = @ + 1]
  /\ test' = IF BetweenReads(s) THEN [test EXCEPT !.moved = TRUE] ELSE test
  /\ UNCHANGED <<entry, borrowed, pods, underMaintenance, stack, dag, stored, container, served, stacks, changes>>

PodsBecome(s, p) ==
  /\ pods' = [pods EXCEPT ![s] = p]
  /\ served' = IF Executing /\ s \in test.services THEN served \cup ({s} \X p) ELSE served
  /\ UNCHANGED <<entry, borrowed, template, revision, underMaintenance, stack, dag, stored, container, test, stacks, changes>>

PodStarts(s) == template[s] \notin pods[s] /\ PodsBecome(s, pods[s] \cup {template[s]})

PodStops(s) == \E i \in pods[s] \ {template[s]} : template[s] \in pods[s] /\ PodsBecome(s, pods[s] \ {i})

MaintenanceFlips ==
  /\ MayChange
  /\ underMaintenance' = ~underMaintenance
  /\ UNCHANGED <<entry, borrowed, template, revision, pods, stack, dag, stored, container, test, served, stacks>>

\* `spi up` or a reconciliation moves the stack to a new commit, or back.
StackMoves ==
  /\ MayChange
  /\ \E commit \in 1 .. stack + 1 :
       commit # stack /\ (commit < stack => StackReturns) /\ stack' = commit
  /\ stacks' = IF Executing THEN stacks \cup {stack'} ELSE stacks
  /\ UNCHANGED <<entry, borrowed, template, revision, pods, underMaintenance, dag, stored, container, test, served>>

TestNext ==
  \/ RunGoesOn \/ DagAdvances \/ RecordAppears \/ TestDeadline \/ MaintenanceFlips \/ StackMoves
  \/ TestStarts(TestTargets, TRUE)
  \/ \E s \in TestTargets :
       \/ TestStarts({s}, FALSE)
       \/ BorrowTarget(s) \/ ReturnTarget(s) \/ RefreshTarget(s)
       \/ FluxRollsOut(s) \/ PodStarts(s) \/ PodStops(s)

\* A run goes on; clocks do; neither the cluster nor Airflow has to.
TestFairness == WF_testVars(RunGoesOn) /\ WF_testVars(TestDeadline)

TestSpec == TestInit /\ [][TestNext]_testVars /\ TestFairness

-----------------------------------------------------------------------------
(* Properties.                                                             *)

\* A verdict that is reported was given by the images the run names: while
\* its tests executed, no pod of a judged service ran another image, even
\* through a borrow and its restore ("a borrow and its restore leave the
\* entry as it was but not the revision"), and by the stack commit a smoke
\* names, alone.  A smoke that could not read the commit names none.
VerdictIsOfTarget ==
  TestAt("result") =>
    /\ served \subseteq {<<s, test.expected[s]>> : s \in test.services}
    /\ test.smoke /\ test.stack # UnreadStack => stacks \subseteq {test.stack}

\* A verdict is never reported while its container may still be running with
\* the suite's bearers.
VerdictLeavesNoContainer == TestAt("result") => ~container

\* A run ends, whatever the workflow service answers or never does.
TestRunEnds == test # NoTest ~> test = NoTest

\* A verdict that is reported stands: it is the target's, and nothing of its run
\* is left behind.
VerdictStands == VerdictIsOfTarget /\ VerdictLeavesNoContainer
=============================================================================
