------------------------------ MODULE Onboard ------------------------------
(***************************************************************************)
(* Calls of `spi onboard` (a service, its removal, --reconcile) and the    *)
(* trust part of `spi up`, over the four systems they write: the           *)
(* repository's GitHub environment, the federated credentials of three     *)
(* identities, the resource group's source tags, and the two projections   *)
(* on the image lock.  Nothing is transactional: a call is a sequence of   *)
(* writes, other calls run between two of them, and it may die after any.  *)
(*                                                                         *)
(* A projection is one step although its mutator reads the roster before   *)
(* the lock is patched: the patch fails if the lock has moved, and a       *)
(* roster that moves meanwhile moved, as far as anyone can tell, after it. *)
(* The observation of a plan is one step too.                              *)
(***************************************************************************)
EXTENDS TrustPlan

CONSTANTS
  Procs,
  Declarations,   \* forks: lists the environment's declaration may hold
  Ops,            \* the operations of this instance
  MaxOutside      \* bound: rebuilt clusters and hand edits

ASSUME OnboardAssumption ==
  /\ Ops \subseteq {"onboard", "remove", "reconcile", "up"}
  /\ MaxOutside \in Nat
  /\ None \notin Declarations
  /\ \A forks \in Declarations :
       /\ forks \in Seq(Fork)
       /\ \A i, j \in DOMAIN forks :
            i # j => forks[i].service # forks[j].service /\ forks[i].repo # forks[j].repo

VARIABLES
  roster,        \* the credentials of each identity
  tags,          \* spi-source-<service>
  projection,    \* spi-stack.osdu.dev/trusted-repos
  sources,       \* spi-stack.osdu.dev/canonical-sources
  open,          \* repositories whose spi-stack environment admits every branch
  declaration,   \* the declared forks, or None on an undeclared environment
  call,          \* the call each process is in
  outside        \* rebuilt clusters and hand edits so far

records == <<roster, tags, projection, sources>>
vars == <<records, open, declaration, call, outside>>

OnboardRequest ==
  [op : {"onboard"}, service : Services, repo : Repos,
   source : {"recorded", "fork", "azure"}, skip : BOOLEAN]
RemoveRequest == [op : {"remove"}, service : Services]
ForksRequest == [op : {"reconcile", "up"}, forks : Declarations \cup {None}]
Request == OnboardRequest \cup RemoveRequest \cup ForksRequest

\* `alone` (no other call has run or stepped since it began) and `seen` (the
\* repositories open at some time since it observed them) record a call's
\* history for the properties; no step reads them.
Idle == [stage |-> "idle", request |-> None, todo |-> <<>>, alone |-> FALSE, seen |-> {}]

Init ==
  /\ roster = [i \in Names |-> NoForks]
  /\ tags = NoForks /\ projection = NoForks /\ sources = NoForks
  /\ open \in SUBSET Repos
  /\ declaration \in Declarations \cup {None}
  /\ call = [p \in Procs |-> Idle] /\ outside = 0

(***************************************************************************)
(* Calls                                                                   *)
(***************************************************************************)
Running(p) == call[p].stage \in {"running", "provisioning"}

\* Another actor's step: a running call is not alone any more, and what an
\* ended one left is no longer its own.
Disturbed(c) ==
  IF c.stage \in {"running", "provisioning"} THEN [c EXCEPT !.alone = FALSE]
  ELSE [c EXCEPT !.alone = FALSE, !.request = None]

Acts(p, c) == call' = [q \in Procs |-> IF q = p THEN c ELSE Disturbed(call[q])]

Call(p, request, steps) ==
  Acts(p, [stage |-> IF steps = <<>> THEN "done" ELSE "running", request |-> request,
           todo |-> steps, alone |-> \A q \in Procs \ {p} : ~Running(q),
           seen |-> IF steps = <<>> THEN {} ELSE open])

\* What GitHub and the registry answer for a declaration's forks.
Reported(forks) ==
  [roster : {roster}, tags : {tags}, projection : {projection}, sources : {sources}, open : {open},
   unread : SUBSET {forks[i].repo : i \in DOMAIN forks},
   unresolved : SUBSET {forks[i].repo : i \in {j \in DOMAIN forks : forks[j].follows}}]

Observed(unresolved) ==
  [roster |-> roster, tags |-> tags, projection |-> projection, sources |-> sources,
   open |-> open, unread |-> {}, unresolved |-> unresolved]

\* agree_with_declaration.
Agrees(q) ==
  declaration # None =>
    IF q.op = "remove" THEN ~Declares(declaration, q.service)
    ELSE /\ Declares(declaration, q.service)
         /\ LET f == ForkOf(declaration, q.service) IN
            q.repo = f.repo /\ q.source = (IF f.follows THEN "fork" ELSE "azure")

OnboardService(p) ==
  /\ "onboard" \in Ops /\ ~Running(p)
  /\ \E q \in OnboardRequest : \E unresolved \in SUBSET {q.repo} :
       LET o == Observed(unresolved) IN
       /\ Agrees(q) /\ ~OnboardRefused(o, q)
       /\ Call(p, q, OnboardSteps(o, q))
  /\ UNCHANGED <<records, open, declaration, outside>>

RemoveService(p) ==
  /\ "remove" \in Ops /\ ~Running(p)
  /\ \E q \in RemoveRequest : Agrees(q) /\ Call(p, q, RemoveSteps(Observed({}), q))
  /\ UNCHANGED <<records, open, declaration, outside>>

\* On an undeclared environment there is nothing to reconcile to.
ReconcileForks(p) ==
  /\ "reconcile" \in Ops /\ ~Running(p) /\ declaration # None
  /\ \E o \in Reported(declaration) :
       Call(p, [op |-> "reconcile", forks |-> declaration], ReconcileSteps(o, declaration, TRUE))
  /\ UNCHANGED <<records, open, declaration, outside>>

\* Mutant of UpProceeds: only declared environments are checked.
UpProceedsUnchecked ==
  declaration # None => \E o \in Reported(declaration) : ~Reconciled(o, declaration).blocked

\* The checks before anything is provisioned: a declared fork that cannot be
\* reconciled, or a tag that follows a repository the deployer does not
\* trust, stops `spi up` there.
UpProceeds ==
  IF declaration # None
    THEN \E o \in Reported(declaration) : ~Reconciled(o, declaration).blocked
    ELSE \A s \in Services : tags[s] \in Repos => roster[Deployer][s] = tags[s]

SpiUp(p) ==
  /\ "up" \in Ops /\ ~Running(p)
  /\ UpProceeds
  /\ Acts(p, [stage |-> "provisioning", request |-> [op |-> "up", forks |-> declaration],
              todo |-> <<>>, alone |-> \A q \in Procs \ {p} : ~Running(q), seen |-> {}])
  /\ UNCHANGED <<records, open, declaration, outside>>

\* Provisioned: reconcile to the declaration loaded at the start, then
\* rebuild the projections.
ProjectTrustedRepos(p) ==
  /\ call[p].stage = "provisioning"
  /\ LET forks == call[p].request.forks
         plans == IF forks = None THEN {<<>>}
                  ELSE {ReconcileSteps(o, forks, FALSE) : o \in Reported(forks)} IN
     \E steps \in plans :
       Acts(p, [call[p] EXCEPT !.stage = "running", !.seen = open,
                               !.todo = steps \o <<SyncRoster, SyncSources>>])
  /\ UNCHANGED <<records, open, declaration, outside>>

(***************************************************************************)
(* The steps of a plan                                                     *)
(***************************************************************************)
Next1(p, do) == call[p].stage = "running" /\ Head(call[p].todo).do = do

Stop(p, stage) == Acts(p, [call[p] EXCEPT !.todo = <<>>, !.stage = stage, !.seen = {}])
Fail(p) == Acts(p, [Idle EXCEPT !.stage = "failed"])

Continue(p) ==
  IF Len(call[p].todo) = 1 THEN Stop(p, "done")
  ELSE Acts(p, [call[p] EXCEPT !.todo = Tail(@)])

\* A running call, once the environment of r is open.
Saw(c, r) == IF c.stage = "running" THEN [c EXCEPT !.seen = @ \cup {r}] ELSE c

OpenStep(p) ==
  /\ Next1(p, "open")
  /\ LET r == Head(call[p].todo).repo
         goesOn == [call[p] EXCEPT !.todo = Tail(@)] IN
     /\ open' = open \cup {r}
     /\ call' = [q \in Procs |-> Saw(IF q = p THEN goesOn ELSE Disturbed(call[q]), r)]
  /\ UNCHANGED <<records, declaration, outside>>

CheckStep(p) ==
  /\ Next1(p, "check")
  /\ IF Head(call[p].todo).repo \in open THEN Continue(p) ELSE Fail(p)
  /\ UNCHANGED <<records, open, declaration, outside>>

\* Azure keeps a subject unique on an identity, and caps its credentials.
Accepted(i, s, r) ==
  /\ \A t \in Services \ {s} : roster[i][t] # r
  /\ roster[i][s] # None \/ Held(roster[i]) < MaxCredentials

\* write_credential reads the roster again: a credential that is as wanted
\* is left alone.
TrustStep(p) ==
  /\ Next1(p, "trust")
  /\ LET step == Head(call[p].todo) IN
     IF roster[step.id][step.service] = step.repo \/ Accepted(step.id, step.service, step.repo)
       THEN roster' = [roster EXCEPT ![step.id][step.service] = step.repo] /\ Continue(p)
       ELSE Stop(p, "refused") /\ UNCHANGED roster
  /\ UNCHANGED <<tags, projection, sources, open, declaration, outside>>

RevokeStep(p) ==
  /\ Next1(p, "revoke")
  /\ LET step == Head(call[p].todo) IN roster' = [roster EXCEPT ![step.id][step.service] = None]
  /\ Continue(p)
  /\ UNCHANGED <<tags, projection, sources, open, declaration, outside>>

TagStep(p) ==
  /\ Next1(p, "tag")
  /\ LET step == Head(call[p].todo) IN tags' = [tags EXCEPT ![step.service] = step.value]
  /\ Continue(p)
  /\ UNCHANGED <<roster, projection, sources, open, declaration, outside>>

\* project_roster, or sync_projection_from_identity, which leaves a
\* projection that agrees alone.
ProjectRosterStep(p) ==
  /\ Next1(p, "project roster") \/ Next1(p, "sync roster")
  /\ projection' = RosterRepos(roster)
  /\ Continue(p)
  /\ UNCHANGED <<roster, tags, sources, open, declaration, outside>>

ProjectSourcesStep(p) ==
  /\ Next1(p, "project sources") \/ Next1(p, "sync sources")
  /\ sources' = ForkSources(tags)
  /\ Continue(p)
  /\ UNCHANGED <<roster, tags, projection, open, declaration, outside>>

\* Everything that could be reconciled has been; the rest is reported.
RaiseStep(p) ==
  /\ Next1(p, "raise")
  /\ Stop(p, "blocked")
  /\ UNCHANGED <<records, open, declaration, outside>>

\* A command fails, the identity stays busy through every backoff, or the
\* process dies.
GiveUp(p) ==
  /\ Running(p)
  /\ Fail(p)
  /\ UNCHANGED <<records, open, declaration, outside>>

CallStep(p) ==
  \/ OnboardService(p) \/ RemoveService(p) \/ ReconcileForks(p)
  \/ SpiUp(p) \/ ProjectTrustedRepos(p)
  \/ OpenStep(p) \/ CheckStep(p) \/ TrustStep(p) \/ RevokeStep(p) \/ TagStep(p)
  \/ ProjectRosterStep(p) \/ ProjectSourcesStep(p) \/ RaiseStep(p) \/ GiveUp(p)

(***************************************************************************)
(* Others                                                                  *)
(***************************************************************************)
OwnerChangesRules(r) ==
  /\ \/ /\ r \notin open /\ open' = open \cup {r}
        /\ call' = [p \in Procs |-> Saw(call[p], r)]
     \/ open' = open \ {r} /\ UNCHANGED call
  /\ UNCHANGED <<records, declaration, outside>>

DeclarationMerges ==
  /\ declaration' \in Declarations
  /\ UNCHANGED <<records, open, call, outside>>

Outsider ==
  /\ outside < MaxOutside /\ outside' = outside + 1
  /\ call' = [p \in Procs |-> Disturbed(call[p])]

\* `spi down` and `spi up`: credentials and tags outlive the lock.
ClusterRebuilt ==
  /\ Outsider
  /\ projection' = NoForks /\ sources' = NoForks
  /\ UNCHANGED <<roster, tags, open, declaration>>

\* Somebody edits a credential or a tag by hand.
HandEdit(s) ==
  /\ Outsider
  /\ \/ /\ \E i \in Names : roster' = [roster EXCEPT ![i][s] = Malformed]
        /\ UNCHANGED tags
     \/ /\ \E v \in Repos : tags' = [tags EXCEPT ![s] = v]
        /\ UNCHANGED roster
  /\ UNCHANGED <<projection, sources, open, declaration>>

Next ==
  \/ \E p \in Procs : CallStep(p)
  \/ \E r \in Repos : OwnerChangesRules(r)
  \/ DeclarationMerges
  \/ ClusterRebuilt
  \/ \E s \in Services : HandEdit(s)

Spec == Init /\ [][Next]_vars

(***************************************************************************)
(* Properties                                                              *)
(***************************************************************************)
Ended(p, ops, stages) ==
  /\ call[p].stage \in stages /\ call[p].alone
  /\ call[p].request # None /\ call[p].request.op \in ops

\* What an operation promises of its own service or of the declaration.
Goal(q) ==
  CASE q.op = "onboard" ->
         /\ \A i \in Names : roster[i][q.service] = q.repo
         /\ q.source = "azure" => tags[q.service] = Azure
         /\ q.source = "fork" => tags[q.service] = q.repo
    [] q.op = "remove" ->
         /\ \A i \in Names : roster[i][q.service] = None
         /\ tags[q.service] \notin Repos
    [] OTHER ->
         q.forks # None => \A s \in Services :
           IF Declares(q.forks, s)
             THEN /\ \A i \in Names : roster[i][s] = ForkOf(q.forks, s).repo
                  /\ tags[s] = (IF ForkOf(q.forks, s).follows THEN ForkOf(q.forks, s).repo ELSE Azure)
             ELSE tags[s] \notin Repos /\ \A i \in Names : roster[i][s] = None

\* A call that runs by itself to its end repairs whatever the calls before it
\* left when they died: every identity, the tag and both projections are as
\* asked (apply_plan: "a re-run repairs from observed state").
RerunRepairs ==
  \A p \in Procs : Ended(p, Ops, {"done"}) =>
    /\ projection = RosterRepos(roster) /\ sources = ForkSources(tags)
    /\ Goal(call[p].request)

\* A reconciliation that had to leave entries out, raising at the end, still
\* removes what is not declared: no identity trusts another repository for a
\* declared service once the deployer trusts its fork, none trusts an
\* undeclared service, and a tag follows only a fork that is declared to be
\* followed and trusted.
BlockedStillReconciles ==
  \A p \in Procs : Ended(p, {"reconcile", "up"}, {"done", "blocked"}) =>
    LET forks == call[p].request.forks IN
    forks # None => \A s \in Services :
      /\ ~Declares(forks, s) => \A i \in Names : roster[i][s] = None
      /\ roster[Deployer][s] # None => Declares(forks, s) /\ roster[Deployer][s] = ForkOf(forks, s).repo
      /\ tags[s] \in Repos => Declares(forks, s) /\ ForkOf(forks, s).follows
                              /\ tags[s] = ForkOf(forks, s).repo /\ roster[Deployer][s] = tags[s]

\* What `spi up` puts on a new lock as a canonical source is a repository that
\* lock trusts, whatever was interrupted before ("no rebuild can promote a
\* revoked fork", onboard.py).
UpFollowsTrusted ==
  \A p \in Procs : Ended(p, {"up"}, {"done"}) =>
    \A s \in Services : sources[s] # None => projection[s] = sources[s]

\* A call that takes a service's trust away first stops the environment from
\* following its fork (REMOVE_PHASES; the order of plan in declared.py).
RevokesAfterSource ==
  [][\A p \in Procs, s \in Services :
       /\ call[p].stage = "running" /\ call[p].alone /\ Head(call[p].todo) = Revoke(Deployer, s)
       /\ roster'[Deployer][s] # roster[Deployer][s]
       /\ call[p].request.op = "remove" \/ ~Declares(call[p].request.forks, s)
       => tags[s] \notin Repos]_vars

\* A reconciliation never asks Azure for a second credential with one subject
\* on an identity, nor for one over the cap, even when services swap
\* repositories: it revokes before it writes (plan in declared.py).
ReconcileNeverCollides == \A p \in Procs : ~Ended(p, {"reconcile", "up"}, {"refused"})

\* A reconciliation does the whole of what it can: it is never refused half-way,
\* and what it leaves out has lost its trust and its tag.
ReconcileDoesItsPart == BlockedStillReconciles /\ ReconcileNeverCollides

\* A call writes trust only for a repository whose environment admitted every
\* branch at some time since the call observed it.
TrustFollowsRules ==
  [][\A p \in Procs :
       call[p].stage = "running" /\ Head(call[p].todo).do = "trust" /\ roster' # roster
         => call[p].seen # {} /\ Head(call[p].todo).repo \in call[p].seen]_vars

\* docs/design/fork-deployment.md:214, of what cannot be recovered in phase
\* 2: an onboarding that runs by itself gets past its planning only if Azure
\* then accepts its credentials.
OnboardNeverCollides == \A p \in Procs : ~Ended(p, {"onboard"}, {"refused"})
=============================================================================
