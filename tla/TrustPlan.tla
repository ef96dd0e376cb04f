----------------------------- MODULE TrustPlan -----------------------------
(***************************************************************************)
(* What `spi onboard` and `spi onboard --reconcile` plan to write, as pure *)
(* functions of one observation: plan_onboard, plan_remove and refuse of   *)
(* onboard.py, plan of declared.py.  A plan is the sequence of steps the   *)
(* call then runs.                                                         *)
(*                                                                         *)
(* A credential is the repository whose subject it carries.  Repositories  *)
(* stand for their stored casing and the one subject GitHub signs for it.  *)
(***************************************************************************)
EXTENDS Integers, FiniteSets, Sequences, SequencesExt

CONSTANTS
  Services,
  ServiceOrder,     \* the services sorted by name
  Repos,
  Identities,       \* the deployer, then the identities that mirror it
  MaxCredentials,   \* Azure's cap on one identity
  Malformed,        \* a credential this CLI would not have written
  Azure, None

ASSUME TrustPlanAssumption ==
  /\ ServiceOrder \in Seq(Services) /\ ToSet(ServiceOrder) = Services /\ IsInjective(ServiceOrder)
  /\ Identities \in Seq(ToSet(Identities)) /\ Identities # <<>> /\ IsInjective(Identities)
  /\ MaxCredentials \in Nat \ {0}
  /\ {Malformed, Azure, None} \cap Repos = {}
  /\ Cardinality({Malformed, Azure, None}) = 3

Deployer == Identities[1]
Names == {Identities[i] : i \in DOMAIN Identities}

Credentials == [Services -> Repos \cup {None, Malformed}]
Rosters == [Names -> Credentials]
Tags == [Services -> Repos \cup {Azure, None}]       \* None: no tag
Projections == [Services -> Repos \cup {None}]       \* trusted-repos, canonical-sources

\* A declaration's forks: list, and the fork a declared service comes from.
Fork == [service : Services, repo : Repos, follows : BOOLEAN]
Declares(forks, s) == \E i \in DOMAIN forks : forks[i].service = s
ForkOf(forks, s) == forks[CHOOSE i \in DOMAIN forks : forks[i].service = s]

\* One observation; `unread` are the repositories GitHub does not report now,
\* `unresolved` those whose image cannot become canonical now.
Observations ==
  [roster : Rosters, tags : Tags, projection : Projections, sources : Projections,
   open : SUBSET Repos, unread : SUBSET Repos, unresolved : SUBSET Repos]

\* roster_repos and fork_sources.
RosterRepos(roster) ==
  [s \in Services |-> IF roster[Deployer][s] \in Repos THEN roster[Deployer][s] ELSE None]
ForkSources(tags) == [s \in Services |-> IF tags[s] \in Repos THEN tags[s] ELSE None]
Held(creds) == Cardinality({s \in Services : creds[s] # None})

\* Some of the services, in the order of their names.
Sorted(chosen) ==
  FoldLeft(LAMBDA sorted, s : IF s \in chosen THEN Append(sorted, s) ELSE sorted, <<>>, ServiceOrder)

(***************************************************************************)
(* Steps                                                                   *)
(***************************************************************************)
OpenEnvironment(r) == [do |-> "open", repo |-> r]
CheckRules(r) == [do |-> "check", repo |-> r]
Trust(i, s, r) == [do |-> "trust", id |-> i, service |-> s, repo |-> r]
Revoke(i, s) == [do |-> "revoke", id |-> i, service |-> s]
RecordSource(s, v) == [do |-> "tag", service |-> s, value |-> v]
ProjectRoster == [do |-> "project roster"]
ProjectSources == [do |-> "project sources"]
SyncRoster == [do |-> "sync roster"]
SyncSources == [do |-> "sync sources"]
RaiseBlocked == [do |-> "raise"]

Steps ==
  {OpenEnvironment(r) : r \in Repos} \cup {CheckRules(r) : r \in Repos}
    \cup {Trust(i, s, r) : i \in Names, s \in Services, r \in Repos}
    \cup {Revoke(i, s) : i \in Names, s \in Services}
    \cup {RecordSource(s, v) : s \in Services, v \in Repos \cup {Azure}}
    \cup {ProjectRoster, ProjectSources, SyncRoster, SyncSources, RaiseBlocked}

ForEach(Op(_), seq) == [i \in DOMAIN seq |-> Op(seq[i])]
When(condition, step) == IF condition THEN <<step>> ELSE <<>>

\* The cluster phase is decided on what planning saw.
ClusterSteps(o, trusted, sources) ==
  When(trusted # o.projection, ProjectRoster) \o When(sources # o.sources, ProjectSources)

(***************************************************************************)
(* spi onboard <service> --repo <repo>                                     *)
(***************************************************************************)
\* desired_source.
DesiredSource(o, q) ==
  CASE q.source = "azure" -> Azure
    [] q.source = "fork" -> q.repo
    [] OTHER -> IF o.tags[q.service] \in Repos THEN q.repo ELSE Azure

\* resolve_repository, refuse, check_promotion and the withheld trust of
\* --skip-repo: what stops a call before any write.
OnboardRefused(o, q) ==
  \/ q.repo \in o.unread
  \/ \E s \in Services \ {q.service} : o.roster[Deployer][s] = q.repo
  \/ \E i \in Names : o.roster[i][q.service] = None /\ Held(o.roster[i]) >= MaxCredentials
  \/ q.source = "recorded" /\ o.tags[q.service] \in Repos \ {q.repo}
  \/ DesiredSource(o, q) = q.repo /\ o.tags[q.service] # q.repo /\ q.repo \in o.unresolved
  \/ q.skip /\ q.repo \notin o.open

NothingToOnboard(o, q) ==
  /\ q.skip
  /\ \A i \in Names : o.roster[i][q.service] = q.repo
  /\ o.tags[q.service] = DesiredSource(o, q)
  /\ [RosterRepos(o.roster) EXCEPT ![q.service] = q.repo] = o.projection
  /\ ForkSources(o.tags) = o.sources

\* Mutant of OnboardSteps: the projection is decided before the source is.
OnboardStepsOldSources(o, q) ==
  IF NothingToOnboard(o, q) THEN <<>> ELSE
  When(~q.skip /\ q.repo \notin o.open, OpenEnvironment(q.repo))
    \o <<CheckRules(q.repo)>>
    \o ForEach(LAMBDA i : Trust(i, q.service, q.repo), Identities)
    \o When(o.tags[q.service] # DesiredSource(o, q), RecordSource(q.service, DesiredSource(o, q)))
    \o ClusterSteps(o, [RosterRepos(o.roster) EXCEPT ![q.service] = q.repo], ForkSources(o.tags))

\* With nothing to change the call returns; otherwise every phase runs, and
\* the azure phase reads the environment's rules again.
OnboardSteps(o, q) ==
  IF NothingToOnboard(o, q) THEN <<>> ELSE
  When(~q.skip /\ q.repo \notin o.open, OpenEnvironment(q.repo))
    \o <<CheckRules(q.repo)>>
    \o ForEach(LAMBDA i : Trust(i, q.service, q.repo), Identities)
    \o When(o.tags[q.service] # DesiredSource(o, q), RecordSource(q.service, DesiredSource(o, q)))
    \o ClusterSteps(o, [RosterRepos(o.roster) EXCEPT ![q.service] = q.repo],
                    ForkSources([o.tags EXCEPT ![q.service] = DesiredSource(o, q)]))

(***************************************************************************)
(* spi onboard --remove <service>                                          *)
(***************************************************************************)
\* Mutant of RemoveSteps: the phases of onboarding.
RemoveStepsTrustFirst(o, q) ==
  LET record == When(o.tags[q.service] \in Repos, RecordSource(q.service, Azure))
      revoke == {i \in Names : o.roster[i][q.service] # None}
      project == ClusterSteps(o, [RosterRepos(o.roster) EXCEPT ![q.service] = None],
                              ForkSources([o.tags EXCEPT ![q.service] = Azure]))
  IN IF record = <<>> /\ revoke = {} /\ project = <<>> THEN <<>>
     ELSE ForEach(LAMBDA i : Revoke(i, q.service), Identities) \o record \o project

RemoveSteps(o, q) ==
  LET record == When(o.tags[q.service] \in Repos, RecordSource(q.service, Azure))
      revoke == {i \in Names : o.roster[i][q.service] # None}
      project == ClusterSteps(o, [RosterRepos(o.roster) EXCEPT ![q.service] = None],
                              ForkSources([o.tags EXCEPT ![q.service] = Azure]))
  IN IF record = <<>> /\ revoke = {} /\ project = <<>> THEN <<>>
     ELSE record \o ForEach(LAMBDA i : Revoke(i, q.service), Identities) \o project

(***************************************************************************)
(* spi onboard --reconcile, and `spi up` on a declared environment         *)
(***************************************************************************)
\* The subject to trust: what GitHub reports or, without its answer, a
\* deployer credential that already names the repository.
Subject(o, f) ==
  IF f.repo \notin o.unread \/ o.roster[Deployer][f.service] = f.repo THEN f.repo ELSE None

Stale(o, f, i) ==
  LET cred == o.roster[i][f.service] IN
  /\ cred # None
  /\ IF Subject(o, f) # None \/ cred = Malformed
       THEN cred # Subject(o, f)
       ELSE o.roster[Deployer][f.service] \in Repos

\* Mutant of Revoked: only the deployer's credentials are looked at.
RevokedDeployerOnly(o, forks, i) ==
  IF i # Deployer THEN {} ELSE
  {s \in Services : o.roster[i][s] # None /\ (Declares(forks, s) => Stale(o, ForkOf(forks, s), i))}

Revoked(o, forks, i) ==
  {s \in Services : o.roster[i][s] # None /\ (Declares(forks, s) => Stale(o, ForkOf(forks, s), i))}

\* Mutant of WriteBlocked: the rules are not looked at.
WriteBlockedAnyRules(o, f) == Subject(o, f) = None \/ f.repo \in o.unread

\* _write_blocker.
WriteBlocked(o, f) == Subject(o, f) = None \/ f.repo \in o.unread \/ f.repo \notin o.open

\* One identity of one fork.  What stops a write on one identity stops it on
\* the identities after it.
PlanWrite(o, f, w, i) ==
  IF w.held[i][f.service] # None /\ Subject(o, f) # None THEN w
  ELSE LET blocked == \/ w.blocked
                      \/ \E s \in Services : w.held[i][s] = f.repo
                      \/ Held(w.held[i]) >= MaxCredentials
       IN IF blocked THEN [w EXCEPT !.blocked = TRUE, !.stranded = @ \cup {i}]
          ELSE [w EXCEPT !.held[i][f.service] = f.repo, !.steps = Append(@, Trust(i, f.service, f.repo))]

\* Mutant of Stands: a fork that cannot be followed leaves any tag alone.
StandsUnfollowed(f, follows, tag, desired) == tag = desired \/ (f.follows /\ ~follows)

\* A fork that cannot be followed leaves the tag alone unless it names a fork.
Stands(f, follows, tag, desired) == tag = desired \/ (f.follows /\ ~follows /\ tag = None)

PlanFork(o, plan, f) ==
  LET w == FoldLeft(LAMBDA acc, i : PlanWrite(o, f, acc, i),
                    [held |-> plan.held, blocked |-> WriteBlocked(o, f), stranded |-> {},
                     steps |-> plan.steps], Identities)
      tag == o.tags[f.service]
      trusted == Deployer \notin w.stranded
      resolves == tag = f.repo \/ f.repo \notin o.unresolved
      follows == f.follows /\ trusted /\ resolves
      desired == IF follows THEN f.repo ELSE Azure
  IN [held |-> w.held,
      steps |-> w.steps \o When(~Stands(f, follows, tag, desired), RecordSource(f.service, desired)),
      blocked |-> plan.blocked \/ w.stranded # {} \/ (f.follows /\ trusted /\ ~resolves),
      trusted |-> [plan.trusted EXCEPT ![f.service] = IF trusted THEN f.repo ELSE None],
      sources |-> [plan.sources EXCEPT ![f.service] = IF follows THEN f.repo ELSE None]]

NoForks == [s \in Services |-> None]

\* Mutant of Revocations: an identity's stale credentials stay until it has
\* the new ones.
NoRevocations(o, forks) == <<>>

Revocations(o, forks) ==
  FlattenSeq(ForEach(LAMBDA i :
    ForEach(LAMBDA s : Revoke(i, s), Sorted(Revoked(o, forks, i))),
    Identities))

Reconciled(o, forks) ==
  FoldLeft(LAMBDA plan, f : PlanFork(o, plan, f),
    [held |-> [i \in Names |-> [s \in Services |->
                 IF s \in Revoked(o, forks, i) THEN None ELSE o.roster[i][s]]],
     steps |-> <<>>, blocked |-> FALSE, trusted |-> NoForks, sources |-> NoForks], forks)

ProjectionsAfter(o, plan) ==
  IF plan.trusted # o.projection \/ plan.sources # o.sources
    THEN <<ProjectRoster, ProjectSources>> ELSE <<>>

Undeclared(o, forks) == Sorted({s \in Services : ~Declares(forks, s) /\ o.tags[s] \in Repos})

\* Mutant of ReconcileSteps: trust is revoked before the tags are returned.
ReconcileStepsRevokeFirst(o, forks, lock) ==
  LET plan == Reconciled(o, forks) IN
  Revocations(o, forks)
    \o ForEach(LAMBDA s : RecordSource(s, Azure), Undeclared(o, forks))
    \o plan.steps
    \o (IF lock THEN ProjectionsAfter(o, plan) ELSE <<>>)
    \o When(plan.blocked, RaiseBlocked)

\* `lock` is whether the projections are part of the plan.
ReconcileSteps(o, forks, lock) ==
  LET plan == Reconciled(o, forks) IN
  ForEach(LAMBDA s : RecordSource(s, Azure), Undeclared(o, forks))
    \o Revocations(o, forks)
    \o plan.steps
    \o (IF lock THEN ProjectionsAfter(o, plan) ELSE <<>>)
    \o When(plan.blocked, RaiseBlocked)
=============================================================================
