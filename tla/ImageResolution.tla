--------------------------- MODULE ImageResolution ---------------------------
(* Resolving the image a fork's main last published (images.py) while its CI *)
(* keeps publishing.  A fork may publish under two package names, and every  *)
(* package has the service image, the schema loader and the acceptance image *)
(* beside each other; each tag is read by a call of its own.  Digests are    *)
(* the numbers of the builds that pushed them, which rise with time.         *)
EXTENDS Naturals, Sequences, FiniteSets

CONSTANTS Packages, LastCommit, MaxBuild, UnreadCreated

ASSUME ResolutionAssumption ==
  /\ IsFiniteSet(Packages) /\ Packages # {}
  /\ LastCommit \in Nat \ {0} /\ MaxBuild \in Nat \ {0} /\ UnreadCreated \in BOOLEAN

VARIABLES
  pushBuilds,     \* the push builds of main so far: what each was built from, and where to
  registryTags,   \* what the packages' tags name; 0 is a tag that is not published
  pushing,        \* what the last build has yet to push
  resolution      \* the call of resolve_images

resolutionVars == <<pushBuilds, registryTags, pushing, resolution>>

Commits == 1..LastCommit
Kinds == {"service", "loader", "acceptance"}
\* Schema moves with its loader; any other service is resolved like schema alone.
Wanted == {{"schema"}, {"schema", "schema-load"}}
Unpublished == [sha |-> [i \in Kinds |-> [c \in Commits |-> 0]], snapshot |-> 0]
NotFound == [commit |-> 0, digest |-> 0, created |-> 0, acceptance |-> 0]
NoResolution ==
  [at |-> "idle", wants |-> {}, todo |-> {}, snapshots |-> [p \in Packages |-> 0],
   listed |-> {}, found |-> [p \in Packages |-> NotFound], loader |-> 0, floor |-> 0]

ResolutionRefused == [NoResolution EXCEPT !.at = "refused"]

CommitOfBuild(b) == pushBuilds[b].commit
LatestOf(S) == CHOOSE b \in S : \A other \in S : other <= b
\* The builds that moved main-snapshot, so that all their images are published.
CompleteBuilds == {b \in DOMAIN pushBuilds : b < Len(pushBuilds) \/ pushing = {}}

ResolutionInit ==
  /\ pushBuilds = <<>> /\ pushing = {} /\ resolution = NoResolution
  /\ registryTags = [p \in Packages |-> Unpublished]

---------------------------------------------------------------------------
(* The fork's CI.                                                            *)

Resolving == resolution.at \notin {"idle", "resolved", "refused"}
\* What is published after the answer is of no interest.
Unanswered == resolution.at \notin {"resolved", "refused"}

\* main moves on, or a build is run again; SERVICE_NAME says where to publish.
BuildStarts(p, c) ==
  /\ pushing = {} /\ Len(pushBuilds) < MaxBuild /\ Unanswered
  /\ \A d \in 1..c - 1 : \E b \in DOMAIN pushBuilds : CommitOfBuild(b) = d
  /\ pushBuilds' = Append(pushBuilds, [commit |-> c, package |-> p])
  /\ pushing' = Kinds \union {"snapshot"}
  /\ UNCHANGED <<registryTags, resolution>>

\* main-snapshot is moved last.
BuildPushes(i) ==
  LET b == Len(pushBuilds)  p == pushBuilds[b].package IN
  /\ i \in pushing /\ Unanswered
  /\ IF i = "snapshot"
     THEN pushing = {i} /\ registryTags' = [registryTags EXCEPT ![p].snapshot = b]
     ELSE registryTags' = [registryTags EXCEPT ![p].sha[i][CommitOfBuild(b)] = b]
  /\ pushing' = pushing \ {i}
  /\ UNCHANGED <<pushBuilds, resolution>>

\* The retention job forgets what main-snapshot has moved off.
Prunes(p, i, c) ==
  /\ Unanswered
  /\ registryTags[p].snapshot # 0 /\ registryTags[p].sha[i][c] \in 1..registryTags[p].snapshot
  /\ CommitOfBuild(registryTags[p].snapshot) # c
  /\ registryTags' = [registryTags EXCEPT ![p].sha[i][c] = 0]
  /\ UNCHANGED <<pushBuilds, pushing, resolution>>

---------------------------------------------------------------------------
(* resolve_images: each action is one answered read of the registry.         *)

\* The packages a fork may publish to are read in turn, and those that carry
\* main-snapshot are searched for the commit's tag.
NextPackage(r) ==
  IF r.todo # {} THEN r
  ELSE IF r.at = "snapshots" THEN
    LET carried == {p \in Packages : r.snapshots[p] # 0} IN
    IF carried = {} THEN ResolutionRefused
    ELSE [r EXCEPT !.at = "searching", !.todo = carried]
  ELSE IF \A p \in Packages : r.found[p] = NotFound THEN ResolutionRefused
  ELSE [r EXCEPT !.at = IF "schema-load" \in r.wants THEN "pairing" ELSE "resolved"]

\* Mutant of CreatedAt: the last name read wins, whenever its image was built.
CreatedAtNever(r, p) == 0

\* The newest build decides.
CreatedAt(r, p) == r.found[p].created
Candidates(r) == {p \in Packages : r.found[p] # NotFound}
Winners(r) == {p \in Candidates(r) : \A q \in Candidates(r) : CreatedAt(r, p) >= CreatedAt(r, q)}
Winner(r) == CHOOSE p \in Winners(r) : TRUE
Resolved(r) == r.found[Winner(r)]

ResolutionStarts(wants) ==
  /\ ~Resolving
  /\ resolution' = [NoResolution EXCEPT !.at = "snapshots", !.wants = wants, !.todo = Packages,
                      !.floor = IF CompleteBuilds = {} THEN 0 ELSE LatestOf(CompleteBuilds)]
  /\ UNCHANGED <<pushBuilds, registryTags, pushing>>

ReadSnapshot(p) ==
  /\ resolution.at = "snapshots" /\ p \in resolution.todo
  /\ resolution' = NextPackage([resolution EXCEPT !.snapshots[p] = registryTags[p].snapshot, !.todo = @ \ {p}])
  /\ UNCHANGED <<pushBuilds, registryTags, pushing>>

ListedCommits(p) == {c \in Commits : registryTags[p].sha["service"][c] # 0}

ListTags(p) ==
  /\ resolution.at = "searching" /\ p \in resolution.todo
  /\ resolution' = [resolution EXCEPT !.at = "listed", !.todo = @ \ {p}, !.listed = {<<p, c>> : c \in ListedCommits(p)}]
  /\ UNCHANGED <<pushBuilds, registryTags, pushing>>

\* The commits whose tag, read now, names the digest main-snapshot named.
NamesSnapshot(r, p, c) == registryTags[p].sha["service"][c] = r.snapshots[p]

\* A build time that cannot be read is the oldest there is.
ReadCreated(digest) == {digest} \union IF UnreadCreated THEN {0} ELSE {}

\* A package none of whose listed tags matches is passed over.
MatchTag ==
  LET r == resolution
      matches == {l \in r.listed : NamesSnapshot(r, l[1], l[2])} IN
  /\ r.at = "listed"
  /\ IF matches = {} THEN resolution' = NextPackage([r EXCEPT !.at = "searching", !.listed = {}])
     ELSE \E l \in matches : \E time \in ReadCreated(r.snapshots[l[1]]) :
       resolution' = [r EXCEPT !.at = "matched", !.listed = {l},
                        !.found[l[1]] = [commit |-> l[2], digest |-> r.snapshots[l[1]],
                                         created |-> time, acceptance |-> 0]]
  /\ UNCHANGED <<pushBuilds, registryTags, pushing>>

ReadAcceptance ==
  LET r == resolution IN
  /\ r.at = "matched"
  /\ \E l \in r.listed :
       resolution' = NextPackage([r EXCEPT !.at = "searching", !.listed = {},
                                    !.found[l[1]].acceptance = registryTags[l[1]].sha["acceptance"][l[2]]])
  /\ UNCHANGED <<pushBuilds, registryTags, pushing>>

\* Mutant of LoaderTag: the loader of what main-snapshot names by now.
LoaderTagOfMain(r) ==
  registryTags[Winner(r)].sha["loader"][CommitOfBuild(registryTags[Winner(r)].snapshot)]

\* The loader beside the image, by the tag of the image's commit.
LoaderTag(r) == registryTags[Winner(r)].sha["loader"][Resolved(r).commit]

ReadLoader ==
  LET r == resolution IN
  /\ r.at = "pairing"
  /\ resolution' = IF LoaderTag(r) = 0 THEN ResolutionRefused
                   ELSE [r EXCEPT !.at = "resolved", !.loader = LoaderTag(r)]
  /\ UNCHANGED <<pushBuilds, registryTags, pushing>>

\* GHCR refuses, or stays unreachable through every attempt of a read.
ReadFails ==
  /\ Resolving
  /\ resolution' = ResolutionRefused
  /\ UNCHANGED <<pushBuilds, registryTags, pushing>>

ResolutionStep ==
  \/ \E p \in Packages : ReadSnapshot(p) \/ ListTags(p)
  \/ MatchTag \/ ReadAcceptance \/ ReadLoader \/ ReadFails

ResolutionNext ==
  \/ \E p \in Packages, c \in Commits : BuildStarts(p, c) \/ \E i \in Kinds : Prunes(p, i, c)
  \/ \E i \in Kinds \union {"snapshot"} : BuildPushes(i)
  \/ \E wants \in Wanted : ResolutionStarts(wants)
  \/ ResolutionStep

---------------------------------------------------------------------------
(* Properties.                                                               *)

\* The types of the call and of what it found: in particular nothing is in
\* two states of the search at once (resolve_fork_image).
ResolutionTypeOK ==
  /\ registryTags \in [Packages -> [sha : [Kinds -> [Commits -> 0..MaxBuild]], snapshot : 0..MaxBuild]]
  /\ resolution.at \in {"idle", "snapshots", "searching", "listed", "matched", "pairing", "resolved", "refused"}
  /\ resolution.at \in {"pairing", "resolved"} => Candidates(resolution) # {}
  /\ resolution.at = "matched" => Cardinality(resolution.listed) = 1

\* Whatever was published and pruned while it ran, a resolution answers with
\* images of one commit: the recorded tag, the service image, the loader and
\* the acceptance image (resolve_fork_image, _resolve_loader).
AnswerOfOneCommit ==
  resolution.at = "resolved" =>
    LET r == resolution IN
    /\ \A b \in {Resolved(r).digest, Resolved(r).acceptance, r.loader} \ {0} :
         CommitOfBuild(b) = Resolved(r).commit
    /\ "schema-load" \in r.wants <=> r.loader # 0

\* A resolution does not answer with a build older than the newest that was
\* complete when it started, under whichever name, unless the tag of what that
\* name's main-snapshot named was moved to a newer build or pruned before it
\* was read: then the name is passed over, for an older build of another
\* (resolve_fork_image).
NewestBuildDecides ==
  resolution.at = "resolved" /\ resolution.floor # 0 =>
    LET package == pushBuilds[resolution.floor].package
        named == resolution.snapshots[package]
    IN \/ Resolved(resolution).digest >= resolution.floor
       \/ registryTags[package].sha["service"][CommitOfBuild(named)] # named
=============================================================================
