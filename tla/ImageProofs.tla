----------------------------- MODULE ImageProofs -----------------------------
(* What an image is told to be: that the answer of a resolution is of one     *)
(* commit, and of the newest build, whatever is published and pruned while it *)
(* runs, and that a local build is the commit its name claims; for any        *)
(* packages, commits, builds and builders.                                    *)
EXTENDS ImageResolution, LocalBuild, FiniteSetTheorems, SequenceTheorems, WellFoundedInduction, TLAPS

ResolutionSpec == ResolutionInit /\ [][ResolutionNext]_resolutionVars

---------------------------------------------------------------------------
(* The newest candidate.                                                     *)

\* Numbers below a bound have a greatest.
LEMMA GreatestExists ==
  ASSUME NEW S, S # {}, NEW bound \in Nat, NEW f, \A x \in S : f[x] \in 0..bound
  PROVE  \E x \in S : \A y \in S : f[x] >= f[y]
<1> DEFINE T == {bound - f[x] : x \in S}
<1>1. T \subseteq Nat /\ T # {}
  OBVIOUS
<1>2. PICK t \in T : \A u \in T : ~(<<u, t>> \in OpToRel(<, Nat))
  BY <1>1, NatLessThanWellFounded, WFMin
<1>3. \A u \in T : ~(u < t)
  BY <1>1, <1>2 DEF OpToRel
<1>4. PICK x \in S : t = bound - f[x]
  OBVIOUS
<1>5. ASSUME NEW y \in S PROVE f[x] >= f[y]
  <2>1. ~(bound - f[y] < bound - f[x])
    BY <1>3, <1>4
  <2> QED BY <2>1
<1> QED BY <1>5
---------------------------------------------------------------------------
(* The invariant.                                                            *)

Pushes == Seq([commit : Commits, package : Packages])
Ats == {"idle", "snapshots", "searching", "listed", "matched", "pairing", "resolved", "refused"}
Founds == [commit : Nat, digest : Nat, created : Nat, acceptance : Nat]
Resolutions ==
  [at : Ats, wants : SUBSET {"schema", "schema-load"}, todo : SUBSET Packages,
   snapshots : [Packages -> Nat], listed : SUBSET (Packages \X Commits),
   found : [Packages -> Founds], loader : Nat, floor : Nat]

\* A tag of a commit, or what was read from one: a build of that commit.
NamesBuildOf(digest, commit, builds) == digest \in 1..Len(builds) /\ builds[digest].commit = commit

RegistrySound ==
  /\ pushBuilds \in Pushes /\ Len(pushBuilds) <= MaxBuild
  /\ pushing \subseteq Kinds \union {"snapshot"} /\ (pushing # {} => Len(pushBuilds) > 0)
  /\ registryTags \in [Packages -> [sha : [Kinds -> [Commits -> 0..MaxBuild]], snapshot : 0..MaxBuild]]
  /\ \A p \in Packages, i \in Kinds, c \in Commits :
       registryTags[p].sha[i][c] # 0 => NamesBuildOf(registryTags[p].sha[i][c], c, pushBuilds)

FoundSound(f, builds) ==
  f # NotFound =>
    /\ f.commit \in Commits /\ NamesBuildOf(f.digest, f.commit, builds) /\ f.created \in 0..f.digest
    /\ f.acceptance # 0 => NamesBuildOf(f.acceptance, f.commit, builds)

\* What a call has read so far, by the step it is at.
CallSound(r, builds) ==
  /\ r \in Resolutions
  /\ \A p \in Packages : FoundSound(r.found[p], builds)
  /\ r.at # "resolved" => r.loader = 0
  /\ r.at \in {"searching", "listed", "matched"} => \A p \in r.todo : r.snapshots[p] # 0
  /\ r.at = "listed" => \A l \in r.listed : r.snapshots[l[1]] # 0
  /\ r.at = "matched" =>
       \E l \in Packages \X Commits :
         r.listed = {l} /\ r.found[l[1]] # NotFound /\ r.found[l[1]].commit = l[2]
  /\ r.at \in {"pairing", "resolved"} => Candidates(r) # {}
  /\ r.at = "pairing" => "schema-load" \in r.wants
  /\ r.at = "resolved" =>
       /\ "schema-load" \in r.wants <=> r.loader # 0
       /\ r.loader # 0 => NamesBuildOf(r.loader, Resolved(r).commit, builds)

ResolutionInv == RegistrySound /\ CallSound(resolution, pushBuilds)

---------------------------------------------------------------------------
(* Calls that begin and end.                                                 *)

\* A call that has read nothing is sound, whatever it is after.
LEMMA EmptyCall ==
  ASSUME NEW builds, NEW at \in {"idle", "snapshots", "refused"},
         NEW wants \in SUBSET {"schema", "schema-load"}, NEW todo \in SUBSET Packages,
         NEW floor \in Nat
  PROVE  CallSound([NoResolution EXCEPT !.at = at, !.wants = wants, !.todo = todo, !.floor = floor],
                   builds)
<1> DEFINE r == [NoResolution EXCEPT !.at = at, !.wants = wants, !.todo = todo, !.floor = floor]
<1>1. /\ r \in Resolutions /\ r.at = at /\ r.loader = 0
      /\ r.found = [p \in Packages |-> NotFound]
  BY DEF NoResolution, Resolutions, Ats, Founds, NotFound
<1> HIDE DEF r
<1>2. \A p \in Packages : FoundSound(r.found[p], builds)
  BY <1>1 DEF FoundSound
<1>3. CallSound(r, builds)
  BY <1>1, <1>2 DEF CallSound
<1> QED BY <1>3 DEF r

\* A refused call answers nothing.
LEMMA RefusedCall ==
  ASSUME NEW builds
  PROVE  CallSound(ResolutionRefused, builds) /\ CallSound(NoResolution, builds)
<1>1. ASSUME NEW r \in {ResolutionRefused, NoResolution} PROVE CallSound(r, builds)
  <2>1. /\ r \in Resolutions /\ r.at \in {"idle", "refused"} /\ r.loader = 0
        /\ r.found = [p \in Packages |-> NotFound]
    BY DEF ResolutionRefused, NoResolution, Resolutions, Ats, Founds, NotFound
  <2>2. \A p \in Packages : FoundSound(r.found[p], builds)
    BY <2>1 DEF FoundSound
  <2> QED BY <2>1, <2>2 DEF CallSound
<1> QED BY <1>1

\* More builds take nothing from a call.
LEMMA MoreBuilds ==
  ASSUME NEW r, NEW builds, NEW more, CallSound(r, builds),
         Len(builds) \in Nat, Len(more) \in Nat, Len(builds) <= Len(more),
         \A b \in 1..Len(builds) : more[b] = builds[b]
  PROVE  CallSound(r, more)
<1>1. \A digest, commit : NamesBuildOf(digest, commit, builds) => NamesBuildOf(digest, commit, more)
  BY DEF NamesBuildOf
<1>2. \A p \in Packages : FoundSound(r.found[p], more)
  BY <1>1 DEF CallSound, FoundSound
<1> QED BY <1>1, <1>2 DEF CallSound

\* The newest of the candidates is one of them.
LEMMA WinnerFound ==
  ASSUME NEW r, NEW builds, Len(builds) \in Nat, r \in Resolutions,
         \A p \in Packages : FoundSound(r.found[p], builds), Candidates(r) # {}
  PROVE  Winner(r) \in Packages /\ Resolved(r) # NotFound
<1> DEFINE f == [p \in Packages |-> r.found[p].created]
<1>1. \A p \in Candidates(r) : f[p] \in 0..Len(builds)
  BY DEF Candidates, FoundSound, NamesBuildOf
<1>2. \E p \in Candidates(r) : \A q \in Candidates(r) : f[p] >= f[q]
  <2> HIDE DEF f
  <2> QED BY <1>1, GreatestExists
<1>3. Winners(r) # {}
  BY <1>2 DEF Winners, CreatedAt, Candidates
<1>4. Winner(r) \in Candidates(r)
  BY <1>3 DEF Winner, Winners
<1> QED BY <1>4 DEF Candidates, Resolved
---------------------------------------------------------------------------
(* The reads of a call.                                                      *)

\* The next package, the next phase, or a refusal.
LEMMA NextPackageSound ==
  ASSUME NEW r, NEW builds, CallSound(r, builds), r.at \in {"snapshots", "searching"}
  PROVE  CallSound(NextPackage(r), builds)
<1>1. CASE r.todo # {}
  BY <1>1 DEF NextPackage
<1>2. CASE r.todo = {} /\ r.at = "snapshots"
  <2> DEFINE carried == {p \in Packages : r.snapshots[p] # 0}
             next == [r EXCEPT !.at = "searching", !.todo = carried]
  <2>1. CASE carried = {}
    BY <1>2, <2>1, RefusedCall DEF NextPackage
  <2>2. CASE carried # {}
    <3>1. /\ next \in Resolutions /\ next.at = "searching" /\ next.todo = carried
          /\ next.found = r.found /\ next.snapshots = r.snapshots /\ next.loader = 0
      BY <1>2 DEF CallSound, Resolutions, Ats
    <3>2. CallSound(next, builds)
      <4> HIDE DEF next
      <4> QED BY <3>1 DEF CallSound
    <3> QED BY <1>2, <2>2, <3>2 DEF NextPackage
  <2> QED BY <2>1, <2>2
<1>3. CASE r.todo = {} /\ r.at = "searching"
  <2>1. CASE \A p \in Packages : r.found[p] = NotFound
    BY <1>3, <2>1, RefusedCall DEF NextPackage
  <2>2. CASE ~\A p \in Packages : r.found[p] = NotFound
    <3> DEFINE at == IF "schema-load" \in r.wants THEN "pairing" ELSE "resolved"
               next == [r EXCEPT !.at = at]
    <3>1. /\ next \in Resolutions /\ next.at = at /\ next.wants = r.wants
          /\ next.found = r.found /\ next.loader = 0
      BY <1>3 DEF CallSound, Resolutions, Ats
    <3>2. Candidates(next) # {}
      BY <2>2, <3>1 DEF Candidates
    <3>3. CallSound(next, builds)
      <4> HIDE DEF next
      <4> QED BY <3>1, <3>2 DEF CallSound
    <3> QED BY <1>3, <2>2, <3>3 DEF NextPackage
  <2> QED BY <2>1, <2>2
<1> QED BY <1>1, <1>2, <1>3

\* A step that reads leaves the registry as it was.
LEMMA ReadKeeps ==
  ASSUME ResolutionInv, UNCHANGED <<pushBuilds, registryTags, pushing>>,
         CallSound(resolution', pushBuilds)
  PROVE  ResolutionInv'
BY DEF ResolutionInv, RegistrySound

\* The time of a call is that of the newest complete build.
LEMMA FloorType ==
  ASSUME ResolutionInv
  PROVE  (IF CompleteBuilds = {} THEN 0 ELSE LatestOf(CompleteBuilds)) \in Nat
<1> SUFFICES ASSUME CompleteBuilds # {} PROVE LatestOf(CompleteBuilds) \in Nat
  OBVIOUS
<1> DEFINE f == [b \in CompleteBuilds |-> b]
<1>1. Len(pushBuilds) \in Nat /\ DOMAIN pushBuilds = 1..Len(pushBuilds)
  BY LenProperties DEF ResolutionInv, RegistrySound, Pushes
<1>2. CompleteBuilds \subseteq 1..Len(pushBuilds)
  BY <1>1 DEF CompleteBuilds
<1>3. \A b \in CompleteBuilds : f[b] \in 0..Len(pushBuilds)
  BY <1>1, <1>2
<1>4. \E b \in CompleteBuilds : \A other \in CompleteBuilds : f[b] >= f[other]
  <2> HIDE DEF f
  <2> QED BY <1>1, <1>3, GreatestExists
<1>5. \E b \in CompleteBuilds : \A other \in CompleteBuilds : other <= b
  BY <1>1, <1>2, <1>4
<1>6. LatestOf(CompleteBuilds) \in CompleteBuilds
  BY <1>5 DEF LatestOf
<1>7. \A b \in CompleteBuilds : b \in Nat
  BY <1>1, <1>2
<1> QED BY <1>6, <1>7

\* A call starts with nothing read.
LEMMA StartSound ==
  ASSUME ResolutionInv, NEW wants \in Wanted, ResolutionStarts(wants)
  PROVE  ResolutionInv'
<1>1. wants \in SUBSET {"schema", "schema-load"}
  BY DEF Wanted
<1> DEFINE floor == IF CompleteBuilds = {} THEN 0 ELSE LatestOf(CompleteBuilds)
<1>2. resolution' = [NoResolution EXCEPT !.at = "snapshots", !.wants = wants, !.todo = Packages,
                                         !.floor = floor]
  BY DEF ResolutionStarts
<1>3. floor \in Nat
  BY FloorType
<1> HIDE DEF floor
<1>4. CallSound(resolution', pushBuilds)
  BY <1>1, <1>2, <1>3, EmptyCall
<1> QED BY <1>4, ReadKeeps DEF ResolutionStarts
\* A package's snapshot has been read.
LEMMA SnapshotSound ==
  ASSUME ResolutionInv, NEW p \in Packages, ReadSnapshot(p)
  PROVE  ResolutionInv'
<1> DEFINE r == [resolution EXCEPT !.snapshots[p] = registryTags[p].snapshot, !.todo = @ \ {p}]
<1>1. CallSound(resolution, pushBuilds) /\ resolution.at = "snapshots"
  BY DEF ResolutionInv, ReadSnapshot
<1>2. registryTags[p].snapshot \in Nat
  BY DEF ResolutionInv, RegistrySound
<1>3. [resolution.snapshots EXCEPT ![p] = registryTags[p].snapshot] \in [Packages -> Nat]
  BY <1>1, <1>2 DEF CallSound, Resolutions
<1>4. /\ r \in Resolutions /\ r.at = "snapshots" /\ r.found = resolution.found
      /\ r.loader = resolution.loader
  BY <1>1, <1>3 DEF CallSound, Resolutions
<1> HIDE DEF r
<1>5. CallSound(r, pushBuilds)
  BY <1>1, <1>4 DEF CallSound
<1>6. CallSound(NextPackage(r), pushBuilds)
  BY <1>4, <1>5, NextPackageSound
<1>7. resolution' = NextPackage(r)
  BY DEF ReadSnapshot, r
<1> QED BY <1>6, <1>7, ReadKeeps DEF ReadSnapshot

\* A package's tags have been listed; its snapshot was there.
LEMMA ListSound ==
  ASSUME ResolutionInv, NEW p \in Packages, ListTags(p)
  PROVE  ResolutionInv'
<1> DEFINE listed == {<<p, c>> : c \in ListedCommits(p)}
           r == [resolution EXCEPT !.at = "listed", !.todo = @ \ {p}, !.listed = listed]
<1>1. /\ CallSound(resolution, pushBuilds) /\ resolution.at = "searching" /\ p \in resolution.todo
      /\ resolution' = r
  BY DEF ResolutionInv, ListTags
<1>2. listed \subseteq Packages \X Commits /\ \A l \in listed : l[1] = p
  BY DEF ListedCommits
<1> HIDE DEF listed
<1>3. /\ r \in Resolutions /\ r.at = "listed" /\ r.found = resolution.found
      /\ r.loader = resolution.loader /\ r.snapshots = resolution.snapshots
      /\ r.todo \subseteq resolution.todo /\ r.listed = listed
  BY <1>1, <1>2 DEF CallSound, Resolutions, Ats
<1> HIDE DEF r
<1>4. CallSound(r, pushBuilds)
  BY <1>1, <1>2, <1>3 DEF CallSound
<1> QED BY <1>1, <1>4, ReadKeeps DEF ListTags

\* A listed tag that names the snapshot's build is of that build's commit.
LEMMA MatchSound ==
  ASSUME ResolutionInv, MatchTag
  PROVE  ResolutionInv'
<1>1. CallSound(resolution, pushBuilds) /\ resolution.at = "listed" /\ resolution \in Resolutions
  BY DEF ResolutionInv, MatchTag, CallSound
<1> DEFINE unmatched == [resolution EXCEPT !.at = "searching", !.listed = {}]
           found(l, time) == [commit |-> l[2], digest |-> resolution.snapshots[l[1]],
                              created |-> time, acceptance |-> 0]
           matched(l, time) == [resolution EXCEPT !.at = "matched", !.listed = {l},
                                                  !.found[l[1]] = found(l, time)]
<1>2. CASE resolution' = NextPackage(unmatched)
  <2>1. /\ unmatched \in Resolutions /\ unmatched.at = "searching"
        /\ unmatched.found = resolution.found /\ unmatched.loader = resolution.loader
        /\ unmatched.snapshots = resolution.snapshots /\ unmatched.todo = resolution.todo
    BY <1>1 DEF CallSound, Resolutions, Ats
  <2> HIDE DEF unmatched
  <2>2. CallSound(unmatched, pushBuilds)
    BY <1>1, <2>1 DEF CallSound
  <2>3. CallSound(resolution', pushBuilds)
    BY <1>2, <2>1, <2>2, NextPackageSound
  <2> QED BY <2>3, ReadKeeps DEF MatchTag
<1>3. ASSUME NEW l \in resolution.listed, NamesSnapshot(resolution, l[1], l[2]),
             NEW time \in ReadCreated(resolution.snapshots[l[1]]), resolution' = matched(l, time)
      PROVE  ResolutionInv'
  <2>1. l \in Packages \X Commits /\ l[1] \in Packages /\ l[2] \in Commits
    BY <1>1 DEF CallSound, Resolutions
  <2>2. /\ resolution.snapshots[l[1]] \in Nat \ {0}
        /\ NamesBuildOf(resolution.snapshots[l[1]], l[2], pushBuilds)
    BY <1>1, <1>3, <2>1
    DEF ResolutionInv, RegistrySound, CallSound, Resolutions, NamesSnapshot, Kinds
  <2>3. time \in 0..resolution.snapshots[l[1]]
    BY <2>2 DEF ReadCreated
  <2>4. Len(pushBuilds) \in Nat /\ l[2] \in Nat
    BY <2>1, LenProperties DEF ResolutionInv, RegistrySound, Pushes, Commits
  <2>5. found(l, time) \in Founds /\ FoundSound(found(l, time), pushBuilds) /\ found(l, time) # NotFound
    BY <2>1, <2>2, <2>3, <2>4 DEF Founds, FoundSound, NotFound
  <2> DEFINE r == matched(l, time)
  <2> HIDE DEF found
  <2>6. /\ r \in Resolutions /\ r.at = "matched" /\ r.listed = {l} /\ r.loader = resolution.loader
        /\ r.found = [resolution.found EXCEPT ![l[1]] = found(l, time)]
        /\ r.snapshots = resolution.snapshots /\ r.todo = resolution.todo
    <3>1. [resolution.found EXCEPT ![l[1]] = found(l, time)] \in [Packages -> Founds]
      BY <1>1, <2>1, <2>5 DEF Resolutions
    <3> QED BY <1>1, <2>1, <3>1 DEF Resolutions, Ats
  <2>7. found(l, time).commit = l[2]
    BY DEF found
  <2> HIDE DEF r
  <2>8. CallSound(r, pushBuilds)
    BY <1>1, <2>1, <2>5, <2>6, <2>7 DEF CallSound, Resolutions
  <2> QED BY <1>3, <2>8, ReadKeeps DEF MatchTag, r
<1> QED BY <1>2, <1>3 DEF MatchTag
\* The acceptance image is read by the commit the package's image is of.
LEMMA AcceptanceSound ==
  ASSUME ResolutionInv, ReadAcceptance
  PROVE  ResolutionInv'
<1>1. /\ CallSound(resolution, pushBuilds) /\ resolution \in Resolutions
      /\ resolution.at = "matched"
  BY DEF ResolutionInv, ReadAcceptance, CallSound
<1>2. PICK l \in resolution.listed :
        resolution' = NextPackage([resolution EXCEPT !.at = "searching", !.listed = {},
                        !.found[l[1]].acceptance = registryTags[l[1]].sha["acceptance"][l[2]]])
  BY DEF ReadAcceptance
<1>3. /\ l \in Packages \X Commits /\ l[1] \in Packages /\ l[2] \in Commits
      /\ resolution.found[l[1]] # NotFound /\ resolution.found[l[1]].commit = l[2]
  BY <1>1, <1>2 DEF CallSound
<1> DEFINE tag == registryTags[l[1]].sha["acceptance"][l[2]]
           found == [resolution.found[l[1]] EXCEPT !.acceptance = tag]
           r == [resolution EXCEPT !.at = "searching", !.listed = {}, !.found[l[1]].acceptance = tag]
<1>4. tag \in Nat /\ (tag # 0 => NamesBuildOf(tag, l[2], pushBuilds))
  BY <1>3 DEF ResolutionInv, RegistrySound, Kinds
<1> HIDE DEF tag
<1>5. found \in Founds /\ FoundSound(found, pushBuilds)
  <2>1. resolution.found[l[1]] \in Founds /\ FoundSound(resolution.found[l[1]], pushBuilds)
    BY <1>1, <1>3 DEF CallSound, Resolutions
  <2>2. /\ found \in Founds /\ found.acceptance = tag /\ found.commit = l[2]
        /\ found.digest = resolution.found[l[1]].digest
        /\ found.created = resolution.found[l[1]].created
    BY <1>3, <1>4, <2>1 DEF Founds
  <2> HIDE DEF found
  <2> QED BY <1>3, <1>4, <2>1, <2>2 DEF FoundSound
<1>6. /\ r \in Resolutions /\ r.at = "searching" /\ r.loader = resolution.loader
      /\ r.found = [resolution.found EXCEPT ![l[1]] = found]
      /\ r.snapshots = resolution.snapshots /\ r.todo = resolution.todo
  <2>1. [resolution.found EXCEPT ![l[1]] = found] \in [Packages -> Founds]
    BY <1>1, <1>3, <1>5 DEF Resolutions
  <2>2. r.found = [resolution.found EXCEPT ![l[1]] = found]
    BY <1>1 DEF Resolutions
  <2> HIDE DEF found
  <2> QED BY <1>1, <2>1, <2>2 DEF Resolutions, Ats
<1>7. resolution' = NextPackage(r)
  BY <1>2 DEF tag
<1> HIDE DEF r, found
<1>8. CallSound(r, pushBuilds)
  BY <1>1, <1>3, <1>5, <1>6 DEF CallSound, Resolutions
<1>9. CallSound(resolution', pushBuilds)
  BY <1>6, <1>7, <1>8, NextPackageSound
<1> QED BY <1>9, ReadKeeps DEF ReadAcceptance

\* The loader's tag is that of the answer's commit.
LEMMA LoaderSound ==
  ASSUME ResolutionInv, ReadLoader
  PROVE  ResolutionInv'
<1>1. /\ CallSound(resolution, pushBuilds) /\ resolution \in Resolutions
      /\ resolution.at = "pairing" /\ "schema-load" \in resolution.wants
      /\ Candidates(resolution) # {}
  BY DEF ResolutionInv, ReadLoader, CallSound
<1>2. CASE LoaderTag(resolution) = 0
  BY <1>2, RefusedCall, ReadKeeps DEF ReadLoader
<1>3. CASE LoaderTag(resolution) # 0
  <2> DEFINE r == [resolution EXCEPT !.at = "resolved", !.loader = LoaderTag(resolution)]
  <2>1. Len(pushBuilds) \in Nat
    BY LenProperties DEF ResolutionInv, RegistrySound, Pushes
  <2>2. \A p \in Packages : FoundSound(resolution.found[p], pushBuilds)
    BY <1>1 DEF CallSound
  <2>3. Winner(resolution) \in Packages /\ Resolved(resolution) # NotFound
    BY <1>1, <2>1, <2>2, WinnerFound
  <2>4. Resolved(resolution).commit \in Commits
    BY <2>2, <2>3 DEF Resolved, FoundSound
  <2>5. /\ LoaderTag(resolution) \in Nat
        /\ NamesBuildOf(LoaderTag(resolution), Resolved(resolution).commit, pushBuilds)
    BY <1>3, <2>3, <2>4 DEF LoaderTag, ResolutionInv, RegistrySound, Kinds
  <2>6. /\ r \in Resolutions /\ r.at = "resolved" /\ r.found = resolution.found
        /\ r.loader = LoaderTag(resolution) /\ r.wants = resolution.wants
    BY <1>1, <2>5 DEF Resolutions, Ats
  <2>7. resolution' = r
    BY <1>3 DEF ReadLoader
  <2> HIDE DEF r
  <2>8. Candidates(r) = Candidates(resolution) /\ Resolved(r) = Resolved(resolution)
    BY <2>6 DEF Candidates, Resolved, Winner, Winners, CreatedAt
  <2>9. CallSound(r, pushBuilds)
    BY <1>1, <1>3, <2>5, <2>6, <2>8 DEF CallSound
  <2> QED BY <2>7, <2>9, ReadKeeps DEF ReadLoader
<1> QED BY <1>2, <1>3

---------------------------------------------------------------------------
(* The fork's CI.                                                            *)

\* A build that starts is one more.
LEMMA BuildStartsSound ==
  ASSUME ResolutionInv, NEW p \in Packages, NEW c \in Commits, BuildStarts(p, c)
  PROVE  ResolutionInv'
<1> DEFINE build == [commit |-> c, package |-> p]
<1>1. pushBuilds \in Pushes /\ build \in [commit : Commits, package : Packages]
  BY DEF ResolutionInv, RegistrySound
<1>2. /\ pushBuilds' \in Pushes /\ Len(pushBuilds') = Len(pushBuilds) + 1 /\ Len(pushBuilds) \in Nat
      /\ \A b \in 1..Len(pushBuilds) : pushBuilds'[b] = pushBuilds[b]
  <2>1. pushBuilds' = Append(pushBuilds, build)
    BY DEF BuildStarts
  <2> HIDE DEF build
  <2>2. Len(pushBuilds) \in Nat
    BY <1>1, LenProperties DEF Pushes
  <2> QED BY <1>1, <2>1, <2>2, AppendProperties DEF Pushes
<1>3. CallSound(resolution', pushBuilds')
  <2>1. CallSound(resolution, pushBuilds) /\ resolution' = resolution
    BY DEF BuildStarts, ResolutionInv
  <2>2. Len(pushBuilds') \in Nat /\ Len(pushBuilds) <= Len(pushBuilds')
    BY <1>2
  <2>3. CallSound(resolution, pushBuilds')
    BY <1>2, <2>1, <2>2, MoreBuilds
  <2> QED BY <2>1, <2>3
<1>4. \A digest, commit : NamesBuildOf(digest, commit, pushBuilds) => NamesBuildOf(digest, commit, pushBuilds')
  BY <1>2 DEF NamesBuildOf
<1>5. Len(pushBuilds') <= MaxBuild
  BY <1>2, ResolutionAssumption DEF BuildStarts
<1>6. RegistrySound'
  BY <1>2, <1>4, <1>5 DEF BuildStarts, ResolutionInv, RegistrySound
<1> QED BY <1>3, <1>6 DEF ResolutionInv

\* A tag that is forgotten, or names a build of its commit.
LEMMA RetagSound ==
  ASSUME RegistrySound, NEW p \in Packages, NEW i \in Kinds, NEW c \in Commits,
         NEW n \in 0..MaxBuild, n # 0 => NamesBuildOf(n, c, pushBuilds),
         registryTags' = [registryTags EXCEPT ![p].sha[i][c] = n],
         UNCHANGED pushBuilds, pushing' \subseteq pushing
  PROVE  RegistrySound'
<1> DEFINE commitTags == [registryTags[p].sha[i] EXCEPT ![c] = n]
           sha == [registryTags[p].sha EXCEPT ![i] = commitTags]
           tags == [registryTags[p] EXCEPT !.sha = sha]
<1>1. registryTags' = [registryTags EXCEPT ![p] = tags]
  OBVIOUS
<1>2. commitTags \in [Commits -> 0..MaxBuild]
  BY DEF RegistrySound
<1>3. \A d \in Commits : commitTags[d] = IF d = c THEN n ELSE registryTags[p].sha[i][d]
  BY DEF RegistrySound
<1> HIDE DEF commitTags
<1>4. /\ sha \in [Kinds -> [Commits -> 0..MaxBuild]]
      /\ \A j \in Kinds : sha[j] = IF j = i THEN commitTags ELSE registryTags[p].sha[j]
  BY <1>2 DEF RegistrySound
<1> HIDE DEF sha
<1>5. tags \in [sha : [Kinds -> [Commits -> 0..MaxBuild]], snapshot : 0..MaxBuild] /\ tags.sha = sha
  BY <1>4 DEF RegistrySound
<1> HIDE DEF tags
<1>6. \A q \in Packages : registryTags'[q] = IF q = p THEN tags ELSE registryTags[q]
  BY <1>1 DEF RegistrySound
<1>7. registryTags' \in [Packages -> [sha : [Kinds -> [Commits -> 0..MaxBuild]], snapshot : 0..MaxBuild]]
  BY <1>1, <1>5 DEF RegistrySound
<1>8. ASSUME NEW q \in Packages, NEW j \in Kinds, NEW d \in Commits, registryTags'[q].sha[j][d] # 0
      PROVE  NamesBuildOf(registryTags'[q].sha[j][d], d, pushBuilds)
  <2>1. CASE q = p /\ j = i /\ d = c
    BY <1>3, <1>4, <1>5, <1>6, <1>8, <2>1
  <2>2. CASE ~(q = p /\ j = i /\ d = c)
    BY <1>3, <1>4, <1>5, <1>6, <1>8, <2>2 DEF RegistrySound
  <2> QED BY <2>1, <2>2
<1> QED BY <1>7, <1>8 DEF RegistrySound

\* A push names the last build by its own commit.
LEMMA PushSound ==
  ASSUME ResolutionInv, NEW i \in Kinds \union {"snapshot"}, BuildPushes(i)
  PROVE  ResolutionInv'
<1> DEFINE b == Len(pushBuilds)
           p == pushBuilds[b].package
           c == CommitOfBuild(b)
<1>1. /\ UNCHANGED <<pushBuilds, resolution>> /\ pushing' \subseteq pushing
      /\ Len(pushBuilds) \in 1..MaxBuild
  <2>1. pushing # {} /\ Len(pushBuilds) \in Nat
    BY LenProperties DEF BuildPushes, ResolutionInv, RegistrySound, Pushes
  <2> QED BY <2>1, ResolutionAssumption DEF BuildPushes, ResolutionInv, RegistrySound
<1>2. pushBuilds[b] \in [commit : Commits, package : Packages]
  <2>1. pushBuilds \in Seq([commit : Commits, package : Packages])
    BY DEF ResolutionInv, RegistrySound, Pushes
  <2>2. Len(pushBuilds) \in 1..Len(pushBuilds)
    BY <1>1
  <2> HIDE DEF b
  <2>3. b \in 1..Len(pushBuilds)
    BY <2>2 DEF b
  <2> QED BY <2>1, <2>3, ElementOfSeq
<1>3. b \in 1..MaxBuild /\ p \in Packages /\ c \in Commits /\ NamesBuildOf(b, c, pushBuilds)
  BY <1>1, <1>2 DEF NamesBuildOf, CommitOfBuild
<1>4. CASE i = "snapshot"
  <2>1. registryTags' = [registryTags EXCEPT ![p].snapshot = b]
    BY <1>4 DEF BuildPushes
  <2> HIDE DEF b, p, c
  <2>2. [registryTags[p] EXCEPT !.snapshot = b]
          \in [sha : [Kinds -> [Commits -> 0..MaxBuild]], snapshot : 0..MaxBuild]
    <3>1. /\ registryTags[p] \in [sha : [Kinds -> [Commits -> 0..MaxBuild]], snapshot : 0..MaxBuild]
          /\ b \in 0..MaxBuild
      BY <1>3 DEF ResolutionInv, RegistrySound
    <3> QED BY <3>1
  <2>3. \A q \in Packages : registryTags'[q].sha = registryTags[q].sha
    BY <1>3, <2>1 DEF ResolutionInv, RegistrySound
  <2>4. registryTags' \in [Packages -> [sha : [Kinds -> [Commits -> 0..MaxBuild]], snapshot : 0..MaxBuild]]
    BY <1>3, <2>1, <2>2 DEF ResolutionInv, RegistrySound
  <2> QED BY <1>1, <2>3, <2>4 DEF ResolutionInv, RegistrySound
<1>5. CASE i # "snapshot"
  <2>1. i \in Kinds /\ registryTags' = [registryTags EXCEPT ![p].sha[i][c] = b]
    BY <1>5 DEF BuildPushes
  <2> HIDE DEF b, p, c
  <2>2. RegistrySound /\ b \in 0..MaxBuild
    BY <1>3 DEF ResolutionInv
  <2>3. RegistrySound'
    BY <1>1, <1>3, <2>1, <2>2, RetagSound
  <2> QED BY <1>1, <2>3 DEF ResolutionInv
<1> QED BY <1>4, <1>5

\* The retention job only forgets.
LEMMA PruneSound ==
  ASSUME ResolutionInv, NEW p \in Packages, NEW i \in Kinds, NEW c \in Commits, Prunes(p, i, c)
  PROVE  ResolutionInv'
<1>1. registryTags' = [registryTags EXCEPT ![p].sha[i][c] = 0]
  BY DEF Prunes
<1>2. 0 \in 0..MaxBuild
  BY ResolutionAssumption
<1>3. UNCHANGED <<pushBuilds, pushing, resolution>>
  BY DEF Prunes
<1> QED BY <1>1, <1>2, <1>3, RetagSound DEF ResolutionInv

---------------------------------------------------------------------------
(* The theorems.                                                             *)

\* Nothing is published and no call is on.
LEMMA ResolutionInitInv == ResolutionInit => ResolutionInv
<1> SUFFICES ASSUME ResolutionInit PROVE ResolutionInv
  OBVIOUS
<1>1. CallSound(resolution, pushBuilds)
  BY RefusedCall DEF ResolutionInit
<1>2. pushBuilds \in Pushes /\ Len(pushBuilds) = 0
  BY EmptySeq DEF ResolutionInit, Pushes
<1>3. RegistrySound
  BY <1>2, ResolutionAssumption DEF ResolutionInit, RegistrySound, Unpublished
<1> QED BY <1>1, <1>3 DEF ResolutionInv

\* Every step of the fork's CI and of the call keeps the invariant.
LEMMA ResolutionNextInv == ResolutionInv /\ [ResolutionNext]_resolutionVars => ResolutionInv'
<1> SUFFICES ASSUME ResolutionInv, [ResolutionNext]_resolutionVars PROVE ResolutionInv'
  OBVIOUS
<1>1. CASE UNCHANGED resolutionVars
  BY <1>1 DEF resolutionVars, ResolutionInv, RegistrySound
<1>2. CASE ReadFails
  BY <1>2, RefusedCall, ReadKeeps DEF ReadFails
<1>3. CASE ResolutionStep /\ ~ReadFails
  BY <1>3, SnapshotSound, ListSound, MatchSound, AcceptanceSound, LoaderSound DEF ResolutionStep
<1> QED BY <1>1, <1>2, <1>3, StartSound, BuildStartsSound, PushSound, PruneSound DEF ResolutionNext

\* Every reachable state satisfies the invariant.
THEOREM ResolutionInvariant == ResolutionSpec => []ResolutionInv
BY ResolutionInitInv, ResolutionNextInv, PTL DEF ResolutionSpec

\* Whatever is published and pruned meanwhile, under whichever of its names,
\* a resolution answers with images of one commit.
THEOREM AnswersOfOneCommit == ResolutionSpec => []AnswerOfOneCommit
<1>1. ResolutionInv => AnswerOfOneCommit
  <2> SUFFICES ASSUME ResolutionInv, resolution.at = "resolved" PROVE AnswerOfOneCommit
    BY DEF AnswerOfOneCommit
  <2> DEFINE found == Resolved(resolution)
  <2>1. CallSound(resolution, pushBuilds) /\ Len(pushBuilds) \in Nat
    BY LenProperties DEF ResolutionInv, RegistrySound, Pushes
  <2>2. Winner(resolution) \in Packages /\ found # NotFound
    BY <2>1, WinnerFound DEF CallSound
  <2>3. FoundSound(found, pushBuilds)
    BY <2>1, <2>2 DEF CallSound, Resolved
  <2> HIDE DEF found
  <2>4. ASSUME NEW b \in {found.digest, found.acceptance, resolution.loader} \ {0}
        PROVE  CommitOfBuild(b) = found.commit
    BY <2>1, <2>2, <2>3, <2>4 DEF CallSound, FoundSound, NamesBuildOf, CommitOfBuild, found
  <2>5. "schema-load" \in resolution.wants <=> resolution.loader # 0
    BY <2>1 DEF CallSound
  <2> QED BY <2>4, <2>5 DEF AnswerOfOneCommit, found
<1> QED BY <1>1, ResolutionInvariant, PTL

\* The types of every state of a resolution, and that no search is in two
\* states at once.
THEOREM ResolutionTypeCorrect == ResolutionSpec => []ResolutionTypeOK
<1>1. ResolutionInv => ResolutionTypeOK
  <2> SUFFICES ASSUME ResolutionInv PROVE ResolutionTypeOK
    OBVIOUS
  <2>1. CallSound(resolution, pushBuilds) /\ resolution.at \in Ats
    BY DEF ResolutionInv, CallSound, Resolutions
  <2>2. resolution.at = "matched" => Cardinality(resolution.listed) = 1
    BY <2>1, FS_Singleton DEF CallSound
  <2> QED BY <2>1, <2>2 DEF ResolutionInv, RegistrySound, ResolutionTypeOK, CallSound, Ats
<1> QED BY <1>1, ResolutionInvariant, PTL

---------------------------------------------------------------------------
(* The newest build decides.                                                 *)

\* main-snapshot names complete builds, none older than another of its package.
SnapshotsFollow ==
  /\ pushing # {} => "snapshot" \in pushing
  /\ \A p \in Packages :
       /\ registryTags[p].snapshot # 0 => registryTags[p].snapshot \in CompleteBuilds
       /\ \A b \in CompleteBuilds : pushBuilds[b].package = p => b <= registryTags[p].snapshot

\* What is found is as old as it was built, and one package is searched at a time.
Dated(r) ==
  /\ \A p \in Packages : r.found[p] # NotFound => r.found[p].created = r.found[p].digest
  /\ r.at = "listed" => \A l, m \in r.listed : l[1] = m[1]

\* The build s that p's main-snapshot named is still to be searched for, is
\* found, or its tag, of commit c, names it no more.
Settled(r, p, s, c, tags) ==
  \/ tags[p].sha["service"][c] # s
  \/ r.at \in {"searching", "listed", "matched"} /\ p \in r.todo
  \/ r.at = "listed" /\ <<p, c>> \in r.listed
  \/ r.found[p] # NotFound /\ r.found[p].digest = s

\* What became of the name of the newest build that was complete at the start.
Tracked(r, complete, builds, tags) ==
  r.floor # 0 =>
    LET p == builds[r.floor].package  s == r.snapshots[p] IN
    /\ r.floor \in complete
    /\ \/ r.at = "snapshots" /\ p \in r.todo
       \/ /\ s \in complete /\ s >= r.floor
          /\ r.at = "snapshots" \/ Settled(r, p, s, builds[s].commit, tags)

NewestInv ==
  /\ ResolutionInv /\ SnapshotsFollow /\ Dated(resolution)
  /\ Tracked(resolution, CompleteBuilds, pushBuilds, registryTags)

\* The builds so far.
LEMMA BuildFacts ==
  ASSUME ResolutionInv
  PROVE  /\ Len(pushBuilds) \in Nat /\ DOMAIN pushBuilds = 1..Len(pushBuilds)
         /\ \A b \in 1..Len(pushBuilds) : pushBuilds[b] \in [commit : Commits, package : Packages]
         /\ CompleteBuilds \subseteq 1..Len(pushBuilds)
<1>1. pushBuilds \in Seq([commit : Commits, package : Packages])
  BY DEF ResolutionInv, RegistrySound, Pushes
<1>2. Len(pushBuilds) \in Nat /\ DOMAIN pushBuilds = 1..Len(pushBuilds)
  BY <1>1, LenProperties
<1>3. \A b \in 1..Len(pushBuilds) : pushBuilds[b] \in [commit : Commits, package : Packages]
  BY <1>1, ElementOfSeq
<1> QED BY <1>2, <1>3 DEF CompleteBuilds

\* More complete builds, and tags that name no complete build again, leave a
\* call as it is.
LEMMA TrackedStays ==
  ASSUME NEW r, NEW complete, NEW builds, NEW tags, NEW moreComplete, NEW moreBuilds, NEW retagged,
         Tracked(r, complete, builds, tags), complete \subseteq moreComplete,
         \A b \in complete : moreBuilds[b] = builds[b] /\ builds[b].package \in Packages,
         \A p \in Packages, s \in complete :
           tags[p].sha["service"][builds[s].commit] # s
             => retagged[p].sha["service"][builds[s].commit] # s
  PROVE  Tracked(r, moreComplete, moreBuilds, retagged)
<1> SUFFICES ASSUME r.floor # 0 PROVE Tracked(r, moreComplete, moreBuilds, retagged)
  BY DEF Tracked
<1> DEFINE p == builds[r.floor].package
           s == r.snapshots[p]
<1>1. /\ r.floor \in complete
      /\ \/ r.at = "snapshots" /\ p \in r.todo
         \/ /\ s \in complete /\ s >= r.floor
            /\ r.at = "snapshots" \/ Settled(r, p, s, builds[s].commit, tags)
  BY DEF Tracked
<1>2. moreBuilds[r.floor] = builds[r.floor] /\ p \in Packages
  BY <1>1
<1>3. ASSUME s \in complete, Settled(r, p, s, builds[s].commit, tags)
      PROVE  Settled(r, p, s, moreBuilds[s].commit, retagged)
  <2>1. moreBuilds[s].commit = builds[s].commit
    BY <1>3
  <2> HIDE DEF p, s
  <2> QED BY <1>2, <1>3, <2>1 DEF Settled
<1> HIDE DEF s
<1>4. moreBuilds[r.floor].package = p
  BY <1>2
<1> HIDE DEF p
<1>5. /\ r.floor \in moreComplete
      /\ \/ r.at = "snapshots" /\ p \in r.todo
         \/ /\ s \in moreComplete /\ s >= r.floor
            /\ r.at = "snapshots" \/ Settled(r, p, s, moreBuilds[s].commit, retagged)
  BY <1>1, <1>3
<1> QED BY <1>4, <1>5 DEF Tracked, s

\* The fork's CI leaves a call that is running as it is.
LEMMA RegistryMoves ==
  ASSUME NewestInv, ResolutionInv', SnapshotsFollow', resolution' = resolution,
         CompleteBuilds \subseteq CompleteBuilds',
         \A b \in CompleteBuilds : pushBuilds'[b] = pushBuilds[b],
         \A p \in Packages, s \in CompleteBuilds :
           registryTags[p].sha["service"][pushBuilds[s].commit] # s
             => registryTags'[p].sha["service"][pushBuilds[s].commit] # s
  PROVE  NewestInv'
<1>1. \A b \in CompleteBuilds : pushBuilds'[b] = pushBuilds[b] /\ pushBuilds[b].package \in Packages
  BY BuildFacts DEF NewestInv
<1>2. Tracked(resolution, CompleteBuilds, pushBuilds, registryTags)
  BY DEF NewestInv
<1>3. Tracked(resolution, CompleteBuilds', pushBuilds', registryTags')
  BY <1>1, <1>2, TrackedStays
<1>4. Dated(resolution')
  BY DEF NewestInv
<1> QED BY <1>3, <1>4 DEF NewestInv

\* A new build is not complete, the others are.
LEMMA StartedNewest ==
  ASSUME NewestInv, NEW p \in Packages, NEW c \in Commits, BuildStarts(p, c)
  PROVE  NewestInv'
<1>1. ResolutionInv' /\ UNCHANGED <<registryTags, resolution>>
  BY BuildStartsSound DEF NewestInv, BuildStarts
<1>2. /\ Len(pushBuilds') = Len(pushBuilds) + 1
      /\ \A b \in 1..Len(pushBuilds) : pushBuilds'[b] = pushBuilds[b]
  <2> DEFINE build == [commit |-> c, package |-> p]
  <2>1. pushBuilds' = Append(pushBuilds, build) /\ build \in [commit : Commits, package : Packages]
    BY DEF BuildStarts
  <2>2. pushBuilds \in Seq([commit : Commits, package : Packages])
    BY DEF NewestInv, ResolutionInv, RegistrySound, Pushes
  <2> HIDE DEF build
  <2> QED BY <2>1, <2>2, LenProperties, AppendProperties
<1>3. /\ Len(pushBuilds) \in Nat /\ DOMAIN pushBuilds = 1..Len(pushBuilds)
      /\ DOMAIN pushBuilds' = 1..Len(pushBuilds')
  <2>1. pushBuilds \in Seq([commit : Commits, package : Packages])
        /\ pushBuilds' \in Seq([commit : Commits, package : Packages])
    BY <1>1 DEF NewestInv, ResolutionInv, RegistrySound, Pushes
  <2> QED BY <2>1, LenProperties
<1>4. pushing = {} /\ pushing' = Kinds \union {"snapshot"}
  BY DEF BuildStarts
<1>5. CompleteBuilds' = 1..Len(pushBuilds) /\ CompleteBuilds = 1..Len(pushBuilds)
  BY <1>2, <1>3, <1>4 DEF CompleteBuilds
<1>6. SnapshotsFollow'
  BY <1>1, <1>2, <1>4, <1>5 DEF SnapshotsFollow, NewestInv
<1> QED BY <1>1, <1>2, <1>5, <1>6, RegistryMoves

\* A push of the last build names no build that is complete already, and the
\* last of them, of main-snapshot, completes it.
LEMMA PushedNewest ==
  ASSUME NewestInv, NEW i \in Kinds \union {"snapshot"}, BuildPushes(i)
  PROVE  NewestInv'
<1> DEFINE b == Len(pushBuilds)
           p == pushBuilds[b].package
<1>1. ResolutionInv' /\ UNCHANGED <<pushBuilds, resolution>> /\ i \in pushing
      /\ pushing' = pushing \ {i} /\ pushing \subseteq Kinds \union {"snapshot"}
  BY PushSound DEF NewestInv, BuildPushes, ResolutionInv, RegistrySound
<1>2. /\ Len(pushBuilds) \in Nat /\ DOMAIN pushBuilds = 1..Len(pushBuilds) /\ Len(pushBuilds) > 0
      /\ \A n \in 1..Len(pushBuilds) : pushBuilds[n] \in [commit : Commits, package : Packages]
  BY <1>1, BuildFacts DEF NewestInv, ResolutionInv, RegistrySound
<1>3. p \in Packages /\ b \in 1..Len(pushBuilds) /\ CommitOfBuild(b) \in Commits
  BY <1>2 DEF CommitOfBuild
<1>4. CompleteBuilds = 1..(b - 1)
  BY <1>1, <1>2 DEF CompleteBuilds
<1>5. registryTags \in [Packages -> [sha : [Kinds -> [Commits -> 0..MaxBuild]], snapshot : 0..MaxBuild]]
  BY DEF NewestInv, ResolutionInv, RegistrySound
<1>6. SnapshotsFollow
  BY DEF NewestInv
<1>7. CASE i = "snapshot"
  <2>1. pushing = {i} /\ registryTags' = [registryTags EXCEPT ![p].snapshot = b]
    BY <1>7 DEF BuildPushes
  <2>2. pushing' = {}
    BY <1>1, <2>1
  <2>3. CompleteBuilds' = 1..b
    BY <1>1, <1>2, <2>2 DEF CompleteBuilds
  <2> HIDE DEF p
  <2>4. \A q \in Packages :
          /\ registryTags'[q].sha = registryTags[q].sha
          /\ registryTags'[q].snapshot = IF q = p THEN b ELSE registryTags[q].snapshot
    BY <1>3, <1>5, <2>1
  <2>5. ASSUME NEW q \in Packages
        PROVE  /\ registryTags'[q].snapshot # 0 => registryTags'[q].snapshot \in 1..b
               /\ \A n \in 1..b : pushBuilds[n].package = q => n <= registryTags'[q].snapshot
    <3>1. CASE q = p
      BY <1>2, <2>4, <3>1
    <3>2. CASE q # p
      <4>1. registryTags'[q].snapshot = registryTags[q].snapshot
        BY <2>4, <3>2
      <4>2. /\ registryTags[q].snapshot # 0 => registryTags[q].snapshot \in 1..(b - 1)
            /\ \A n \in 1..(b - 1) : pushBuilds[n].package = q => n <= registryTags[q].snapshot
        BY <1>4, <1>6 DEF SnapshotsFollow
      <4>3. \A n \in 1..b : pushBuilds[n].package = q => n \in 1..(b - 1)
        BY <1>2, <3>2 DEF p
      <4> QED BY <1>2, <4>1, <4>2, <4>3
    <3> QED BY <3>1, <3>2
  <2>6. SnapshotsFollow'
    BY <1>1, <2>2, <2>3, <2>5 DEF SnapshotsFollow
  <2>7. CompleteBuilds \subseteq CompleteBuilds'
    BY <1>2, <1>4, <2>3
  <2> QED BY <1>1, <2>4, <2>6, <2>7, RegistryMoves
<1>8. CASE i # "snapshot"
  <2> DEFINE c == CommitOfBuild(b)
  <2>1. i \in Kinds /\ registryTags' = [registryTags EXCEPT ![p].sha[i][c] = b]
    BY <1>8 DEF BuildPushes
  <2>2. "snapshot" \in pushing' /\ pushing # {}
    BY <1>1, <1>6, <1>8 DEF SnapshotsFollow
  <2>3. CompleteBuilds' = CompleteBuilds
    BY <1>1, <2>2 DEF CompleteBuilds
  <2> HIDE DEF p, c
  <2>4. /\ \A q \in Packages : registryTags'[q].snapshot = registryTags[q].snapshot
        /\ \A q \in Packages, d \in Commits :
             \/ registryTags'[q].sha["service"][d] = registryTags[q].sha["service"][d]
             \/ registryTags'[q].sha["service"][d] = b
    BY <1>3, <1>5, <2>1 DEF c, Kinds
  <2>5. SnapshotsFollow'
    BY <1>1, <1>6, <2>2, <2>3, <2>4 DEF SnapshotsFollow
  <2>6. ASSUME NEW q \in Packages, NEW s \in CompleteBuilds,
               registryTags[q].sha["service"][pushBuilds[s].commit] # s
        PROVE  registryTags'[q].sha["service"][pushBuilds[s].commit] # s
    <3>1. s # b /\ s \in 1..Len(pushBuilds)
      BY <1>2, <1>4
    <3>2. pushBuilds[s].commit \in Commits
      BY <1>2, <3>1
    <3> QED BY <2>4, <2>6, <3>1, <3>2
  <2> QED BY <1>1, <2>3, <2>5, <2>6, RegistryMoves
<1> QED BY <1>7, <1>8

\* A tag that is pruned names no build.
LEMMA PrunedNewest ==
  ASSUME NewestInv, NEW p \in Packages, NEW i \in Kinds, NEW c \in Commits, Prunes(p, i, c)
  PROVE  NewestInv'
<1>1. UNCHANGED <<pushBuilds, pushing, resolution>>
      /\ registryTags' = [registryTags EXCEPT ![p].sha[i][c] = 0]
  BY DEF Prunes
<1>2. ResolutionInv'
  BY PruneSound DEF NewestInv
<1>3. registryTags \in [Packages -> [sha : [Kinds -> [Commits -> 0..MaxBuild]], snapshot : 0..MaxBuild]]
  BY DEF NewestInv, ResolutionInv, RegistrySound
<1>4. /\ \A q \in Packages : registryTags'[q].snapshot = registryTags[q].snapshot
      /\ \A q \in Packages, d \in Commits :
           \/ registryTags'[q].sha["service"][d] = registryTags[q].sha["service"][d]
           \/ registryTags'[q].sha["service"][d] = 0
  BY <1>1, <1>3 DEF Kinds
<1>5. CompleteBuilds' = CompleteBuilds
  BY <1>1 DEF CompleteBuilds
<1>6. SnapshotsFollow'
  BY <1>1, <1>4, <1>5 DEF NewestInv, SnapshotsFollow
<1>7. ASSUME NEW q \in Packages, NEW s \in CompleteBuilds,
             registryTags[q].sha["service"][pushBuilds[s].commit] # s
      PROVE  registryTags'[q].sha["service"][pushBuilds[s].commit] # s
  <2>1. s # 0 /\ pushBuilds[s].commit \in Commits
    BY BuildFacts DEF NewestInv
  <2> QED BY <1>4, <1>7, <2>1
<1> QED BY <1>1, <1>2, <1>5, <1>6, <1>7, RegistryMoves

---------------------------------------------------------------------------
(* The call's own steps.                                                     *)

\* A step of the call, in the builds and tags it finds.
LEMMA CallMovesOn ==
  ASSUME NewestInv, ResolutionInv', UNCHANGED <<pushBuilds, registryTags, pushing>>,
         Dated(resolution'), Tracked(resolution', CompleteBuilds, pushBuilds, registryTags)
  PROVE  NewestInv'
<1>1. CompleteBuilds' = CompleteBuilds
  BY DEF CompleteBuilds
<1>2. SnapshotsFollow'
  BY <1>1 DEF NewestInv, SnapshotsFollow
<1> QED BY <1>1, <1>2 DEF NewestInv

\* A call that has found nothing is dated.
LEMMA NothingFound ==
  ASSUME NEW r, r.found = [p \in Packages |-> NotFound], r.at # "listed"
  PROVE  Dated(r)
BY DEF Dated

\* A refused call follows nothing.
LEMMA RefusedNewest ==
  Dated(ResolutionRefused) /\ Tracked(ResolutionRefused, CompleteBuilds, pushBuilds, registryTags)
<1>1. /\ ResolutionRefused.found = [p \in Packages |-> NotFound]
      /\ ResolutionRefused.at = "refused" /\ ResolutionRefused.floor = 0
  BY DEF ResolutionRefused, NoResolution
<1>2. Dated(ResolutionRefused)
  BY <1>1, NothingFound
<1> QED BY <1>1, <1>2 DEF Tracked

\* A phase ends when none of its packages is left.
LEMMA NextPackageNewest ==
  ASSUME ResolutionInv, NEW r \in Resolutions, r.at \in {"snapshots", "searching"}, Dated(r),
         Tracked(r, CompleteBuilds, pushBuilds, registryTags)
  PROVE  /\ Dated(NextPackage(r))
         /\ Tracked(NextPackage(r), CompleteBuilds, pushBuilds, registryTags)
<1>1. CASE r.todo # {}
  BY <1>1 DEF NextPackage
<1>2. CASE r.todo = {} /\ r.at = "snapshots"
  <2> DEFINE carried == {p \in Packages : r.snapshots[p] # 0}
             next == [r EXCEPT !.at = "searching", !.todo = carried]
  <2>1. CASE carried = {}
    BY <1>2, <2>1, RefusedNewest DEF NextPackage
  <2>2. CASE carried # {}
    <3>1. /\ next.at = "searching" /\ next.todo = carried /\ next.found = r.found
          /\ next.snapshots = r.snapshots /\ next.floor = r.floor
      BY DEF Resolutions
    <3>2. ASSUME r.floor # 0
          PROVE  LET p == pushBuilds[r.floor].package IN
                 /\ r.floor \in CompleteBuilds /\ r.snapshots[p] \in CompleteBuilds
                 /\ r.snapshots[p] >= r.floor /\ p \in carried
      <4> DEFINE p == pushBuilds[r.floor].package
      <4>1. /\ r.floor \in CompleteBuilds /\ r.snapshots[p] \in CompleteBuilds
            /\ r.snapshots[p] >= r.floor
        BY <1>2, <3>2 DEF Tracked
      <4>2. p \in Packages /\ r.snapshots[p] # 0
        BY <4>1, BuildFacts
      <4> QED BY <4>1, <4>2
    <3> HIDE DEF next, carried
    <3>3. Dated(next)
      BY <3>1 DEF Dated
    <3>4. Tracked(next, CompleteBuilds, pushBuilds, registryTags)
      BY <3>1, <3>2 DEF Tracked, Settled
    <3> QED BY <1>2, <2>2, <3>3, <3>4 DEF NextPackage, next, carried
  <2> QED BY <2>1, <2>2
<1>3. CASE r.todo = {} /\ r.at = "searching"
  <2>1. CASE \A p \in Packages : r.found[p] = NotFound
    BY <1>3, <2>1, RefusedNewest DEF NextPackage
  <2>2. CASE ~\A p \in Packages : r.found[p] = NotFound
    <3> DEFINE at == IF "schema-load" \in r.wants THEN "pairing" ELSE "resolved"
               next == [r EXCEPT !.at = at]
    <3>1. /\ next.at \in {"pairing", "resolved"} /\ next.found = r.found
          /\ next.snapshots = r.snapshots /\ next.floor = r.floor
      BY DEF Resolutions
    <3> HIDE DEF next
    <3>2. Dated(next)
      BY <3>1 DEF Dated
    <3>3. Tracked(next, CompleteBuilds, pushBuilds, registryTags)
      BY <1>3, <3>1 DEF Tracked, Settled
    <3> QED BY <1>3, <2>2, <3>2, <3>3 DEF NextPackage, next
  <2> QED BY <2>1, <2>2
<1> QED BY <1>1, <1>2, <1>3

\* A call starts at the newest complete build.
LEMMA StartNewest ==
  ASSUME NewestInv, NEW wants \in Wanted, ResolutionStarts(wants)
  PROVE  NewestInv'
<1> DEFINE floor == IF CompleteBuilds = {} THEN 0 ELSE LatestOf(CompleteBuilds)
<1>1. /\ resolution'.at = "snapshots" /\ resolution'.todo = Packages
      /\ resolution'.floor = floor /\ resolution'.found = [p \in Packages |-> NotFound]
  BY DEF ResolutionStarts, NoResolution
<1>2. floor # 0 => floor \in CompleteBuilds
  <2> SUFFICES ASSUME CompleteBuilds # {} PROVE LatestOf(CompleteBuilds) \in CompleteBuilds
    OBVIOUS
  <2> DEFINE f == [b \in CompleteBuilds |-> b]
  <2>1. /\ Len(pushBuilds) \in Nat /\ CompleteBuilds \subseteq 1..Len(pushBuilds)
    BY BuildFacts DEF NewestInv
  <2>2. \A b \in CompleteBuilds : f[b] \in 0..Len(pushBuilds)
    BY <2>1
  <2>3. \E b \in CompleteBuilds : \A other \in CompleteBuilds : f[b] >= f[other]
    <3> HIDE DEF f
    <3> QED BY <2>1, <2>2, GreatestExists
  <2>4. \E b \in CompleteBuilds : \A other \in CompleteBuilds : other <= b
    BY <2>1, <2>3
  <2> QED BY <2>4 DEF LatestOf
<1>3. floor # 0 => pushBuilds[floor].package \in Packages
  BY <1>2, BuildFacts DEF NewestInv
<1> HIDE DEF floor
<1>4. Tracked(resolution', CompleteBuilds, pushBuilds, registryTags)
  BY <1>1, <1>2, <1>3 DEF Tracked
<1>5. Dated(resolution')
  BY <1>1, NothingFound
<1>6. ResolutionInv' /\ UNCHANGED <<pushBuilds, registryTags, pushing>>
  BY StartSound DEF NewestInv, ResolutionStarts
<1> QED BY <1>4, <1>5, <1>6, CallMovesOn

\* What main-snapshot names is no older than the newest build of its package.
LEMMA SnapshotNewest ==
  ASSUME NewestInv, NEW p \in Packages, ReadSnapshot(p)
  PROVE  NewestInv'
<1> DEFINE r == [resolution EXCEPT !.snapshots[p] = registryTags[p].snapshot, !.todo = @ \ {p}]
<1>1. /\ resolution \in Resolutions /\ resolution.at = "snapshots"
      /\ registryTags[p].snapshot \in Nat
  BY DEF NewestInv, ResolutionInv, CallSound, RegistrySound, ReadSnapshot
<1>2. /\ r.at = "snapshots" /\ r.found = resolution.found /\ r.floor = resolution.floor
      /\ r.todo = resolution.todo \ {p}
      /\ \A q \in Packages :
           r.snapshots[q] = IF q = p THEN registryTags[p].snapshot ELSE resolution.snapshots[q]
  BY <1>1 DEF Resolutions
<1>3. r \in Resolutions
  <2>1. [resolution.snapshots EXCEPT ![p] = registryTags[p].snapshot] \in [Packages -> Nat]
    BY <1>1 DEF Resolutions
  <2> QED BY <1>1, <2>1 DEF Resolutions
<1> HIDE DEF r
<1>4. Dated(r)
  BY <1>2 DEF NewestInv, Dated
<1>5. Tracked(r, CompleteBuilds, pushBuilds, registryTags)
  <2> SUFFICES ASSUME r.floor # 0 PROVE Tracked(r, CompleteBuilds, pushBuilds, registryTags)
    BY DEF Tracked
  <2> DEFINE q == pushBuilds[r.floor].package
  <2>1. /\ r.floor \in CompleteBuilds
        /\ q \in resolution.todo \/ (resolution.snapshots[q] \in CompleteBuilds
                                      /\ resolution.snapshots[q] >= r.floor)
    BY <1>1, <1>2 DEF NewestInv, Tracked
  <2>2. q \in Packages /\ r.floor \in Nat \ {0}
    BY <2>1, BuildFacts DEF NewestInv
  <2>3. CASE q = p
    <3>1. r.floor <= registryTags[p].snapshot
      BY <2>1, <2>3 DEF NewestInv, SnapshotsFollow
    <3>2. registryTags[p].snapshot \in CompleteBuilds
      BY <1>1, <2>2, <3>1 DEF NewestInv, SnapshotsFollow
    <3>3. r.snapshots[q] = registryTags[p].snapshot
      BY <1>2, <2>3
    <3>4. r.snapshots[q] \in CompleteBuilds /\ r.snapshots[q] >= r.floor
      BY <1>1, <2>2, <3>1, <3>2, <3>3
    <3> QED BY <1>2, <2>1, <3>4 DEF Tracked
  <2>4. CASE q # p
    <3>1. r.snapshots[q] = resolution.snapshots[q] /\ (q \in resolution.todo => q \in r.todo)
      BY <1>2, <2>2, <2>4
    <3> QED BY <1>2, <2>1, <3>1 DEF Tracked
  <2> QED BY <2>3, <2>4
<1>6. resolution' = NextPackage(r) /\ UNCHANGED <<pushBuilds, registryTags, pushing>>
  BY DEF ReadSnapshot, r
<1>7. ResolutionInv' /\ ResolutionInv
  BY SnapshotSound DEF NewestInv
<1>8. Dated(resolution') /\ Tracked(resolution', CompleteBuilds, pushBuilds, registryTags)
  BY <1>2, <1>3, <1>4, <1>5, <1>6, <1>7, NextPackageNewest
<1> QED BY <1>6, <1>7, <1>8, CallMovesOn

\* A tag that names the build is listed.
LEMMA ListNewest ==
  ASSUME NewestInv, NEW p \in Packages, ListTags(p)
  PROVE  NewestInv'
<1> DEFINE listed == {<<p, c>> : c \in ListedCommits(p)}
<1>1. /\ resolution \in Resolutions /\ resolution.at = "searching"
      /\ resolution' = [resolution EXCEPT !.at = "listed", !.todo = @ \ {p}, !.listed = listed]
  BY DEF NewestInv, ResolutionInv, CallSound, ListTags
<1>2. \A l \in listed : l[1] = p
  OBVIOUS
<1>3. \A c \in Commits : registryTags[p].sha["service"][c] # 0 => <<p, c>> \in listed
  BY DEF ListedCommits
<1> HIDE DEF listed
<1>4. /\ resolution'.at = "listed" /\ resolution'.listed = listed
      /\ resolution'.todo = resolution.todo \ {p} /\ resolution'.found = resolution.found
      /\ resolution'.snapshots = resolution.snapshots /\ resolution'.floor = resolution.floor
  BY <1>1 DEF Resolutions
<1>5. Dated(resolution')
  BY <1>2, <1>4 DEF NewestInv, Dated
<1>6. Tracked(resolution', CompleteBuilds, pushBuilds, registryTags)
  <2> SUFFICES ASSUME resolution.floor # 0
               PROVE  Tracked(resolution', CompleteBuilds, pushBuilds, registryTags)
    BY <1>4 DEF Tracked
  <2> DEFINE q == pushBuilds[resolution.floor].package
             s == resolution.snapshots[q]
             c == pushBuilds[s].commit
  <2>1. /\ resolution.floor \in CompleteBuilds /\ s \in CompleteBuilds /\ s >= resolution.floor
        /\ Settled(resolution, q, s, c, registryTags)
    BY <1>1 DEF NewestInv, Tracked
  <2> HIDE DEF q, s
  <2>2. s # 0 /\ c \in Commits
    <3>1. s \in 1..Len(pushBuilds) /\ Len(pushBuilds) \in Nat
      BY <2>1, BuildFacts DEF NewestInv
    <3>2. pushBuilds[s] \in [commit : Commits, package : Packages]
      BY <3>1, BuildFacts DEF NewestInv
    <3> QED BY <3>1, <3>2
  <2> HIDE DEF c
  <2>3. Settled(resolution', q, s, c, registryTags)
    BY <1>1, <1>3, <1>4, <2>1, <2>2 DEF Settled
  <2> QED BY <1>4, <2>1, <2>3 DEF Tracked, q, s, c
<1>7. ResolutionInv' /\ UNCHANGED <<pushBuilds, registryTags, pushing>>
  BY ListSound DEF NewestInv, ListTags
<1> QED BY <1>5, <1>6, <1>7, CallMovesOn

\* The match of the only package listed; a listed tag that does not match has
\* moved.
LEMMA MatchNewest ==
  ASSUME ~UnreadCreated, NewestInv, MatchTag
  PROVE  NewestInv'
<1>1. /\ resolution \in Resolutions /\ resolution.at = "listed"
      /\ \A l, m \in resolution.listed : l[1] = m[1]
      /\ resolution.listed \subseteq Packages \X Commits
  BY DEF NewestInv, ResolutionInv, CallSound, MatchTag, Dated, Resolutions
<1>2. ResolutionInv' /\ ResolutionInv /\ UNCHANGED <<pushBuilds, registryTags, pushing>>
  BY MatchSound DEF NewestInv, MatchTag
<1>3. Dated(resolution) /\ Tracked(resolution, CompleteBuilds, pushBuilds, registryTags)
  BY DEF NewestInv
<1> DEFINE matches == {l \in resolution.listed : NamesSnapshot(resolution, l[1], l[2])}
           unmatched == [resolution EXCEPT !.at = "searching", !.listed = {}]
           found(l, time) == [commit |-> l[2], digest |-> resolution.snapshots[l[1]],
                              created |-> time, acceptance |-> 0]
           matched(l, time) == [resolution EXCEPT !.at = "matched", !.listed = {l},
                                                  !.found[l[1]] = found(l, time)]
  \* What was settled before the match is settled after it.
<1>4. ASSUME NEW r, r.at \in {"searching", "matched"}, r.todo = resolution.todo,
             r.floor = resolution.floor, r.snapshots = resolution.snapshots,
             \A p \in Packages, c \in Commits :
               /\ <<p, c>> \in matches => r.found[p] # NotFound /\ r.found[p].digest = r.snapshots[p]
               /\ resolution.found[p] # NotFound /\ resolution.found[p].digest = r.snapshots[p]
                    => r.found[p] # NotFound /\ r.found[p].digest = r.snapshots[p]
      PROVE  Tracked(r, CompleteBuilds, pushBuilds, registryTags)
  <2> SUFFICES ASSUME r.floor # 0 PROVE Tracked(r, CompleteBuilds, pushBuilds, registryTags)
    BY DEF Tracked
  <2> DEFINE q == pushBuilds[r.floor].package
             s == r.snapshots[q]
             c == pushBuilds[s].commit
  <2>1. /\ r.floor \in CompleteBuilds /\ s \in CompleteBuilds /\ s >= r.floor
        /\ Settled(resolution, q, s, c, registryTags)
    BY <1>1, <1>3, <1>4 DEF Tracked
  <2>2. q \in Packages
    BY <2>1, <1>2, BuildFacts
  <2> HIDE DEF q, s
  <2>3. c \in Commits
    BY <2>1, <1>2, BuildFacts
  <2> HIDE DEF c
  <2>4. <<q, c>> \in resolution.listed => <<q, c>> \in matches \/ registryTags[q].sha["service"][c] # s
    BY <1>4 DEF NamesSnapshot, s
  <2> HIDE DEF matches
  <2>5. Settled(r, q, s, c, registryTags)
    BY <1>1, <1>4, <2>1, <2>2, <2>3, <2>4 DEF Settled, s
  <2> QED BY <2>1, <2>5 DEF Tracked, q, s, c
<1>5. CASE matches = {} /\ resolution' = NextPackage(unmatched)
  <2>1. /\ unmatched \in Resolutions /\ unmatched.at = "searching"
        /\ unmatched.found = resolution.found /\ unmatched.floor = resolution.floor
        /\ unmatched.snapshots = resolution.snapshots /\ unmatched.todo = resolution.todo
    BY <1>1 DEF Resolutions, Ats
  <2> HIDE DEF unmatched, matches
  <2>2. Tracked(unmatched, CompleteBuilds, pushBuilds, registryTags)
    BY <1>4, <1>5, <2>1
  <2>3. Dated(unmatched)
    BY <1>3, <2>1 DEF Dated
  <2>4. Dated(resolution') /\ Tracked(resolution', CompleteBuilds, pushBuilds, registryTags)
    BY <1>2, <1>5, <2>1, <2>2, <2>3, NextPackageNewest
  <2> QED BY <1>2, <2>4, CallMovesOn
<1>6. ASSUME NEW l \in matches, NEW time \in ReadCreated(resolution.snapshots[l[1]]),
             resolution' = matched(l, time)
      PROVE  NewestInv'
  <2>1. l \in resolution.listed /\ l[1] \in Packages /\ l = <<l[1], l[2]>>
    BY <1>1
  <2>2. found(l, time).digest = resolution.snapshots[l[1]] /\ found(l, time).created = time
    OBVIOUS
  <2>3. resolution.snapshots[l[1]] # 0
    BY <1>1, <1>2, <2>1 DEF ResolutionInv, CallSound
  <2>4. found(l, time) # NotFound
    BY <2>2, <2>3 DEF NotFound
  <2>5. time = resolution.snapshots[l[1]]
    BY DEF ReadCreated
  <2> HIDE DEF found
  <2>6. /\ resolution'.at = "matched" /\ resolution'.todo = resolution.todo
        /\ resolution'.floor = resolution.floor /\ resolution'.snapshots = resolution.snapshots
        /\ \A p \in Packages :
             resolution'.found[p] = IF p = l[1] THEN found(l, time) ELSE resolution.found[p]
    BY <1>1, <1>6, <2>1 DEF Resolutions
  <2>7. \A p, c : <<p, c>> \in matches => p = l[1]
    <3>1. ASSUME NEW p, NEW c, <<p, c>> \in matches PROVE p = l[1]
      <4>1. <<p, c>> \in resolution.listed /\ <<p, c>>[1] = p
        BY <3>1
      <4> QED BY <1>1, <2>1, <4>1
    <3> QED BY <3>1
  <2> HIDE DEF matches
  <2>8. Tracked(resolution', CompleteBuilds, pushBuilds, registryTags)
    BY <1>4, <2>2, <2>4, <2>6, <2>7
  <2>9. Dated(resolution')
    BY <1>3, <2>2, <2>5, <2>6 DEF Dated
  <2> QED BY <1>2, <2>8, <2>9, CallMovesOn
<1> QED BY <1>5, <1>6 DEF MatchTag

\* The acceptance image beside what was found changes nothing in it.
LEMMA AcceptanceNewest ==
  ASSUME NewestInv, ReadAcceptance
  PROVE  NewestInv'
<1>1. /\ resolution \in Resolutions /\ CallSound(resolution, pushBuilds)
      /\ resolution.at = "matched"
  BY DEF NewestInv, ResolutionInv, CallSound, ReadAcceptance
<1>2. PICK l \in resolution.listed :
        resolution' = NextPackage([resolution EXCEPT !.at = "searching", !.listed = {},
                        !.found[l[1]].acceptance = registryTags[l[1]].sha["acceptance"][l[2]]])
  BY DEF ReadAcceptance
<1>3. l[1] \in Packages /\ l[2] \in Commits /\ resolution.found[l[1]] # NotFound
  BY <1>1, <1>2 DEF CallSound
<1> DEFINE tag == registryTags[l[1]].sha["acceptance"][l[2]]
           r == [resolution EXCEPT !.at = "searching", !.listed = {}, !.found[l[1]].acceptance = tag]
           accepted == [resolution.found[l[1]] EXCEPT !.acceptance = tag]
<1>4. tag \in Nat
  BY <1>3 DEF NewestInv, ResolutionInv, RegistrySound, Kinds
<1> HIDE DEF tag
<1>5. resolution.found[l[1]] \in Founds /\ resolution.found[l[1]].digest # 0
  BY <1>1, <1>3 DEF CallSound, Resolutions, FoundSound, NamesBuildOf
<1>6. /\ accepted \in Founds /\ accepted.digest = resolution.found[l[1]].digest
      /\ accepted.created = resolution.found[l[1]].created
  BY <1>4, <1>5 DEF Founds
<1>7. accepted # NotFound
  BY <1>5, <1>6 DEF NotFound
<1>8. /\ r.at = "searching" /\ r.todo = resolution.todo /\ r.floor = resolution.floor
      /\ r.snapshots = resolution.snapshots
      /\ r.found = [resolution.found EXCEPT ![l[1]] = accepted]
  BY <1>1 DEF Resolutions
<1> HIDE DEF accepted
<1>9. r \in Resolutions
  <2>1. [resolution.found EXCEPT ![l[1]] = accepted] \in [Packages -> Founds]
    BY <1>1, <1>3, <1>6 DEF Resolutions
  <2> QED BY <1>1, <1>8, <2>1 DEF Resolutions, Ats
<1> HIDE DEF r
<1>10. \A p \in Packages :
         /\ r.found[p] # NotFound <=> resolution.found[p] # NotFound
         /\ r.found[p].digest = resolution.found[p].digest
         /\ r.found[p].created = resolution.found[p].created
  BY <1>1, <1>3, <1>6, <1>7, <1>8 DEF Resolutions
<1>11. Dated(r)
  BY <1>8, <1>10 DEF NewestInv, Dated
<1>12. Tracked(r, CompleteBuilds, pushBuilds, registryTags)
  <2> SUFFICES ASSUME r.floor # 0 PROVE Tracked(r, CompleteBuilds, pushBuilds, registryTags)
    BY DEF Tracked
  <2> DEFINE q == pushBuilds[r.floor].package
             s == r.snapshots[q]
             c == pushBuilds[s].commit
  <2>1. /\ r.floor \in CompleteBuilds /\ s \in CompleteBuilds /\ s >= r.floor
        /\ Settled(resolution, q, s, c, registryTags)
    BY <1>1, <1>8 DEF NewestInv, Tracked
  <2>2. q \in Packages
    BY <2>1, BuildFacts DEF NewestInv
  <2> HIDE DEF q, s, c
  <2>3. Settled(r, q, s, c, registryTags)
    BY <1>1, <1>8, <1>10, <2>1, <2>2 DEF Settled
  <2> QED BY <2>1, <2>3 DEF Tracked, q, s, c
<1>13. resolution' = NextPackage(r) /\ UNCHANGED <<pushBuilds, registryTags, pushing>>
  BY <1>2 DEF ReadAcceptance, r, tag
<1>14. ResolutionInv' /\ ResolutionInv
  BY AcceptanceSound DEF NewestInv
<1>15. Dated(resolution') /\ Tracked(resolution', CompleteBuilds, pushBuilds, registryTags)
  BY <1>8, <1>9, <1>11, <1>12, <1>13, <1>14, NextPackageNewest
<1> QED BY <1>13, <1>14, <1>15, CallMovesOn

\* The loader is read when everything is settled.
LEMMA LoaderNewest ==
  ASSUME NewestInv, ReadLoader
  PROVE  NewestInv'
<1>1. /\ resolution \in Resolutions /\ resolution.at = "pairing"
      /\ ResolutionInv' /\ UNCHANGED <<pushBuilds, registryTags, pushing>>
  BY LoaderSound DEF NewestInv, ResolutionInv, CallSound, ReadLoader
<1>2. CASE resolution' = ResolutionRefused
  BY <1>1, <1>2, RefusedNewest, CallMovesOn
<1>3. CASE resolution' = [resolution EXCEPT !.at = "resolved", !.loader = LoaderTag(resolution)]
  <2>1. /\ resolution'.at = "resolved" /\ resolution'.found = resolution.found
        /\ resolution'.snapshots = resolution.snapshots /\ resolution'.floor = resolution.floor
    BY <1>1, <1>3 DEF Resolutions
  <2>2. Dated(resolution')
    BY <2>1 DEF NewestInv, Dated
  <2>3. Tracked(resolution', CompleteBuilds, pushBuilds, registryTags)
    BY <1>1, <2>1 DEF NewestInv, Tracked, Settled
  <2> QED BY <1>1, <2>2, <2>3, CallMovesOn
<1> QED BY <1>2, <1>3 DEF ReadLoader

\* Every step of the fork's CI and of the call keeps what became of the newest
\* build.
LEMMA NewestNextInv ==
  ASSUME ~UnreadCreated
  PROVE  NewestInv /\ [ResolutionNext]_resolutionVars => NewestInv'
<1> SUFFICES ASSUME NewestInv, [ResolutionNext]_resolutionVars PROVE NewestInv'
  OBVIOUS
<1>1. CASE UNCHANGED resolutionVars
  <2>1. ResolutionInv' /\ UNCHANGED <<pushBuilds, registryTags, pushing>> /\ resolution' = resolution
    BY <1>1, ResolutionNextInv DEF NewestInv, resolutionVars
  <2> QED BY <2>1, CallMovesOn DEF NewestInv
<1>2. CASE ReadFails
  <2>1. ResolutionInv'
    BY <1>2, RefusedCall, ReadKeeps DEF ReadFails, NewestInv
  <2> QED BY <1>2, <2>1, RefusedNewest, CallMovesOn DEF ReadFails
<1>3. CASE ResolutionStep /\ ~ReadFails
  BY <1>3, SnapshotNewest, ListNewest, MatchNewest, AcceptanceNewest, LoaderNewest DEF ResolutionStep
<1> QED BY <1>1, <1>2, <1>3, StartNewest, StartedNewest, PushedNewest, PrunedNewest DEF ResolutionNext

\* At first nothing is published and no call is on.
LEMMA NewestInitInv == ResolutionInit => NewestInv
<1> SUFFICES ASSUME ResolutionInit PROVE NewestInv
  OBVIOUS
<1>1. ResolutionInv
  BY ResolutionInitInv
<1>2. /\ resolution.floor = 0 /\ resolution.found = [p \in Packages |-> NotFound]
      /\ resolution.at = "idle"
  BY DEF ResolutionInit, NoResolution
<1>3. Dated(resolution) /\ Tracked(resolution, CompleteBuilds, pushBuilds, registryTags)
  BY <1>2, NothingFound DEF Tracked
<1>4. CompleteBuilds = {}
  BY DEF ResolutionInit, CompleteBuilds
<1>5. SnapshotsFollow
  BY <1>4 DEF SnapshotsFollow, ResolutionInit, Unpublished
<1> QED BY <1>1, <1>3, <1>5 DEF NewestInv

\* The newest of the candidates answers with the newest build among them.
LEMMA NewestAnswers ==
  ASSUME NewestInv
  PROVE  NewestBuildDecides
<1> SUFFICES ASSUME resolution.at = "resolved", resolution.floor # 0 PROVE NewestBuildDecides
  BY DEF NewestBuildDecides
<1> DEFINE q == pushBuilds[resolution.floor].package
           s == resolution.snapshots[q]
           c == pushBuilds[s].commit
           f == [p \in Packages |-> resolution.found[p].created]
<1>1. /\ resolution.floor \in CompleteBuilds /\ s \in CompleteBuilds /\ s >= resolution.floor
      /\ Settled(resolution, q, s, c, registryTags)
  BY DEF NewestInv, Tracked
<1>2. q \in Packages /\ s \in Nat /\ resolution.floor \in Nat
  BY <1>1, BuildFacts DEF NewestInv
<1> HIDE DEF q, s, c
<1>3. CASE registryTags[q].sha["service"][c] # s
  BY <1>3 DEF NewestBuildDecides, CommitOfBuild, q, s, c
<1>4. CASE resolution.found[q] # NotFound /\ resolution.found[q].digest = s
  <2>1. /\ CallSound(resolution, pushBuilds) /\ Len(pushBuilds) \in Nat /\ Dated(resolution)
        /\ q \in Candidates(resolution)
    BY <1>2, <1>4, BuildFacts DEF NewestInv, ResolutionInv, Candidates
  <2>2. \A p \in Candidates(resolution) : f[p] \in 0..Len(pushBuilds)
    BY <2>1 DEF CallSound, Candidates, FoundSound, NamesBuildOf
  <2>3. \E p \in Candidates(resolution) : \A other \in Candidates(resolution) : f[p] >= f[other]
    <3> HIDE DEF f
    <3> QED BY <2>1, <2>2, GreatestExists
  <2>4. Winners(resolution) # {}
    BY <2>3 DEF Winners, CreatedAt, Candidates
  <2>5. /\ Winner(resolution) \in Candidates(resolution)
        /\ CreatedAt(resolution, Winner(resolution)) >= CreatedAt(resolution, q)
    BY <2>1, <2>4 DEF Winner, Winners
  <2>6. /\ CreatedAt(resolution, q) = s
        /\ CreatedAt(resolution, Winner(resolution)) = Resolved(resolution).digest
    BY <1>4, <2>1, <2>5 DEF CreatedAt, Resolved, Dated, Candidates
  <2>7. f[Winner(resolution)] \in Nat
    BY <2>2, <2>5
  <2>8. Resolved(resolution).digest >= resolution.floor
    BY <1>1, <1>2, <2>5, <2>6, <2>7 DEF CreatedAt, Candidates
  <2> QED BY <2>8 DEF NewestBuildDecides
<1> QED BY <1>1, <1>3, <1>4 DEF Settled

\* When build times can be read, a resolution never answers with a build older
\* than the newest that was complete when it started, unless the tag of that
\* build's name was moved or pruned before it was read.
THEOREM NewestAlwaysDecides == ASSUME ~UnreadCreated PROVE ResolutionSpec => []NewestBuildDecides
BY NewestInitInv, NewestNextInv, NewestAnswers, PTL DEF ResolutionSpec

---------------------------------------------------------------------------
(* Local builds.                                                             *)

BuildSpec == BuildInit /\ [][BuildNext]_buildVars

BuildSteps == {"idle", "stamped", "compiled", "packaged", "stage", "run", "show", "untag",
               "built", "failed"}
Checkouts == [tree : Trees, jar : [from : Trees \union {"none"}, written : Nat]]
BuildCalls ==
  [at : BuildSteps, maven : BOOLEAN, dirty : BOOLEAN, prebuilt : BOOLEAN, stamp : Nat,
   image : Checkouts, digest : Builders \union {NoImage}]

Typed ==
  /\ checkouts \in [Builders -> Checkouts]
  /\ localTags \in [LocalTags -> Builders \union {NoImage}]
  /\ localBuilds \in [Builders -> BuildCalls]

\* The JAR is the one that was there at the start, or one of this tree.
AsStamped(b) == checkouts[b].jar.written = localBuilds[b].stamp
Fresh(b) == checkouts[b].jar = [from |-> checkouts[b].tree, written |-> 2]
Clean(b) == ~LateEdits /\ ~localBuilds[b].dirty /\ ~localBuilds[b].prebuilt
OfCommit == [tree |-> "base", jar |-> [from |-> "base", written |-> 2]]

\* What a call knows of its checkout, step by step.
CheckoutSound(b) ==
  /\ BuildAt(b, "stamped") => localBuilds[b].maven /\ AsStamped(b)
  /\ BuildAt(b, "compiled") => localBuilds[b].maven /\ (AsStamped(b) \/ Fresh(b))
  /\ BuildAt(b, "packaged") =>
       /\ AsStamped(b) \/ (localBuilds[b].maven /\ Fresh(b))
       /\ localBuilds[b].maven /\ ~localBuilds[b].dirty => checkouts[b].tree = "base"
  /\ BuildAt(b, "stage") => checkouts[b].jar # NoJar /\ (Clean(b) => checkouts[b] = OfCommit)

ImageSound(b) ==
  /\ localBuilds[b].at \in {"run", "show", "untag", "built"} =>
       localBuilds[b].image.jar # NoJar /\ (Clean(b) => localBuilds[b].image = OfCommit)
  /\ BuildAt(b, "show") => localTags[b] = b
  /\ localBuilds[b].at \in {"untag", "built"} => localBuilds[b].digest = b

BuildInv == Typed /\ \A b \in Builders : CheckoutSound(b) /\ ImageSound(b)

\* Nothing is built yet.
LEMMA BuildInitInv == BuildInit => BuildInv
<1> SUFFICES ASSUME BuildInit PROVE BuildInv
  OBVIOUS
<1>1. Typed
  BY DEF BuildInit, Typed, Checkouts, BuildCalls, BuildSteps, Trees, NoJar, NotBuilding
<1>2. ASSUME NEW b \in Builders PROVE CheckoutSound(b) /\ ImageSound(b)
  <2>1. localBuilds[b].at = "idle"
    BY DEF BuildInit, NotBuilding
  <2> QED BY <2>1 DEF CheckoutSound, ImageSound, BuildAt
<1> QED BY <1>1, <1>2 DEF BuildInv

\* A call's step leaves the other calls what they know.
LEMMA OthersKnow ==
  ASSUME BuildInv, NEW b \in Builders, NEW c \in Builders, c # b,
         checkouts'[c] = checkouts[c], localBuilds'[c] = localBuilds[c],
         localTags'[c] = localTags[c]
  PROVE  CheckoutSound(c)' /\ ImageSound(c)'
BY DEF BuildInv, CheckoutSound, ImageSound, BuildAt, AsStamped, Fresh, Clean

\* A step is sound when it is sound for the call that takes it.
LEMMA OneCall ==
  ASSUME BuildInv, NEW b \in Builders,
         NEW made \in Checkouts, NEW changed \in BuildCalls,
         checkouts' = [checkouts EXCEPT ![b] = made],
         localBuilds' = [localBuilds EXCEPT ![b] = changed],
         localTags' \in [LocalTags -> Builders \union {NoImage}],
         \A c \in Builders \ {b} : localTags'[c] = localTags[c],
         CheckoutSound(b)', ImageSound(b)'
  PROVE  BuildInv'
<1>1. Typed'
  BY DEF BuildInv, Typed
<1>2. ASSUME NEW c \in Builders, c # b PROVE CheckoutSound(c)' /\ ImageSound(c)'
  <2>1. checkouts'[c] = checkouts[c] /\ localBuilds'[c] = localBuilds[c]
    BY <1>2 DEF BuildInv, Typed
  <2> QED BY <1>2, <2>1, OthersKnow
<1> QED BY <1>1, <1>2 DEF BuildInv

---------------------------------------------------------------------------
(* The steps.  Each names what becomes of the call and of its checkout.      *)

\* What a step of b's call starts from.
LEMMA Knows ==
  ASSUME BuildInv, NEW b \in Builders
  PROVE  /\ checkouts[b] \in Checkouts /\ localBuilds[b] \in BuildCalls
         /\ checkouts = [checkouts EXCEPT ![b] = checkouts[b]]
         /\ CheckoutSound(b) /\ ImageSound(b)
         /\ localTags \in [LocalTags -> Builders \union {NoImage}]
BY DEF BuildInv, Typed

\* A failed call knows nothing.
LEMMA FailsSound ==
  ASSUME BuildInv, NEW b \in Builders, BuildFails(b), UNCHANGED <<checkouts, localTags>>
  PROVE  BuildInv'
<1> DEFINE changed == [localBuilds[b] EXCEPT !.at = "failed"]
<1>1. changed \in BuildCalls /\ changed.at = "failed"
  BY Knows DEF BuildCalls, BuildSteps
<1>2. localBuilds'[b] = changed
  BY DEF BuildFails, BuildGoes, BuildInv, Typed
<1>3. CheckoutSound(b)' /\ ImageSound(b)'
  BY <1>1, <1>2 DEF CheckoutSound, ImageSound, BuildAt
<1> HIDE DEF changed
<1>4. localBuilds' = [localBuilds EXCEPT ![b] = changed]
  BY DEF BuildFails, BuildGoes, changed
<1> QED BY <1>1, <1>3, <1>4, Knows, OneCall

\* A user's edit, late ones only where they are let in.
LEMMA EditSound ==
  ASSUME BuildInv, NEW b \in Builders, UserEdits(b)
  PROVE  BuildInv'
<1> DEFINE made == [checkouts[b] EXCEPT !.tree = IF @ = "base" THEN "edited" ELSE "next"]
<1>1. made \in Checkouts /\ made.jar = checkouts[b].jar
  BY Knows DEF Checkouts, Trees
<1>2. checkouts'[b] = made /\ checkouts' = [checkouts EXCEPT ![b] = made]
  BY DEF UserEdits, BuildInv, Typed
<1>3. localBuilds[b].at \in {"idle", "stamped"} \/ (BuildAt(b, "stage") /\ LateEdits)
  BY BuildAssumption DEF UserEdits, BuildAt
<1>4. UNCHANGED <<localTags, localBuilds>>
  BY DEF UserEdits
<1>5. CheckoutSound(b)' /\ ImageSound(b)'
  BY <1>1, <1>2, <1>3, <1>4, Knows DEF CheckoutSound, ImageSound, BuildAt, AsStamped, Clean
<1>6. localBuilds' = [localBuilds EXCEPT ![b] = localBuilds[b]]
  BY <1>4 DEF BuildInv, Typed
<1> QED BY <1>1, <1>2, <1>4, <1>5, <1>6, Knows, OneCall

\* Maven packages the tree it leaves, or nothing.
LEMMA MavenSound ==
  ASSUME BuildInv, NEW b \in Builders, NEW packages \in BOOLEAN, NEW rewrites \in BOOLEAN,
         MavenRuns(b, packages, rewrites)
  PROVE  BuildInv'
<1> DEFINE tree == IF rewrites THEN "edited" ELSE checkouts[b].tree
           made == [tree |-> tree,
                    jar |-> IF packages THEN [from |-> tree, written |-> 2] ELSE checkouts[b].jar]
           changed == [localBuilds[b] EXCEPT !.at = "compiled"]
<1>1. made \in Checkouts /\ changed \in BuildCalls
  BY Knows DEF Checkouts, Trees, BuildCalls, BuildSteps
<1>2. /\ checkouts' = [checkouts EXCEPT ![b] = made] /\ checkouts'[b] = made
      /\ localBuilds' = [localBuilds EXCEPT ![b] = changed] /\ localBuilds'[b] = changed
      /\ UNCHANGED localTags
  BY DEF MavenRuns, BuildGoes, BuildInv, Typed
<1>3. /\ changed.at = "compiled" /\ changed.maven = localBuilds[b].maven
      /\ changed.stamp = localBuilds[b].stamp
  BY Knows DEF BuildCalls
<1>4. localBuilds[b].maven /\ AsStamped(b)
  BY Knows DEF MavenRuns, CheckoutSound
<1>5. made.jar = checkouts[b].jar \/ made.jar = [from |-> made.tree, written |-> 2]
  OBVIOUS
<1>6. CheckoutSound(b)' /\ ImageSound(b)'
  BY <1>2, <1>3, <1>4, <1>5 DEF CheckoutSound, ImageSound, BuildAt, AsStamped, Fresh
<1> HIDE DEF tree, made, changed
<1> QED BY <1>1, <1>2, <1>6, Knows, OneCall

\* A step that only moves its call on.
LEMMA CallMoves ==
  ASSUME BuildInv, NEW b \in Builders, NEW changed \in BuildCalls, BuildGoes(b, changed),
         UNCHANGED <<checkouts, localTags>>,
         localBuilds'[b] = changed => CheckoutSound(b)' /\ ImageSound(b)'
  PROVE  BuildInv'
<1>1. localBuilds' = [localBuilds EXCEPT ![b] = changed] /\ localBuilds'[b] = changed
  BY DEF BuildGoes, BuildInv, Typed
<1> QED BY <1>1, Knows, OneCall

\* A call that begins knows how old the JAR is.
LEMMA BeginSound ==
  ASSUME BuildInv, NEW b \in Builders, NEW maven \in BOOLEAN, BuildBegins(b, maven)
  PROVE  BuildInv'
<1> DEFINE changed == [localBuilds[b] EXCEPT
             !.at = IF maven THEN "stamped" ELSE "packaged", !.maven = maven, !.prebuilt = ~maven,
             !.dirty = checkouts[b].tree = "edited", !.stamp = checkouts[b].jar.written]
<1>1. /\ changed \in BuildCalls /\ changed.stamp = checkouts[b].jar.written
      /\ changed.maven = maven /\ changed.at = IF maven THEN "stamped" ELSE "packaged"
  <2>1. /\ (IF maven THEN "stamped" ELSE "packaged") \in BuildSteps /\ (~maven) \in BOOLEAN
        /\ (checkouts[b].tree = "edited") \in BOOLEAN /\ checkouts[b].jar.written \in Nat
    BY Knows DEF BuildSteps, Checkouts
  <2> QED BY <2>1, Knows DEF BuildCalls
<1>2. BuildGoes(b, changed) /\ UNCHANGED <<checkouts, localTags>>
  BY DEF BuildBegins
<1> HIDE DEF changed
<1>3. ASSUME localBuilds'[b] = changed PROVE CheckoutSound(b)' /\ ImageSound(b)'
  BY <1>1, <1>2, <1>3 DEF CheckoutSound, ImageSound, BuildAt, AsStamped
<1> QED BY <1>1, <1>2, <1>3, CallMoves

\* After Maven an unmarked tree is the commit's.
LEMMA LookAgainSound ==
  ASSUME BuildInv, NEW b \in Builders, LookAgainAtTree(b)
  PROVE  BuildInv'
<1> DEFINE changed == [localBuilds[b] EXCEPT !.at = "packaged", !.dirty = @ \/ Changed(b)]
<1>1. /\ changed \in BuildCalls /\ changed.at = "packaged"
      /\ changed.maven = localBuilds[b].maven /\ changed.stamp = localBuilds[b].stamp
      /\ ~changed.dirty => checkouts[b].tree = "base"
  BY Knows DEF BuildCalls, BuildSteps, Changed
<1>2. BuildGoes(b, changed) /\ UNCHANGED <<checkouts, localTags>>
  BY DEF LookAgainAtTree
<1>3. localBuilds[b].maven /\ (AsStamped(b) \/ Fresh(b))
  BY Knows DEF LookAgainAtTree, CheckoutSound
<1> HIDE DEF changed
<1>4. ASSUME localBuilds'[b] = changed PROVE CheckoutSound(b)' /\ ImageSound(b)'
  BY <1>1, <1>2, <1>3, <1>4 DEF CheckoutSound, ImageSound, BuildAt, AsStamped, Fresh
<1> QED BY <1>1, <1>2, <1>4, CallMoves

\* A JAR that is not as it was stamped is one of this tree.
LEMMA ResolveJarSound ==
  ASSUME BuildInv, NEW b \in Builders, ResolveJar(b)
  PROVE  BuildInv'
<1>1. CASE ~Packaged(b)
  BY <1>1, FailsSound DEF ResolveJar
<1>2. CASE Packaged(b)
  <2> DEFINE changed == [localBuilds[b] EXCEPT !.at = "stage", !.prebuilt = Prebuilt(b)]
  <2>1. /\ changed \in BuildCalls /\ changed.at = "stage"
        /\ changed.dirty = localBuilds[b].dirty /\ (changed.prebuilt <=> Prebuilt(b))
    BY Knows DEF BuildCalls, BuildSteps, Prebuilt
  <2>2. BuildGoes(b, changed) /\ UNCHANGED <<checkouts, localTags>>
    BY <1>2 DEF ResolveJar
  <2>3. /\ checkouts[b].jar # NoJar
        /\ ~localBuilds[b].dirty /\ ~Prebuilt(b) => checkouts[b].tree = "base" /\ Fresh(b)
    BY <1>2, Knows DEF ResolveJar, CheckoutSound, Packaged, Prebuilt, AsStamped
  <2>4. checkouts[b].tree = "base" /\ Fresh(b) => checkouts[b] = OfCommit
    BY Knows DEF Fresh, OfCommit, Checkouts
  <2> HIDE DEF changed
  <2>5. ASSUME localBuilds'[b] = changed PROVE CheckoutSound(b)' /\ ImageSound(b)'
    BY <2>1, <2>2, <2>3, <2>4, <2>5 DEF CheckoutSound, ImageSound, BuildAt, Clean
  <2> QED BY <2>1, <2>2, <2>5, CallMoves
<1> QED BY <1>1, <1>2

\* The image is what is staged.
LEMMA StageSound ==
  ASSUME BuildInv, NEW b \in Builders, StageContext(b)
  PROVE  BuildInv'
<1> DEFINE changed == [localBuilds[b] EXCEPT !.at = "run", !.image = checkouts[b]]
<1>1. /\ changed \in BuildCalls /\ changed.at = "run" /\ changed.image = checkouts[b]
      /\ changed.dirty = localBuilds[b].dirty /\ changed.prebuilt = localBuilds[b].prebuilt
  BY Knows DEF BuildCalls, BuildSteps
<1>2. BuildGoes(b, changed) /\ UNCHANGED <<checkouts, localTags>>
  BY DEF StageContext
<1>3. checkouts[b].jar # NoJar /\ (Clean(b) => checkouts[b] = OfCommit)
  BY Knows DEF StageContext, CheckoutSound
<1> HIDE DEF changed
<1>4. ASSUME localBuilds'[b] = changed PROVE CheckoutSound(b)' /\ ImageSound(b)'
  BY <1>1, <1>2, <1>3, <1>4 DEF CheckoutSound, ImageSound, BuildAt, Clean
<1> QED BY <1>1, <1>2, <1>4, CallMoves

\* The task's two tags name the build, and no other run's tag moves.
LEMMA AcrRunsSound ==
  ASSUME BuildInv, NEW b \in Builders, AcrRuns(b)
  PROVE  BuildInv'
<1> DEFINE changed == [localBuilds[b] EXCEPT !.at = "show"]
<1>1. /\ changed \in BuildCalls /\ changed.at = "show" /\ changed.image = localBuilds[b].image
      /\ changed.dirty = localBuilds[b].dirty /\ changed.prebuilt = localBuilds[b].prebuilt
  BY Knows DEF BuildCalls, BuildSteps
<1>2. /\ localBuilds' = [localBuilds EXCEPT ![b] = changed] /\ localBuilds'[b] = changed
      /\ UNCHANGED checkouts
  BY DEF AcrRuns, BuildGoes, BuildInv, Typed
<1>3. Suffix(b) \in Suffixed /\ LocalTags = Suffixed \union Builders
  BY DEF Suffix, Suffixed, LocalTags
<1>4. /\ localTags' \in [LocalTags -> Builders \union {NoImage}] /\ localTags'[b] = b
      /\ \A c \in Builders \ {b} : localTags'[c] = localTags[c]
  BY <1>3, Knows, BuildAssumption DEF AcrRuns
<1>5. localBuilds[b].image.jar # NoJar /\ (Clean(b) => localBuilds[b].image = OfCommit)
  BY Knows DEF AcrRuns, BuildAt, ImageSound
<1> HIDE DEF changed
<1>6. CheckoutSound(b)' /\ ImageSound(b)'
  BY <1>1, <1>2, <1>4, <1>5 DEF CheckoutSound, ImageSound, BuildAt, Clean
<1> QED BY <1>1, <1>2, <1>4, <1>6, Knows, OneCall

\* The digest is read from the run's own tag.
LEMMA ShowSound ==
  ASSUME BuildInv, NEW b \in Builders, ShowDigest(b)
  PROVE  BuildInv'
<1> DEFINE changed == [localBuilds[b] EXCEPT !.at = "untag", !.digest = localTags[ShownTag(b)]]
<1>1. localTags[ShownTag(b)] = b
  BY Knows DEF ShowDigest, ShownTag, ImageSound
<1>2. /\ changed \in BuildCalls /\ changed.at = "untag" /\ changed.image = localBuilds[b].image
      /\ changed.dirty = localBuilds[b].dirty /\ changed.prebuilt = localBuilds[b].prebuilt
      /\ changed.digest = b
  BY <1>1, Knows DEF BuildCalls, BuildSteps
<1>3. BuildGoes(b, changed) /\ UNCHANGED <<checkouts, localTags>>
  BY DEF ShowDigest
<1>4. localBuilds[b].image.jar # NoJar /\ (Clean(b) => localBuilds[b].image = OfCommit)
  BY Knows DEF ShowDigest, BuildAt, ImageSound
<1> HIDE DEF changed
<1>5. ASSUME localBuilds'[b] = changed PROVE CheckoutSound(b)' /\ ImageSound(b)'
  BY <1>2, <1>4, <1>5 DEF CheckoutSound, ImageSound, BuildAt, Clean
<1> QED BY <1>2, <1>3, <1>5, CallMoves

\* Dropping the run's own tag touches no other.
LEMMA UntagSound ==
  ASSUME BuildInv, NEW b \in Builders, NEW shown \in BOOLEAN, NEW untagged \in BOOLEAN,
         Untag(b, shown, untagged)
  PROVE  BuildInv'
<1> DEFINE changed == [localBuilds[b] EXCEPT !.at = IF shown THEN "built" ELSE "failed"]
<1>1. /\ changed \in BuildCalls /\ changed.at \in {"built", "failed"}
      /\ changed.image = localBuilds[b].image /\ changed.digest = localBuilds[b].digest
      /\ changed.dirty = localBuilds[b].dirty /\ changed.prebuilt = localBuilds[b].prebuilt
  BY Knows DEF BuildCalls, BuildSteps
<1>2. /\ localBuilds' = [localBuilds EXCEPT ![b] = changed] /\ localBuilds'[b] = changed
      /\ UNCHANGED checkouts
  BY DEF Untag, BuildGoes, BuildFails, BuildInv, Typed
<1>3. /\ localTags' \in [LocalTags -> Builders \union {NoImage}]
      /\ \A c \in Builders \ {b} : localTags'[c] = localTags[c]
  BY Knows DEF Untag, LocalTags
<1>4. /\ localBuilds[b].image.jar # NoJar /\ (Clean(b) => localBuilds[b].image = OfCommit)
      /\ localBuilds[b].digest = b
  BY Knows DEF Untag, BuildAt, ImageSound
<1> HIDE DEF changed
<1>5. CheckoutSound(b)' /\ ImageSound(b)'
  BY <1>1, <1>2, <1>4 DEF CheckoutSound, ImageSound, BuildAt, Clean
<1> QED BY <1>1, <1>2, <1>3, <1>5, Knows, OneCall

---------------------------------------------------------------------------
(* The theorems.                                                             *)

\* Every step of every actor keeps what the calls know.
LEMMA BuildNextInv == BuildInv /\ [BuildNext]_buildVars => BuildInv'
<1> SUFFICES ASSUME BuildInv, [BuildNext]_buildVars PROVE BuildInv'
  OBVIOUS
<1>1. CASE UNCHANGED buildVars
  BY <1>1 DEF buildVars, BuildInv, Typed, CheckoutSound, ImageSound, BuildAt, AsStamped, Fresh, Clean
<1>2. ASSUME NEW b \in Builders, BuildStep(b) PROVE BuildInv'
  BY <1>2, LookAgainSound, ResolveJarSound, StageSound, AcrRunsSound, ShowSound, UntagSound,
     FailsSound DEF BuildStep, BuildBreaks
<1> QED BY <1>1, <1>2, EditSound, BeginSound, MavenSound DEF BuildNext, BuildersDone

\* Every reachable state satisfies the invariant.
THEOREM BuildInvariant == BuildSpec => []BuildInv
BY BuildInitInv, BuildNextInv, PTL DEF BuildSpec

\* The types of every state of a build, and no image without a JAR, however
\* many builders push to the registry.
THEOREM BuildTypeCorrect == BuildSpec => []BuildTypeOK
<1>1. BuildInv => BuildTypeOK
  BY DEF BuildInv, Typed, Checkouts, BuildCalls, BuildSteps, BuildTypeOK, ImageSound
<1> QED BY <1>1, BuildInvariant, PTL

\* A build answers with its own image, however many others move its tag, and an
\* image under the bare commit was packaged in this run from the commit's tree,
\* unless its user edits the checkout while it is being staged.
THEOREM ImagesAreAsTold == ASSUME ~LateEdits PROVE BuildSpec => []ImageIsAsTold
<1>1. BuildInv => CleanMeansCommit
  <2>1. ASSUME BuildInv, NEW b \in Builders, localBuilds[b].at = "built", Suffix(b) = ""
        PROVE  /\ localBuilds[b].image.tree = "base"
               /\ localBuilds[b].image.jar = [from |-> "base", written |-> 2]
    <3>1. Clean(b)
      BY <2>1 DEF Suffix, Clean
    <3>2. localBuilds[b].image = OfCommit
      BY <2>1, <3>1 DEF BuildInv, ImageSound
    <3> QED BY <3>2 DEF OfCommit
  <2> QED BY <2>1 DEF CleanMeansCommit
<1>2. BuildInv => OwnDigest
  BY DEF BuildInv, ImageSound, OwnDigest
<1>3. BuildInv => ImageIsAsTold
  BY <1>1, <1>2 DEF ImageIsAsTold
<1> QED BY <1>3, BuildInvariant, PTL
=============================================================================
