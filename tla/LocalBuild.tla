------------------------------ MODULE LocalBuild ------------------------------
(* `spi build` (build.py): the host's Maven packages a JAR in a checkout, an *)
(* ACR task builds the image around it, and the image is named by the commit *)
(* it came from.  Builders work in checkouts of their own, which their users *)
(* go on editing, and push the same tag to one registry.                     *)
EXTENDS Naturals

CONSTANTS
  Builders,
  NoImage,
  LateEdits    \* whether a user edits while the context is being staged

\* How a shared tag ends: the commit alone, or what the image cannot claim.
Suffixed == {"", "-dirty", "-prebuilt"}

\* A run's own tag is random, so it is none of the shared ones.
ASSUME BuildAssumption ==
  LateEdits \in BOOLEAN /\ NoImage \notin Builders /\ Builders \cap Suffixed = {}

VARIABLES
  checkouts,     \* per builder: the tree, and the JAR that lies in target/
  localTags,     \* what the registry's tags name
  localBuilds    \* per builder: the call of build_image

buildVars == <<checkouts, localTags, localBuilds>>

\* "base" is the tree of the commit a build starts on, "next" that of a later
\* one; "edited" has uncommitted changes.
Trees == {"base", "edited", "next"}
NoJar == [from |-> "none", written |-> 0]
\* The shared tags, and one of each run alone.
LocalTags == Suffixed \union Builders
NotBuilding ==
  [at |-> "idle", maven |-> FALSE, dirty |-> FALSE, prebuilt |-> FALSE, stamp |-> 0,
   image |-> [tree |-> "base", jar |-> NoJar], digest |-> NoImage]

Suffix(b) ==
  IF localBuilds[b].dirty THEN "-dirty" ELSE IF localBuilds[b].prebuilt THEN "-prebuilt" ELSE ""

BuildInit ==
  /\ checkouts \in [Builders -> {[tree |-> "base", jar |-> j] : j \in {NoJar, [from |-> "next", written |-> 1]}}]
  /\ localTags = [t \in LocalTags |-> NoImage]
  /\ localBuilds = [b \in Builders |-> NotBuilding]

BuildAt(b, at) == localBuilds[b].at = at
BuildGoes(b, changed) == localBuilds' = [localBuilds EXCEPT ![b] = changed]
BuildFails(b) == BuildGoes(b, [localBuilds[b] EXCEPT !.at = "failed"])

---------------------------------------------------------------------------
(* The users and Maven.                                                      *)

\* Changes are made, and then committed; none is undone (bound).
UserEdits(b) ==
  /\ localBuilds[b].at \in {"idle", "stamped"} \union IF LateEdits THEN {"stage"} ELSE {}
  /\ checkouts[b].tree # "next" /\ (BuildAt(b, "idle") => checkouts[b].tree = "base")
  /\ checkouts' = [checkouts EXCEPT ![b].tree = IF @ = "base" THEN "edited" ELSE "next"]
  /\ UNCHANGED <<localTags, localBuilds>>

\* Maven exits 0: it packages the tree it finds or nothing, and may rewrite
\* tracked sources first.
MavenRuns(b, packages, rewrites) ==
  LET tree == IF rewrites THEN "edited" ELSE checkouts[b].tree IN
  /\ BuildAt(b, "stamped")
  /\ rewrites => checkouts[b].tree = "base"
  /\ checkouts' = [checkouts EXCEPT ![b] =
       [tree |-> tree, jar |-> IF packages THEN [from |-> tree, written |-> 2] ELSE @.jar]]
  /\ BuildGoes(b, [localBuilds[b] EXCEPT !.at = "compiled"])
  /\ UNCHANGED localTags

---------------------------------------------------------------------------
(* build_image.                                                              *)

\* The commit is that of the tree as it is now: an edited one counts as dirty.
BuildBegins(b, maven) ==
  /\ BuildAt(b, "idle")
  /\ BuildGoes(b, [localBuilds[b] EXCEPT
       !.at = IF maven THEN "stamped" ELSE "packaged", !.maven = maven, !.prebuilt = ~maven,
       !.dirty = checkouts[b].tree = "edited", !.stamp = checkouts[b].jar.written])
  /\ UNCHANGED <<checkouts, localTags>>

\* Mutant of Changed: the tree is not looked at again.
ChangedNever(b) == FALSE

\* Maven can rewrite tracked sources, and the head may have moved.
Changed(b) == checkouts[b].tree # "base"

LookAgainAtTree(b) ==
  /\ BuildAt(b, "compiled")
  /\ BuildGoes(b, [localBuilds[b] EXCEPT !.at = "packaged", !.dirty = @ \/ Changed(b)])
  /\ UNCHANGED <<checkouts, localTags>>

\* Mutant of Prebuilt: a run of Maven counts as a build of the JAR.
PrebuiltUnlessRun(b) == ~localBuilds[b].maven

\* Maven may exit 0 without packaging: the JAR is then as old as before.
Prebuilt(b) == localBuilds[b].maven => checkouts[b].jar.written = localBuilds[b].stamp

Packaged(b) == checkouts[b].jar # NoJar

ResolveJar(b) ==
  /\ BuildAt(b, "packaged")
  /\ IF Packaged(b)
     THEN BuildGoes(b, [localBuilds[b] EXCEPT !.at = "stage", !.prebuilt = Prebuilt(b)])
     ELSE BuildFails(b)
  /\ UNCHANGED <<checkouts, localTags>>

StageContext(b) ==
  /\ BuildAt(b, "stage")
  /\ BuildGoes(b, [localBuilds[b] EXCEPT !.at = "run", !.image = checkouts[b]])
  /\ UNCHANGED <<checkouts, localTags>>

\* The task pushes one image under the shared tag and under the run's own.
AcrRuns(b) ==
  /\ BuildAt(b, "run")
  /\ localTags' = [localTags EXCEPT ![Suffix(b)] = b, ![b] = b]
  /\ BuildGoes(b, [localBuilds[b] EXCEPT !.at = "show"])
  /\ UNCHANGED checkouts

\* Mutant of ShownTag: the digest is read from the tag a pin would show.
SharedTag(b) == Suffix(b)

\* A concurrent build of the same commit moves the shared tag.
ShownTag(b) == b

ShowDigest(b) ==
  /\ BuildAt(b, "show")
  /\ BuildGoes(b, [localBuilds[b] EXCEPT !.at = "untag", !.digest = localTags[ShownTag(b)]])
  /\ UNCHANGED <<checkouts, localTags>>

\* The run's own tag is dropped, also when its digest could not be read.
Untag(b, shown, untagged) ==
  /\ BuildAt(b, "untag")
  /\ localTags' = IF untagged THEN [localTags EXCEPT ![b] = NoImage] ELSE localTags
  /\ IF shown THEN BuildGoes(b, [localBuilds[b] EXCEPT !.at = "built"]) ELSE BuildFails(b)
  /\ UNCHANGED checkouts

\* A tool is missing, Maven or the task exits with an error, the context is refused.
BuildBreaks(b) ==
  /\ localBuilds[b].at \in {"stamped", "packaged", "stage", "run"}
  /\ BuildFails(b)
  /\ UNCHANGED <<checkouts, localTags>>

BuildStep(b) ==
  \/ LookAgainAtTree(b) \/ ResolveJar(b) \/ StageContext(b) \/ AcrRuns(b) \/ ShowDigest(b)
  \/ \E shown, untagged \in BOOLEAN : Untag(b, shown, untagged)
  \/ BuildBreaks(b)

\* Every call has answered.
BuildersDone ==
  /\ \A b \in Builders : localBuilds[b].at \in {"built", "failed"}
  /\ UNCHANGED buildVars

BuildNext ==
  \/ BuildersDone
  \/ \E b \in Builders :
       \/ UserEdits(b)
       \/ \E maven \in BOOLEAN : BuildBegins(b, maven)
       \/ \E packages, rewrites \in BOOLEAN : MavenRuns(b, packages, rewrites)
       \/ BuildStep(b)

---------------------------------------------------------------------------
(* Properties.                                                               *)

\* The types; an image that a call ends with was staged from a JAR.
BuildTypeOK ==
  /\ \A b \in Builders :
       /\ checkouts[b].tree \in Trees /\ checkouts[b].jar.from \in Trees \union {"none"}
       /\ localBuilds[b].at \in {"idle", "stamped", "compiled", "packaged", "stage", "run",
                                  "show", "untag", "built", "failed"}
       /\ localBuilds[b].at \in {"show", "untag", "built"} => localBuilds[b].image.jar # NoJar
  /\ localTags \in [LocalTags -> Builders \union {NoImage}]

\* An image recorded under the bare commit was packaged by Maven in this run
\* from that commit's tree, whatever Maven and the user did meanwhile
\* (BuiltImage.source_sha).
CleanMeansCommit ==
  \A b \in Builders : localBuilds[b].at = "built" /\ Suffix(b) = "" =>
    /\ localBuilds[b].image.tree = "base"
    /\ localBuilds[b].image.jar = [from |-> "base", written |-> 2]

\* A call answers with the image it built, though others move its tag.
OwnDigest ==
  \A b \in Builders : localBuilds[b].at = "built" => localBuilds[b].digest = b

\* A build answers with its own image, and says the bare commit only of an image
\* of that commit.
ImageIsAsTold == CleanMeansCommit /\ OwnDigest
=============================================================================
