--------------------------- MODULE TeardownProofs ---------------------------
(* What a teardown and a purge may delete, in which order, and what they     *)
(* leave, proved for any resources, waves, bounds and role assignments.      *)
EXTENDS Teardown, TLAPS

TeardownSpec == TeardownInit /\ [][TeardownNext]_teardownVars

Steps == {"pass", "wave", "nodes", "before", "request", "poll", "prune", "final",
          "discover", "remove", "confirm", "deleteGroup", "deleteNodes", "await"}

Runs ==
  [at : Steps, purge : BOOLEAN, wave : Nat \ {0}, pass : Nat, inventory : SUBSET Resources,
   todo : SUBSET Resources, repeats : [Resources -> Nat], fatal : BOOLEAN,
   hadCluster : BOOLEAN, pruned : BOOLEAN, removed : SUBSET Grants]

\* What a run asks Azure to delete is of the wave it is in; past the first
\* wave the nodes group has been seen gone; a purge condemns the group after a
\* look at the grants that found none.
RunSound ==
  run # NoRun =>
    /\ run \in Runs
    /\ run.at \in {"before", "request"} => run.todo \subseteq Wave(run.wave)
    /\ run.wave > 1 /\ run.at \in {"wave", "before", "request", "poll"} => ~nodesGroup
    /\ run.at = "deleteGroup" => grants \subseteq young

\* The nodes group goes after its cluster; until the group is condemned only
\* what a wave took is being deleted, and once it is, every role assignment is
\* one that somebody made after the look.
AzureSound ==
  /\ {group, condemned, nodesGroup, kubeEntry} \subseteq BOOLEAN
  /\ present \subseteq Resources /\ deleting \subseteq Resources /\ grants \subseteq Grants
  /\ ~nodesGroup => Cluster \notin present
  /\ ~condemned => deleting \cap Retained = {} /\ Retained \subseteq present
  /\ condemned => grants \subseteq young
  /\ ~group => condemned /\ present = {}
  /\ NetworkOutlivesNodes /\ EntryFollowsCluster

TeardownInv == RunSound /\ AzureSound

\* Before any run the environment stands, with the stack's own grants.
LEMMA InitInv == TeardownInit => TeardownInv
BY TeardownAssumption
DEF TeardownInit, TeardownInv, RunSound, AzureSound, NetworkOutlivesNodes, EntryFollowsCluster,
    Retained

\* An identity that was not deleted still has its role assignments with it.
LEMMA NoneOrphaned == TeardownInv => NoOrphanGrants
<1> SUFFICES ASSUME TeardownInv, NEW g \in grants, g \notin young
             PROVE  HolderOf[g] \in present
  BY DEF NoOrphanGrants
<1>1. g \in Grants /\ Retained \subseteq present
  BY DEF TeardownInv, AzureSound
<1> QED BY <1>1, TeardownAssumption DEF Retained

---------------------------------------------------------------------------
(* Records of runs.                                                          *)

\* A run that goes on to a step keeps what it knows.
LEMMA MovedRun ==
  ASSUME run \in Runs, NEW s \in Steps, GoTo(s)
  PROVE  /\ run' \in Runs /\ run'.at = s /\ run'.wave = run.wave /\ run'.todo = run.todo
         /\ run'.purge = run.purge /\ run'.inventory = run.inventory
BY DEF Runs, GoTo

\* A run that begins is in the first wave.
LEMMA FreshRun ==
  ASSUME NEW purge \in BOOLEAN, NEW s \in Steps, NEW seen \in SUBSET Resources
  PROVE  /\ NewRun(purge, s, seen) \in Runs
         /\ NewRun(purge, s, seen).at = s /\ NewRun(purge, s, seen).wave = 1
BY DEF Runs, NewRun

\* The wave after a run's wave, and the step it begins with.
LEMMA WaveAfter ==
  ASSUME run \in Runs
  PROVE  run.wave + 1 \in Nat \ {0} /\ AfterWave(run.wave + 1) \in Steps
BY DEF Runs, AfterWave, Steps

\* A run that only moves on leaves Azure as it was.
LEMMA QuietStep ==
  ASSUME TeardownInv, UNCHANGED azureVars, UNCHANGED young
  PROVE  AzureSound'
BY DEF TeardownInv, AzureSound, azureVars, NetworkOutlivesNodes, EntryFollowsCluster

\* A run that is over, or has failed and looks at the kubeconfig entry once
\* more, asks for nothing.
LEMMA RunOver ==
  ASSUME TeardownInv, NEW how, RunEnds(how)
  PROVE  RunSound'
BY DEF RunEnds, RunSound

\* A pass that fails has only the kubeconfig entry left to look at.
LEMMA FailedPass ==
  ASSUME TeardownInv, run # NoRun, PassFails
  PROVE  RunSound'
<1>1. run' \in Runs /\ run'.at = "prune"
  BY MovedRun DEF TeardownInv, RunSound, PassFails, Steps
<1> QED BY <1>1 DEF RunSound

---------------------------------------------------------------------------
(* The steps of a run.                                                       *)

\* A run is started against whatever an earlier one left.
LEMMA StartsSound ==
  ASSUME TeardownInv, DownStarts \/ PurgeStarts
  PROVE  TeardownInv'
<1>1. AzureSound'
  BY QuietStep DEF DownStarts, PurgeStarts
<1>2. present \in SUBSET Resources /\ {"pass", "discover", "deleteNodes"} \subseteq Steps
  BY DEF TeardownInv, AzureSound, Steps
<1>3. CASE run' = NoRun
  BY <1>1, <1>3 DEF TeardownInv, RunSound
<1>4. CASE run' # NoRun
  <2>1. \/ run' = NewRun(FALSE, "pass", present)
        \/ run' = NewRun(TRUE, "discover", present)
        \/ run' = NewRun(TRUE, "deleteNodes", present)
    BY <1>4 DEF DownStarts, PurgeStarts
  <2>2. \A purge \in BOOLEAN, s \in Steps :
           /\ NewRun(purge, s, present) \in Runs
           /\ NewRun(purge, s, present).at = s /\ NewRun(purge, s, present).wave = 1
    BY <1>2, FreshRun
  <2>3. run' \in Runs /\ run'.wave = 1 /\ run'.at \in {"pass", "discover", "deleteNodes"}
    <3>1. CASE run' = NewRun(FALSE, "pass", present)
      BY <1>2, <2>2, <3>1
    <3>2. CASE run' = NewRun(TRUE, "discover", present)
      BY <1>2, <2>2, <3>2
    <3>3. CASE run' = NewRun(TRUE, "deleteNodes", present)
      BY <1>2, <2>2, <3>3
    <3> QED BY <2>1, <3>1, <3>2, <3>3
  <2> QED BY <1>1, <2>3 DEF TeardownInv, RunSound
<1> QED BY <1>3, <1>4

\* A pass begins with the first wave, whatever earlier passes deleted.
LEMMA PassBeginsSound ==
  ASSUME TeardownInv, PassBegins
  PROVE  TeardownInv'
<1>1. AzureSound'
  BY QuietStep DEF PassBegins
<1>2. run # NoRun /\ run \in Runs
  BY DEF PassBegins, At, TeardownInv, RunSound
<1>3. CASE GoTo("final")
  <2>1. run' \in Runs /\ run'.at = "final"
    BY <1>2, <1>3, MovedRun DEF Steps
  <2> QED BY <1>1, <2>1 DEF TeardownInv, RunSound
<1>4. CASE PassFails
  BY <1>1, <1>2, <1>4, FailedPass DEF TeardownInv
<1>5. CASE run' = [run EXCEPT !.at = "wave", !.wave = 1, !.pass = @ + 1]
  <2>1. run.pass + 1 \in Nat /\ "wave" \in Steps /\ 1 \in Nat \ {0}
    BY <1>2 DEF Runs, Steps
  <2>2. run' \in Runs /\ run'.at = "wave" /\ run'.wave = 1
    BY <1>2, <1>5, <2>1 DEF Runs
  <2> QED BY <1>1, <2>2 DEF TeardownInv, RunSound
<1> QED BY <1>3, <1>4, <1>5 DEF PassBegins

\* The wave after this one: past the first, the nodes group is looked at.
LEMMA NextWaveSound ==
  ASSUME TeardownInv, UNCHANGED azureVars, run # NoRun, run.at \in {"wave", "poll"},
         run' \in Runs, run'.wave = run.wave + 1, run'.at = AfterWave(run.wave + 1)
  PROVE  RunSound'
<1>1. run \in Runs /\ run.wave \in Nat \ {0}
  BY DEF TeardownInv, RunSound, Runs
<1>2. CASE run.wave = 1
  BY <1>2 DEF AfterWave, RunSound
<1>3. CASE run.wave > 1
  <2>1. run'.at = "wave" /\ ~nodesGroup
    BY <1>1, <1>3 DEF AfterWave, TeardownInv, RunSound
  <2> QED BY <2>1 DEF RunSound, azureVars
<1> QED BY <1>1, <1>2, <1>3

\* A wave takes only its own resources from the inventory.
LEMMA WaveBeginsSound ==
  ASSUME TeardownInv, WaveBegins
  PROVE  TeardownInv'
<1>1. AzureSound'
  BY QuietStep DEF WaveBegins
<1>2. run # NoRun /\ run \in Runs /\ run.at = "wave" /\ UNCHANGED azureVars /\ present \subseteq Resources
  BY DEF WaveBegins, At, TeardownInv, RunSound, AzureSound
<1>3. CASE PassFails
  BY <1>1, <1>2, <1>3, FailedPass DEF TeardownInv
<1>4. CASE run' = [run EXCEPT !.at = "pass", !.inventory = present]
  <2>1. run' \in Runs /\ run'.at = "pass"
    BY <1>2, <1>4 DEF Runs, Steps
  <2> QED BY <1>1, <2>1 DEF TeardownInv, RunSound
<1>5. CASE NextWave
  <2>1. run' \in Runs /\ run'.wave = run.wave + 1 /\ run'.at = AfterWave(run.wave + 1)
    BY <1>2, <1>5, WaveAfter DEF NextWave, Runs
  <2> QED BY <1>1, <1>2, <2>1, NextWaveSound DEF TeardownInv
<1>6. CASE run' = [run EXCEPT !.at = IF run.wave = WaveOf[Gateway] THEN "before" ELSE "request",
                              !.todo = run.inventory \cap Wave(run.wave),
                              !.repeats = [r \in Resources |-> 0]]
  <2>1. /\ run' \in Runs /\ run'.at \in {"before", "request"} /\ run'.wave = run.wave
        /\ run'.todo \subseteq Wave(run.wave)
    BY <1>2, <1>6 DEF Runs, Steps
  <2>2. run.wave > 1 => ~nodesGroup
    BY <1>2 DEF TeardownInv, RunSound
  <2>3. Wave(run.wave)' = Wave(run'.wave)
    BY DEF Wave
  <2> QED BY <1>1, <1>2, <2>1, <2>2, <2>3 DEF TeardownInv, RunSound, azureVars, Wave
<1> QED BY <1>3, <1>4, <1>5, <1>6 DEF WaveBegins

\* The entry is dropped once the nodes group, and so the cluster, is gone.
LEMMA NodesGroupGoneSound ==
  ASSUME TeardownInv, NodesGroupGone
  PROVE  TeardownInv'
<1>1. run # NoRun /\ run \in Runs /\ ~nodesGroup
  BY DEF NodesGroupGone, At, NodesHold, TeardownInv, RunSound
<1>2. AzureSound'
  <2>1. UNCHANGED <<group, condemned, present, deleting, nodesGroup, grants, young>> /\ kubeEntry' \in BOOLEAN
    BY DEF NodesGroupGone, Pruned
  <2>2. Cluster \notin present
    BY <1>1 DEF TeardownInv, AzureSound
  <2> QED BY <2>1, <2>2 DEF TeardownInv, AzureSound, NetworkOutlivesNodes, EntryFollowsCluster
<1>3. CASE RunEnds("down")
  BY <1>2, <1>3, RunOver DEF TeardownInv
<1>4. CASE run' = [run EXCEPT !.at = "wave", !.pruned = run.hadCluster]
  <2>1. run' \in Runs /\ run'.at = "wave"
    BY <1>1, <1>4 DEF Runs, Steps
  <2>2. ~nodesGroup'
    BY <1>1 DEF NodesGroupGone
  <2> QED BY <1>2, <2>1, <2>2 DEF TeardownInv, RunSound
<1> QED BY <1>3, <1>4 DEF NodesGroupGone

\* A run that gives up asks for nothing more.
LEMMA LeftoverSound ==
  ASSUME TeardownInv, NodesGroupStays \/ LeftoversStay \/ GroupsStay \/ NothingToList
  PROVE  TeardownInv'
<1>1. AzureSound'
  BY QuietStep DEF NodesGroupStays, LeftoversStay, GroupsStay, NothingToList
<1>2. run # NoRun
  BY DEF NodesGroupStays, LeftoversStay, GroupsStay, NothingToList, At
<1>3. PassFails \/ RunEnds("error")
  BY DEF NodesGroupStays, LeftoversStay, GroupsStay, NothingToList
<1> QED BY <1>1, <1>2, <1>3, FailedPass, RunOver DEF TeardownInv

\* Detaching the gateway changes neither the wave nor what it holds.
LEMMA DetachNatSound ==
  ASSUME TeardownInv, DetachNat
  PROVE  TeardownInv'
<1>1. run # NoRun /\ run \in Runs /\ run.at = "before"
  BY DEF DetachNat, At, TeardownInv, RunSound
<1>2. UNCHANGED <<group, condemned, present, deleting, nodesGroup, grants, kubeEntry, young>>
  BY DEF DetachNat
<1>3. run' \in Runs /\ run'.at = "request" /\ run'.wave = run.wave /\ run'.todo = run.todo
  BY <1>1, MovedRun DEF DetachNat, Steps
<1>4. run.todo \subseteq Wave(run.wave) /\ (run.wave > 1 => ~nodesGroup)
  BY <1>1 DEF TeardownInv, RunSound
<1> QED BY <1>2, <1>3, <1>4 DEF TeardownInv, RunSound, AzureSound, NetworkOutlivesNodes,
                                EntryFollowsCluster, Wave

\* What a wave asks for is of that wave: no identity, and past the first
\* wave nothing while nodes stand.
LEMMA RequestSound ==
  ASSUME TeardownInv, NEW r \in Resources, RequestDelete(r)
  PROVE  TeardownInv'
<1>1. /\ run # NoRun /\ run \in Runs /\ run.at = "request" /\ r \in run.todo
      /\ run.todo \subseteq Wave(run.wave) /\ (run.wave > 1 => ~nodesGroup)
  BY DEF RequestDelete, At, TeardownInv, RunSound
<1>2. /\ run' \in Runs /\ run'.at = "request" /\ run'.wave = run.wave
      /\ run'.todo \subseteq run.todo
  <2>1. run.todo \ {r} \in SUBSET Resources /\ run.repeats[r] + 1 \in Nat
    BY <1>1 DEF Runs
  <2>2. CASE run' = [run EXCEPT !.todo = @ \ {r}]
    BY <1>1, <2>1, <2>2 DEF Runs
  <2>3. CASE run' = [run EXCEPT !.todo = @ \ {r}, !.repeats[r] = @ + 1]
    <3>1. [run.repeats EXCEPT ![r] = @ + 1] \in [Resources -> Nat]
      BY <1>1, <2>1 DEF Runs
    <3> QED BY <1>1, <2>1, <2>3, <3>1 DEF Runs
  <2>4. CASE run' = [run EXCEPT !.todo = @ \ {r}, !.fatal = TRUE]
    BY <1>1, <2>1, <2>4 DEF Runs
  <2> QED BY <2>2, <2>3, <2>4 DEF RequestDelete
<1>3. deleting' \subseteq deleting \cup {r} /\ deleting' \subseteq Resources
  BY DEF RequestDelete, TeardownInv, AzureSound
<1>4. UNCHANGED <<group, condemned, present, nodesGroup, grants, kubeEntry, young>>
  BY DEF RequestDelete
<1>5. WaveOf[r] = run.wave /\ run.wave \in Nat \ {0}
  BY <1>1 DEF Wave, Runs
<1>6. RunSound'
  BY <1>1, <1>2, <1>4 DEF RunSound, Wave
<1>7. ~condemned => deleting' \cap Retained = {}
  BY <1>3, <1>5 DEF TeardownInv, AzureSound, Retained
<1>8. NetworkOutlivesNodes'
  <2> SUFFICES ASSUME ~condemned, NEW d \in deleting', WaveOf[d] > 1
               PROVE  Cluster \notin present /\ ~nodesGroup
    BY <1>4 DEF NetworkOutlivesNodes
  <2>1. CASE d = r
    BY <1>1, <1>5, <2>1 DEF TeardownInv, AzureSound
  <2>2. CASE d \in deleting
    BY <2>2 DEF TeardownInv, AzureSound, NetworkOutlivesNodes
  <2> QED BY <1>3, <2>1, <2>2
<1> QED BY <1>3, <1>4, <1>6, <1>7, <1>8
        DEF TeardownInv, AzureSound, EntryFollowsCluster, Retained

\* Waiting for a wave asks for nothing.
LEMMA RequestsIssuedSound ==
  ASSUME TeardownInv, RequestsIssued
  PROVE  TeardownInv'
<1>1. AzureSound' /\ UNCHANGED azureVars
  BY QuietStep DEF RequestsIssued
<1>2. run # NoRun /\ run \in Runs /\ run.at = "request"
  BY DEF RequestsIssued, At, TeardownInv, RunSound
<1>3. CASE PassFails
  BY <1>1, <1>2, <1>3, FailedPass DEF TeardownInv
<1>4. CASE GoTo("poll")
  <2>1. run' \in Runs /\ run'.at = "poll" /\ run'.wave = run.wave
    BY <1>2, <1>4, MovedRun DEF Steps
  <2>2. run.wave > 1 => ~nodesGroup
    BY <1>2 DEF TeardownInv, RunSound
  <2> QED BY <1>1, <2>1, <2>2 DEF TeardownInv, RunSound, azureVars
<1> QED BY <1>3, <1>4 DEF RequestsIssued

\* A poll asks again only for the same wave, or moves on to the next.
LEMMA PollSound ==
  ASSUME TeardownInv, Poll
  PROVE  TeardownInv'
<1>1. AzureSound' /\ UNCHANGED azureVars
  BY QuietStep DEF Poll
<1>2. run # NoRun /\ run \in Runs /\ run.at = "poll" /\ present \subseteq Resources
  BY DEF Poll, At, TeardownInv, RunSound, AzureSound
<1>3. CASE PassFails
  BY <1>1, <1>2, <1>3, FailedPass DEF TeardownInv
<1>4. CASE run' = [run EXCEPT !.inventory = present, !.wave = @ + 1, !.at = AfterWave(run.wave + 1)]
  <2>1. run' \in Runs /\ run'.wave = run.wave + 1 /\ run'.at = AfterWave(run.wave + 1)
    BY <1>2, <1>4, WaveAfter DEF Runs
  <2> QED BY <1>1, <1>2, <2>1, NextWaveSound DEF TeardownInv
<1>5. CASE run' = [run EXCEPT !.inventory = present, !.todo = Lingering \ deleting, !.at = "request"]
  <2>1. /\ run' \in Runs /\ run'.at = "request" /\ run'.wave = run.wave
        /\ run'.todo \subseteq Wave(run.wave)
    BY <1>2, <1>5 DEF Lingering, Runs, Steps
  <2>2. run.wave > 1 => ~nodesGroup
    BY <1>2 DEF TeardownInv, RunSound
  <2> QED BY <1>1, <2>1, <2>2 DEF TeardownInv, RunSound, azureVars, Wave
<1> QED BY <1>3, <1>4, <1>5 DEF Poll

\* After a failed pass the entry goes only with the cluster.
LEMMA PruneSound ==
  ASSUME TeardownInv, PruneIfGone
  PROVE  TeardownInv'
<1>1. UNCHANGED <<group, condemned, present, deleting, nodesGroup, grants, young>> /\ kubeEntry' \in BOOLEAN
  BY DEF PruneIfGone
<1>2. kubeEntry' = kubeEntry \/ Cluster \notin present
  BY DEF PruneIfGone, ClusterGone, TeardownInv, AzureSound
<1>3. RunSound'
  BY RunOver DEF PruneIfGone
<1> QED BY <1>1, <1>2, <1>3 DEF TeardownInv, AzureSound, NetworkOutlivesNodes, EntryFollowsCluster

\* A run can fail at any step.
LEMMA RunFailsSound ==
  ASSUME TeardownInv, RunFails
  PROVE  TeardownInv'
<1>1. AzureSound'
  BY QuietStep DEF RunFails
<1>2. run # NoRun /\ (PassFails \/ RunEnds("error"))
  BY DEF RunFails
<1> QED BY <1>1, <1>2, FailedPass, RunOver DEF TeardownInv

---------------------------------------------------------------------------
(* The purge.                                                                *)

\* A look at the grants changes what is news only while the group is not
\* condemned.
LEMMA LookedSound ==
  ASSUME TeardownInv, UNCHANGED azureVars, Looked
  PROVE  AzureSound'
BY DEF TeardownInv, AzureSound, azureVars, Looked, NetworkOutlivesNodes, EntryFollowsCluster

\* A purge notes the grants it finds.
LEMMA DiscoverSound ==
  ASSUME TeardownInv, DiscoverGrants
  PROVE  TeardownInv'
<1>1. run # NoRun /\ run \in Runs /\ GrantsSeen \in SUBSET Grants
  BY DEF DiscoverGrants, At, TeardownInv, RunSound, AzureSound, GrantsSeen
<1>2. AzureSound'
  BY LookedSound DEF DiscoverGrants
<1>3. CASE RunEnds("error")
  BY <1>2, <1>3, RunOver DEF TeardownInv
<1>4. CASE run' = [run EXCEPT !.at = "remove", !.removed = GrantsSeen]
  <2>1. run' \in Runs /\ run'.at = "remove"
    BY <1>1, <1>4 DEF Runs, Steps
  <2> QED BY <1>2, <2>1 DEF TeardownInv, RunSound
<1> QED BY <1>3, <1>4 DEF DiscoverGrants

\* A grant that is removed is nobody's to orphan.
LEMMA RemoveSound ==
  ASSUME TeardownInv, NEW g \in Grants, RemoveGrant(g)
  PROVE  TeardownInv'
<1>1. run # NoRun /\ run.at = "remove"
  BY DEF RemoveGrant, At, TeardownInv, RunSound
<1> QED BY <1>1 DEF RemoveGrant, TeardownInv, RunSound, AzureSound, NetworkOutlivesNodes,
                    EntryFollowsCluster, Wave

\* The grants are looked at again before the group goes.
LEMMA GrantsRemovedSound ==
  ASSUME TeardownInv, GrantsRemoved
  PROVE  TeardownInv'
<1>1. AzureSound' /\ UNCHANGED azureVars
  BY QuietStep DEF GrantsRemoved
<1>2. run # NoRun /\ run \in Runs
  BY DEF GrantsRemoved, At, TeardownInv, RunSound
<1>3. run' \in Runs /\ run'.at = "confirm"
  BY <1>2, MovedRun DEF GrantsRemoved, Steps
<1> QED BY <1>1, <1>3 DEF TeardownInv, RunSound

\* The group is condemned only after a look that found no grant.
LEMMA ConfirmSound ==
  ASSUME TeardownInv, ConfirmGrants
  PROVE  TeardownInv'
<1>1. run # NoRun /\ run \in Runs /\ UNCHANGED azureVars
  BY DEF ConfirmGrants, At, TeardownInv, RunSound
<1>2. AzureSound'
  BY LookedSound DEF ConfirmGrants
<1>3. CASE RunEnds("error")
  BY <1>2, <1>3, RunOver DEF TeardownInv
<1>4. CASE Cleared /\ GoTo("deleteGroup")
  <2>1. run' \in Runs /\ run'.at = "deleteGroup"
    BY <1>1, <1>4, MovedRun DEF Steps
  <2>2. grants' \subseteq young'
    <3>1. CASE condemned
      BY <1>1, <1>2, <3>1 DEF AzureSound, azureVars
    <3>2. CASE ~condemned
      <4>1. \A g \in grants : g \in Grants /\ HolderOf[g] \in Retained
        BY TeardownAssumption DEF TeardownInv, AzureSound, Retained
      <4>2. grants = {}
        BY <1>4, <3>2, <4>1 DEF Cleared, GrantsSeen, TeardownInv, AzureSound
      <4> QED BY <1>1, <4>2 DEF azureVars
    <3> QED BY <3>1, <3>2
  <2> QED BY <1>2, <2>1, <2>2 DEF TeardownInv, RunSound
<1> QED BY <1>3, <1>4 DEF ConfirmGrants

\* The identities go with the group, when no grant of theirs was seen.
LEMMA DeleteGroupSound ==
  ASSUME TeardownInv, DeleteGroup
  PROVE  TeardownInv'
<1>1. /\ run # NoRun /\ run \in Runs /\ run.at = "deleteGroup" /\ grants \subseteq young
      /\ UNCHANGED <<group, present, nodesGroup, grants, kubeEntry, young>>
  BY DEF DeleteGroup, At, TeardownInv, RunSound
<1>2. CASE RunEnds("error") /\ UNCHANGED <<condemned, deleting>>
  BY <1>1, <1>2, RunOver DEF TeardownInv, AzureSound, NetworkOutlivesNodes, EntryFollowsCluster
<1>3. CASE condemned' = TRUE /\ deleting' = present
           /\ GoTo(IF nodesGroup /\ ~run.hadCluster THEN "deleteNodes" ELSE "await")
  <2>1. run' \in Runs /\ run'.at \in {"deleteNodes", "await"}
    BY <1>1, <1>3, MovedRun DEF Steps
  <2> QED BY <1>1, <1>3, <2>1 DEF TeardownInv, RunSound, AzureSound, NetworkOutlivesNodes,
                                  EntryFollowsCluster
<1> QED BY <1>2, <1>3 DEF DeleteGroup

\* The delete of the nodes group changes nothing until Azure completes it.
LEMMA DeleteNodesGroupSound ==
  ASSUME TeardownInv, DeleteNodesGroup
  PROVE  TeardownInv'
<1>1. AzureSound'
  BY QuietStep DEF DeleteNodesGroup
<1>2. CASE RunEnds("error")
  BY <1>1, <1>2, RunOver DEF TeardownInv
<1>3. CASE GoTo("await")
  <2>1. run' \in Runs /\ run'.at = "await"
    BY <1>3, MovedRun DEF DeleteNodesGroup, At, TeardownInv, RunSound, Steps
  <2> QED BY <1>1, <2>1 DEF TeardownInv, RunSound
<1> QED BY <1>2, <1>3 DEF DeleteNodesGroup

\* A finished purge leaves no cluster to keep an entry for.
LEMMA GroupsGoneSound ==
  ASSUME TeardownInv, GroupsGone
  PROVE  TeardownInv'
<1>1. UNCHANGED <<group, condemned, deleting, nodesGroup, present, grants, young>> /\ kubeEntry' \in BOOLEAN
  BY DEF GroupsGone, Pruned
<1>2. ~nodesGroup /\ RunEnds("purged")
  BY DEF GroupsGone, NodesHold
<1> QED BY <1>1, <1>2, RunOver DEF TeardownInv, AzureSound, NetworkOutlivesNodes, EntryFollowsCluster

---------------------------------------------------------------------------
(* Azure, people and time.                                                   *)

\* Azure completes and stalls deletes, and people add resources and grants.
LEMMA OthersSound ==
  ASSUME TeardownInv,
         \/ GroupGoes \/ NodesGroupGoes \/ DeadlinePasses
         \/ \E r \in Resources : DeleteCompletes(r) \/ DeleteStalls(r) \/ ResourceAppears(r)
         \/ \E g \in Grants : GrantAppears(g)
  PROVE  TeardownInv'
<1> USE DEF TeardownInv, AzureSound, NetworkOutlivesNodes, EntryFollowsCluster, Retained
<1>1. RunSound'
  <2>1. UNCHANGED run /\ (nodesGroup' => nodesGroup) /\ nodesGroup' \in BOOLEAN
    <3>1. nodesGroup \in BOOLEAN
      OBVIOUS
    <3>2. UNCHANGED run /\ (nodesGroup' = FALSE \/ nodesGroup' = nodesGroup)
      BY DEF GroupGoes, NodesGroupGoes, DeadlinePasses, DeleteCompletes, DeleteStalls, ResourceAppears,
             GrantAppears, azureVars
    <3>3. CASE nodesGroup' = FALSE
      BY <3>2, <3>3
    <3>4. CASE nodesGroup' = nodesGroup
      BY <3>1, <3>2, <3>4
    <3> QED BY <3>2, <3>3, <3>4
  <2>2. grants \subseteq young => grants' \subseteq young'
    BY DEF GroupGoes, NodesGroupGoes, DeadlinePasses, DeleteCompletes, DeleteStalls, ResourceAppears,
           GrantAppears, azureVars
  <2> QED BY <2>1, <2>2 DEF RunSound, Wave
<1>2. CASE NodesGroupGoes
  BY <1>1, <1>2 DEF NodesGroupGoes
<1>3. CASE DeadlinePasses
  BY <1>1, <1>3 DEF DeadlinePasses, azureVars
<1>4. ASSUME NEW r \in Resources, DeleteCompletes(r) PROVE AzureSound'
  BY <1>4 DEF DeleteCompletes
<1>5. ASSUME NEW r \in Resources, DeleteStalls(r) PROVE AzureSound'
  BY <1>5 DEF DeleteStalls
<1>6. ASSUME NEW r \in Resources, ResourceAppears(r) PROVE AzureSound'
  BY <1>6, TeardownAssumption DEF ResourceAppears
<1>7. ASSUME NEW g \in Grants, GrantAppears(g) PROVE AzureSound'
  BY <1>7 DEF GrantAppears
<1>8. CASE GroupGoes
  BY <1>1, <1>8 DEF GroupGoes
<1> QED BY <1>1, <1>2, <1>3, <1>4, <1>5, <1>6, <1>7, <1>8

\* Every step keeps the invariant.
LEMMA NextInv == TeardownInv /\ [TeardownNext]_teardownVars => TeardownInv'
<1> SUFFICES ASSUME TeardownInv, [TeardownNext]_teardownVars PROVE TeardownInv'
  OBVIOUS
<1>1. CASE UNCHANGED teardownVars
  BY <1>1 DEF teardownVars, TeardownInv, RunSound, AzureSound, NetworkOutlivesNodes,
              EntryFollowsCluster, Retained, Wave
<1>2. CASE RunStep
  BY <1>2, PassBeginsSound, WaveBeginsSound, NodesGroupGoneSound, LeftoverSound, DetachNatSound,
     RequestSound, RequestsIssuedSound, PollSound, PruneSound, DiscoverSound, RemoveSound,
     GrantsRemovedSound, ConfirmSound, DeleteGroupSound, DeleteNodesGroupSound, GroupsGoneSound DEF RunStep
<1>3. CASE ~RunStep /\ TeardownNext
  BY <1>3, StartsSound, RunFailsSound, OthersSound DEF TeardownNext
<1> QED BY <1>1, <1>2, <1>3

\* Every reachable state satisfies the invariant.
THEOREM TeardownInvariant == TeardownSpec => []TeardownInv
BY InitInv, NextInv, PTL DEF TeardownSpec

\* What a teardown takes away it takes in order: until a purge's delete of the
\* group is accepted every identity stands, whatever the waves, the retries and
\* half-done runs do, and no delete of the network is in Azure's hands while
\* the cluster or its nodes group is there; and the kubeconfig keeps the entry
\* of a cluster that is.
THEOREM OrderIsKept == TeardownSpec => []TakenInOrder
<1>1. TeardownInv => IdentitiesStand
  BY DEF TeardownInv, AzureSound, IdentitiesStand, Retained
<1>2. TeardownInv => NetworkOutlivesNodes /\ EntryFollowsCluster
  BY DEF TeardownInv, AzureSound
<1>3. TeardownInv => TakenInOrder
  BY <1>1, <1>2 DEF TakenInOrder
<1> QED BY <1>3, TeardownInvariant, PTL

\* A purge leaves no role assignment of a deleted identity behind, other than
\* one that somebody made after its last look.
THEOREM NoGrantIsOrphaned == TeardownSpec => []NoOrphanGrants
BY NoneOrphaned, TeardownInvariant, PTL

---------------------------------------------------------------------------
(* What a run that says it is done leaves.                                   *)

PurgeSteps == {"discover", "remove", "confirm", "deleteGroup", "deleteNodes", "await"}

\* A run has not said how it ended, and a purge runs no waves; whatever is
\* present was in the last inventory the waves took, or was added since.  That
\* is what a look at the inventory is worth once the deletes are in Azure's
\* hands.
RunTells ==
  run # NoRun =>
    /\ runSaid \notin {"down", "absent", "purged"}
    /\ run.purge => run.at \in PurgeSteps
    /\ ~run.purge => present \subseteq run.inventory \cup Added

DoneInv == RunTells /\ DoneMeansGone

\* While a run is on nothing is said to be done.
LEMMA OnlyTelling ==
  ASSUME run' # NoRun, RunTells'
  PROVE  DoneInv'
BY DEF DoneInv, DoneMeansGone, RunTells

\* A step that keeps the inventory, or takes it anew.
LEMMA StillRunning ==
  ASSUME DoneInv, run # NoRun, UNCHANGED <<present, runSaid>>, run'.purge = run.purge,
         run'.inventory = run.inventory \/ run'.inventory = present,
         run.purge => run'.at \in PurgeSteps
  PROVE  DoneInv'
<1>1. RunTells'
  BY DEF DoneInv, RunTells
<1>2. CASE run' # NoRun
  BY <1>1, <1>2, OnlyTelling
<1>3. CASE run' = NoRun
  BY <1>1, <1>3 DEF DoneInv, RunTells, DoneMeansGone
<1> QED BY <1>2, <1>3

\* A run that ends in an error says nothing of what is left.
LEMMA EndedInError ==
  ASSUME RunEnds("error")
  PROVE  DoneInv'
BY DEF RunEnds, DoneInv, RunTells, DoneMeansGone

\* A step that only goes on to another.
LEMMA WentOn ==
  ASSUME TeardownInv, DoneInv, run # NoRun, UNCHANGED <<present, runSaid>>,
         NEW s \in Steps, GoTo(s), run.purge => s \in PurgeSteps
  PROVE  DoneInv'
<1>1. run'.at = s /\ run'.purge = run.purge /\ run'.inventory = run.inventory
  BY MovedRun DEF TeardownInv, RunSound
<1> QED BY <1>1, StillRunning

\* A run starts with an inventory just taken, or says that there is nothing to
\* delete when the group is gone.
LEMMA DoneStarts ==
  ASSUME TeardownInv, DownStarts \/ PurgeStarts
  PROVE  DoneInv'
<1>1. run = NoRun /\ UNCHANGED <<group, nodesGroup, present>> /\ (~group => present = {})
  BY DEF DownStarts, PurgeStarts, azureVars, TeardownInv, AzureSound
<1>2. ASSUME NEW purge \in BOOLEAN, NEW s, run' = NewRun(purge, s, present),
             runSaid' = "nothing", purge => s \in PurgeSteps
      PROVE  DoneInv'
  <2>1. run'.purge = purge /\ run'.at = s /\ (~purge => run'.inventory = present)
    BY <1>2 DEF NewRun
  <2>2. RunTells'
    BY <1>1, <1>2, <2>1 DEF RunTells
  <2> QED BY <1>2, <2>2 DEF DoneInv, DoneMeansGone
<1>3. ASSUME run' = NoRun, runSaid' \in {"error", "absent", "purged"},
             runSaid' # "error" => ~group, runSaid' = "purged" => ~nodesGroup
      PROVE  DoneInv'
  BY <1>1, <1>3 DEF DoneInv, RunTells, DoneMeansGone
<1>4. CASE DownStarts
  <2>1. \/ run' = NoRun /\ (runSaid' = "error" \/ (runSaid' = "absent" /\ ~group))
        \/ runSaid' = "nothing" /\ run' = NewRun(FALSE, "pass", present)
    BY <1>4 DEF DownStarts, GroupExists
  <2> QED BY <1>2, <1>3, <2>1
<1>5. CASE PurgeStarts
  <2>1. \/ run' = NoRun /\ runSaid' = "purged" /\ ~group /\ ~nodesGroup
        \/ runSaid' = "nothing" /\ run' = NewRun(TRUE, "discover", present)
        \/ runSaid' = "nothing" /\ run' = NewRun(TRUE, "deleteNodes", present)
    BY <1>5 DEF PurgeStarts, GroupExists
  <2> QED BY <1>2, <1>3, <2>1 DEF PurgeSteps
<1> QED BY <1>4, <1>5

\* The steps of a run of waves.
LEMMA DoneWaves ==
  ASSUME TeardownInv, DoneInv,
         \/ PassBegins \/ WaveBegins \/ NodesGroupGone \/ NodesGroupStays \/ LeftoversStay
         \/ DetachNat \/ RequestsIssued \/ Poll \/ NothingToList \/ PruneIfGone
         \/ \E r \in Resources : RequestDelete(r)
  PROVE  DoneInv'
<1>1. /\ run # NoRun /\ run \in Runs /\ UNCHANGED present
      /\ run.at \in {"pass", "wave", "nodes", "before", "request", "poll", "prune", "final"}
  BY DEF PassBegins, WaveBegins, NodesGroupGone, NodesGroupStays, LeftoversStay, DetachNat,
         RequestDelete, RequestsIssued, Poll, NothingToList, PruneIfGone, At, azureVars, TeardownInv,
         RunSound
<1>2. ~run.purge
  BY <1>1 DEF DoneInv, RunTells, PurgeSteps
<1>3. ASSUME NEW s \in Steps, GoTo(s), UNCHANGED runSaid PROVE DoneInv'
  BY <1>1, <1>2, <1>3, WentOn
<1>4. RunEnds("error") => DoneInv'
  BY EndedInError
<1>5. PassFails => DoneInv'
  BY <1>3 DEF PassFails, Steps
<1>6. ASSUME run'.purge = run.purge, UNCHANGED runSaid,
             run'.inventory = run.inventory \/ run'.inventory = present
      PROVE  DoneInv'
  BY <1>1, <1>2, <1>6, StillRunning
<1>7. ASSUME PassBegins PROVE DoneInv'
  <2>1. CASE run' = [run EXCEPT !.at = "wave", !.wave = 1, !.pass = @ + 1] /\ UNCHANGED runSaid
    <3>1. run'.purge = run.purge /\ run'.inventory = run.inventory
      BY <1>1, <2>1 DEF Runs
    <3> QED BY <1>6, <2>1, <3>1
  <2> QED BY <1>3, <1>5, <1>7, <2>1 DEF PassBegins, Steps
<1>8. ASSUME WaveBegins PROVE DoneInv'
  <2>1. \/ PassFails
        \/ /\ UNCHANGED runSaid
           /\ \/ run' = [run EXCEPT !.at = "pass", !.inventory = present]
              \/ NextWave
              \/ run' = [run EXCEPT !.at = IF run.wave = WaveOf[Gateway] THEN "before" ELSE "request",
                                    !.todo = run.inventory \cap Wave(run.wave),
                                    !.repeats = [r \in Resources |-> 0]]
    BY <1>8 DEF WaveBegins
  <2>2. ASSUME ~PassFails
        PROVE  /\ UNCHANGED runSaid /\ run'.purge = run.purge
               /\ run'.inventory = run.inventory \/ run'.inventory = present
    BY <1>1, <2>1, <2>2 DEF NextWave, Runs
  <2> QED BY <1>5, <1>6, <2>2
<1>9. ASSUME NodesGroupGone PROVE DoneInv'
  <2>1. CASE run' = [run EXCEPT !.at = "wave", !.pruned = run.hadCluster] /\ UNCHANGED runSaid
    <3>1. run'.purge = run.purge /\ run'.inventory = run.inventory
      BY <1>1, <2>1 DEF Runs
    <3> QED BY <1>6, <2>1, <3>1
  <2>2. CASE RunEnds("down") /\ run.at = "final"
    <3>1. run.inventory \subseteq Retained /\ present \subseteq run.inventory \cup Added
      BY <1>1, <1>2, <1>9, <2>2 DEF NodesGroupGone, At, DoneInv, RunTells
    <3>2. ~nodesGroup'
      BY <1>9 DEF NodesGroupGone, NodesHold
    <3> QED BY <1>1, <2>2, <3>1, <3>2 DEF RunEnds, DoneInv, RunTells, DoneMeansGone, Retained
  <2> QED BY <1>9, <2>1, <2>2 DEF NodesGroupGone
<1>10. ASSUME NEW r \in Resources, RequestDelete(r) PROVE DoneInv'
  <2>1. /\ UNCHANGED runSaid
        /\ \/ run' = [run EXCEPT !.todo = @ \ {r}]
           \/ run' = [run EXCEPT !.todo = @ \ {r}, !.repeats[r] = @ + 1]
           \/ run' = [run EXCEPT !.todo = @ \ {r}, !.fatal = TRUE]
    BY <1>10 DEF RequestDelete
  <2>2. run'.purge = run.purge /\ run'.inventory = run.inventory
    BY <1>1, <2>1 DEF Runs
  <2> QED BY <1>6, <2>1, <2>2
<1>11. ASSUME Poll PROVE DoneInv'
  <2>1. ASSUME ~PassFails
        PROVE  UNCHANGED runSaid /\ run'.purge = run.purge /\ run'.inventory = present
    BY <1>1, <1>11, <2>1 DEF Poll, Runs
  <2> QED BY <1>5, <1>6, <2>1
<1>12. ASSUME NodesGroupStays \/ LeftoversStay \/ DetachNat \/ RequestsIssued \/ NothingToList
              \/ PruneIfGone
       PROVE  DoneInv'
  BY <1>3, <1>4, <1>5, <1>12 DEF NodesGroupStays, LeftoversStay, DetachNat, RequestsIssued,
                                 NothingToList, PruneIfGone, Steps
<1> QED BY <1>7, <1>8, <1>9, <1>10, <1>11, <1>12

\* The steps of a purge.
LEMMA DonePurges ==
  ASSUME TeardownInv, DoneInv,
         \/ DiscoverGrants \/ GrantsRemoved \/ ConfirmGrants \/ DeleteGroup
         \/ DeleteNodesGroup \/ GroupsGone \/ GroupsStay
         \/ \E g \in Grants : RemoveGrant(g)
  PROVE  DoneInv'
<1>1. run # NoRun /\ run \in Runs /\ UNCHANGED present
  BY DEF DiscoverGrants, GrantsRemoved, ConfirmGrants, DeleteGroup, DeleteNodesGroup, GroupsGone,
         GroupsStay, RemoveGrant, At, azureVars, TeardownInv, RunSound
<1>2. ASSUME NEW s \in PurgeSteps, GoTo(s), UNCHANGED runSaid PROVE DoneInv'
  BY <1>1, <1>2, WentOn DEF PurgeSteps, Steps
<1>3. RunEnds("error") => DoneInv'
  BY EndedInError
<1>4. ASSUME DiscoverGrants PROVE DoneInv'
  <2>1. CASE run' = [run EXCEPT !.at = "remove", !.removed = GrantsSeen] /\ UNCHANGED runSaid
    <3>1. run'.purge = run.purge /\ run'.inventory = run.inventory /\ run'.at \in PurgeSteps
      BY <1>1, <2>1 DEF Runs, PurgeSteps
    <3> QED BY <1>1, <2>1, <3>1, StillRunning
  <2> QED BY <1>3, <1>4, <2>1 DEF DiscoverGrants
<1>5. ASSUME NEW g \in Grants, RemoveGrant(g) PROVE DoneInv'
  BY <1>5 DEF RemoveGrant, DoneInv, RunTells, DoneMeansGone
<1>6. ASSUME GrantsRemoved \/ ConfirmGrants \/ DeleteGroup \/ DeleteNodesGroup \/ GroupsStay
      PROVE  DoneInv'
  BY <1>2, <1>3, <1>6 DEF GrantsRemoved, ConfirmGrants, DeleteGroup, DeleteNodesGroup, GroupsStay,
                          PurgeSteps
<1>7. ASSUME GroupsGone PROVE DoneInv'
  <2>1. /\ ~group' /\ ~nodesGroup' /\ UNCHANGED <<group, present>>
        /\ run' = NoRun /\ runSaid' = "purged"
    BY <1>7 DEF GroupsGone, GroupExists, NodesHold, RunEnds
  <2>2. present' = {}
    BY <2>1 DEF TeardownInv, AzureSound
  <2> QED BY <2>1, <2>2 DEF DoneInv, RunTells, DoneMeansGone
<1> QED BY <1>4, <1>5, <1>6, <1>7

\* What Azure and people do adds nothing to an inventory but what they add to a
\* group that is not condemned.
LEMMA DoneOthers ==
  ASSUME TeardownInv, DoneInv,
         \/ RunFails \/ GroupGoes \/ NodesGroupGoes \/ DeadlinePasses
         \/ \E r \in Resources : DeleteCompletes(r) \/ DeleteStalls(r) \/ ResourceAppears(r)
         \/ \E g \in Grants : GrantAppears(g)
  PROVE  DoneInv'
<1>1. CASE RunFails
  <2>1. run # NoRun /\ UNCHANGED present
    BY <1>1 DEF RunFails, azureVars
  <2>2. CASE ~run.purge /\ PassFails
    BY <2>1, <2>2, WentOn DEF PassFails, Steps
  <2>3. CASE RunEnds("error")
    BY <2>3, EndedInError
  <2> QED BY <1>1, <2>2, <2>3 DEF RunFails
<1>2. CASE ~RunFails
  <2>1. UNCHANGED <<run, runSaid>> /\ present' \subseteq present \cup Added
    BY <1>2 DEF GroupGoes, NodesGroupGoes, DeadlinePasses, DeleteCompletes, DeleteStalls,
                ResourceAppears, GrantAppears, azureVars
  <2>2. (~group => present' \subseteq present /\ ~group') /\ (~nodesGroup => ~nodesGroup')
    BY <1>2 DEF GroupGoes, NodesGroupGoes, DeadlinePasses, DeleteCompletes, DeleteStalls,
                ResourceAppears, GrantAppears, azureVars
  <2>3. RunTells'
    BY <2>1 DEF DoneInv, RunTells
  <2>4. DoneMeansGone'
    BY <2>1, <2>2 DEF DoneInv, DoneMeansGone, Retained
  <2> QED BY <2>3, <2>4 DEF DoneInv
<1> QED BY <1>1, <1>2

\* Every step keeps what a run knows of what is left.
LEMMA DoneStep == TeardownInv /\ DoneInv /\ [TeardownNext]_teardownVars => DoneInv'
<1> SUFFICES ASSUME TeardownInv, DoneInv, [TeardownNext]_teardownVars PROVE DoneInv'
  OBVIOUS
<1>1. CASE UNCHANGED teardownVars
  BY <1>1 DEF teardownVars, DoneInv, RunTells, DoneMeansGone, Retained
<1>2. CASE RunStep
  BY <1>2, DoneWaves, DonePurges DEF RunStep
<1>3. CASE ~RunStep /\ TeardownNext
  BY <1>3, DoneStarts, DoneOthers DEF TeardownNext
<1> QED BY <1>1, <1>2, <1>3

\* A down that says it is done leaves no nodes group and, of what was there
\* when it began, nothing but the identities; a purge that says so leaves no
\* group, nothing in it and no nodes group, whatever earlier runs had Azure
\* begin.
THEOREM DoneIsGone == TeardownSpec => []DoneMeansGone
<1>1. TeardownInit => DoneInv
  BY DEF TeardownInit, DoneInv, RunTells, DoneMeansGone
<1>2. TeardownSpec => []DoneInv
  BY <1>1, DoneStep, TeardownInvariant, PTL DEF TeardownSpec
<1>3. DoneInv => DoneMeansGone
  BY DEF DoneInv
<1> QED BY <1>2, <1>3, PTL
=============================================================================
