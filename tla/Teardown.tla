------------------------------ MODULE Teardown ------------------------------
(***************************************************************************)
(* `spi down` and `spi down --purge` as teardown.py runs them against a    *)
(* resource group: deletes are requested in waves and confirmed by the     *)
(* inventory, Azure completes them in its own time, declines some, and     *)
(* adds resources of its own meanwhile.  Every run has one deadline; a run *)
(* that failed can be started again.                                       *)
(***************************************************************************)
EXTENDS Integers, FiniteSets

CONSTANTS
  Resources,      \* what the group can hold
  WaveOf,         \* DELETION_PLAN: the wave of a resource's type, 0 for a
                  \* retained type, LastWave + 1 for one the plan misses
  LastWave,
  Cluster, Gateway, Vnet,
  Added,          \* what Azure or people add while a run is on
  Grants,         \* role assignments of the identities outside the group
  StackOwned,     \* those the stack made
  HolderOf,       \* the identity that holds a grant
  NoRun,
  MaxPasses,      \* MAX_PASSES
  MaxDeclines,    \* MAX_IDENTICAL_DECLINES
  MaxAzureFaults  \* bound on what Azure and people do to a run

ASSUME TeardownAssumption ==
  /\ LastWave \in Nat \ {0, 1} /\ MaxPasses \in Nat \ {0} /\ MaxDeclines \in Nat \ {0}
  /\ MaxAzureFaults \in Nat
  /\ WaveOf \in [Resources -> 0 .. LastWave + 1]
  /\ {Cluster, Gateway, Vnet} \cup Added \subseteq Resources
  /\ WaveOf[Cluster] = 1 /\ WaveOf[Gateway] = 2 /\ WaveOf[Vnet] = LastWave
  /\ StackOwned \subseteq Grants
  /\ HolderOf \in [Grants -> {r \in Resources : WaveOf[r] = 0}]
  \* Neither an identity nor a cluster is added while a run is on.
  /\ \A r \in Added : WaveOf[r] # 0 /\ r # Cluster

VARIABLES
  group,       \* the resource group exists
  condemned,   \* Azure has accepted the group's delete
  present,     \* the resources in it
  deleting,    \* those whose delete Azure has accepted
  nodesGroup,  \* the cluster's managed nodes group exists
  attached,    \* a subnet references the NAT gateway
  grants,      \* external role assignments
  kubeEntry,   \* the kubeconfig has the cluster's entry
  run,         \* the run that is on, or NoRun
  late,        \* its deadline has passed
  runSaid,     \* how the last run ended
  young,       \* ghost: grants that appeared since a purge last looked in time
  faults       \* ghost

azureVars == <<group, condemned, present, deleting, nodesGroup, attached, grants, kubeEntry>>
teardownVars == <<group, condemned, present, deleting, nodesGroup, attached, grants, kubeEntry,
                  run, late, runSaid, young, faults>>

Retained == {r \in Resources : WaveOf[r] = 0}
Unhandled == {r \in Resources : WaveOf[r] = LastWave + 1}

\* Mutant of Wave: a wave takes what the waves before it left.
WaveAndBelow(w) == {r \in Resources : WaveOf[r] <= w}

Wave(w) == {r \in Resources : WaveOf[r] = w}

TeardownInit ==
  /\ group = TRUE /\ condemned = FALSE /\ nodesGroup = TRUE /\ attached = TRUE /\ kubeEntry = TRUE
  /\ present = Resources \ Added
  /\ deleting = {}
  /\ grants = StackOwned
  /\ run = NoRun /\ late = FALSE /\ runSaid = "nothing"
  /\ young = {} /\ faults = 0

-----------------------------------------------------------------------------
(* The run.                                                                *)

At(step) == run # NoRun /\ run.at = step

GoTo(step) == run' = [run EXCEPT !.at = step]

RunEnds(how) == run' = NoRun /\ runSaid' = how

\* A TeardownError inside the passes is followed by a last look at the
\* kubeconfig entry.
PassFails == GoTo("prune") /\ UNCHANGED runSaid

\* Only the waves go by an inventory.
NewRun(purge, step, seen) ==
  [at |-> step, purge |-> purge, wave |-> 1, pass |-> 0,
   inventory |-> IF purge THEN {} ELSE seen, todo |-> {},
   repeats |-> [r \in Resources |-> 0], fatal |-> FALSE,
   hadCluster |-> Cluster \in seen, pruned |-> FALSE, removed |-> {}]

\* Mutant of GroupExists: a group whose delete is accepted is as good as gone.
GroupExistsUnlessCondemned == group /\ ~condemned

\* group_exists: until Azure has finished deleting it.
GroupExists == group

\* teardown_environment up to its passes.
DownStarts ==
  /\ run = NoRun
  /\ late' = FALSE
  /\ IF ~GroupExists THEN runSaid' = "absent" /\ UNCHANGED run
     ELSE IF present \cap Unhandled # {} THEN runSaid' = "error" /\ UNCHANGED run
     ELSE run' = NewRun(FALSE, "pass", present) /\ runSaid' = "nothing"
  /\ UNCHANGED azureVars /\ UNCHANGED <<young, faults>>

PassesSpent == run.pass = MaxPasses

\* The head of _run_passes' loop.
PassBegins ==
  /\ At("pass")
  /\ IF run.inventory \subseteq Retained \/ PassesSpent
       THEN GoTo("final") /\ UNCHANGED runSaid
     ELSE IF late THEN PassFails
     ELSE /\ run' = [run EXCEPT !.at = "wave", !.wave = 1, !.pass = @ + 1]
          /\ UNCHANGED runSaid
  /\ UNCHANGED azureVars /\ UNCHANGED <<late, young, faults>>

\* Mutant of AfterWave: the network's waves do not look at the nodes group.
AfterWaveBlind(w) == "wave"

\* Network teardown waits for the nodes group, whatever the pass deleted.
AfterWave(w) == IF w = 2 THEN "nodes" ELSE "wave"

NextWave == run' = [run EXCEPT !.wave = @ + 1, !.at = AfterWave(run.wave + 1)]

\* One wave of a pass, or the inventory after its last, which fails when the
\* group is gone.
WaveBegins ==
  /\ At("wave")
  /\ IF run.wave > LastWave
       THEN IF ~group \/ present \cap Unhandled # {} THEN PassFails
            ELSE /\ run' = [run EXCEPT !.at = "pass", !.inventory = present]
                 /\ UNCHANGED runSaid
     ELSE IF run.inventory \cap Wave(run.wave) = {} THEN NextWave /\ UNCHANGED runSaid
     ELSE /\ run' = [run EXCEPT !.at = IF run.wave = WaveOf[Gateway] THEN "before" ELSE "request",
                                !.todo = run.inventory \cap Wave(run.wave),
                                !.repeats = [r \in Resources |-> 0]]
          /\ UNCHANGED runSaid
  /\ UNCHANGED azureVars /\ UNCHANGED <<late, young, faults>>

Pruned == kubeEntry' = (kubeEntry /\ ~run.hadCluster)

\* Mutant of NodesHold: a purge leaves the nodes group to its cluster.
NodesHoldUnlessPurged == nodesGroup /\ ~run.purge

NodesHold == nodesGroup

\* _confirm_nodes_group_gone, before the network and at the end.
NodesGroupGone ==
  /\ At("nodes") \/ (At("final") /\ run.inventory \subseteq Retained)
  /\ ~NodesHold
  /\ Pruned
  /\ IF run.at = "final" THEN RunEnds("down")
     ELSE run' = [run EXCEPT !.at = "wave", !.pruned = run.hadCluster] /\ UNCHANGED runSaid
  /\ UNCHANGED <<group, condemned, present, deleting, nodesGroup, attached, grants, late, young, faults>>

NodesGroupStays ==
  /\ run # NoRun /\ NodesHold /\ late
  /\ \/ At("nodes") /\ PassFails
     \/ At("final") /\ (run.inventory \subseteq Retained) /\ RunEnds("error")
  /\ UNCHANGED azureVars /\ UNCHANGED <<late, young, faults>>

LeftoversStay ==
  /\ At("final") /\ ~(run.inventory \subseteq Retained)
  /\ RunEnds("error")
  /\ UNCHANGED azureVars /\ UNCHANGED <<late, young, faults>>

\* _detach_nat_gateways
DetachNat ==
  /\ At("before") /\ group
  /\ attached' = FALSE
  /\ GoTo("request")
  /\ UNCHANGED <<group, condemned, present, deleting, nodesGroup, grants, kubeEntry, late, runSaid,
                 young, faults>>

\* What Azure cannot take: a NAT gateway a subnet references, and a network
\* that still holds nodes or the gateway.
Blocked(r) ==
  \/ r = Gateway /\ attached
  \/ r = Vnet /\ (nodesGroup \/ Gateway \in present)

\* request_delete: accepted, declined, or refused for good.  All of a wave's
\* requests are issued before a refusal stops the run.
RequestDelete(r) ==
  /\ At("request") /\ r \in run.todo
  /\ \/ /\ ~late /\ ~Blocked(r)
        /\ deleting' = deleting \cup ({r} \cap present)
        /\ run' = [run EXCEPT !.todo = @ \ {r}]
        /\ UNCHANGED faults
     \/ /\ ~late /\ (Blocked(r) \/ faults < MaxAzureFaults)
        /\ run' = [run EXCEPT !.todo = @ \ {r}, !.repeats[r] = @ + 1]
        /\ faults' = IF Blocked(r) THEN faults ELSE faults + 1
        /\ UNCHANGED deleting
     \/ /\ late \/ faults < MaxAzureFaults
        /\ run' = [run EXCEPT !.todo = @ \ {r}, !.fatal = TRUE]
        /\ faults' = IF late THEN faults ELSE faults + 1
        /\ UNCHANGED deleting
  /\ UNCHANGED <<group, condemned, present, nodesGroup, attached, grants, kubeEntry, late, runSaid, young>>

DeclinedTooOften == \E r \in Resources : run.repeats[r] = MaxDeclines

RequestsIssued ==
  /\ At("request") /\ run.todo = {}
  /\ IF run.fatal \/ DeclinedTooOften
       THEN PassFails ELSE GoTo("poll") /\ UNCHANGED runSaid
  /\ UNCHANGED azureVars /\ UNCHANGED <<late, young, faults>>

Lingering == present \cap Wave(run.wave)

\* Mutant of OutOfTime: a wave is waited out as long as Azure works on it.
OutOfTimeUnlessDeleting == late /\ ~(Lingering \subseteq deleting)

OutOfTime == late

\* delete_wave's loop: done, out of time, or asking again for what is not
\* being deleted.
Poll ==
  /\ At("poll") /\ group
  /\ \/ /\ Lingering = {}
        /\ run' = [run EXCEPT !.inventory = present, !.wave = @ + 1,
                              !.at = AfterWave(run.wave + 1)]
        /\ UNCHANGED runSaid
     \/ Lingering # {} /\ OutOfTime /\ PassFails
     \/ /\ Lingering \ deleting # {} /\ ~late
        /\ run' = [run EXCEPT !.inventory = present, !.todo = Lingering \ deleting, !.at = "request"]
        /\ UNCHANGED runSaid
  /\ UNCHANGED azureVars /\ UNCHANGED <<late, young, faults>>

\* A group that an earlier purge condemned is gone under the run, which cannot
\* list what is in it.
NothingToList ==
  /\ At("before") \/ At("poll")
  /\ ~group
  /\ PassFails
  /\ UNCHANGED azureVars /\ UNCHANGED <<late, young, faults>>

\* Mutant of ClusterGone: a cluster that is being deleted is as good as gone.
ClusterGoneSoon == group /\ present \cap {Cluster} \subseteq deleting

ClusterGone == group /\ Cluster \notin present /\ ~nodesGroup

\* _prune_if_cluster_gone: both reads, or nothing.
PruneIfGone ==
  /\ At("prune")
  /\ kubeEntry' = (kubeEntry /\ ~(run.hadCluster /\ ~run.pruned /\ ClusterGone))
  /\ RunEnds("error")
  /\ UNCHANGED <<group, condemned, present, deleting, nodesGroup, attached, grants, late, young, faults>>

\* A read that fails for good is a TeardownError; any other exception or the
\* end of the process skips the last look.
RunFails ==
  /\ run # NoRun /\ faults < MaxAzureFaults
  /\ faults' = faults + 1
  /\ \/ ~run.purge /\ run.at \notin {"prune", "final"} /\ PassFails
     \/ RunEnds("error")
  /\ UNCHANGED azureVars /\ UNCHANGED <<late, young>>

-----------------------------------------------------------------------------
(* The purge.                                                              *)

\* purge_environment up to its grants.
PurgeStarts ==
  /\ run = NoRun
  /\ late' = FALSE
  /\ IF GroupExists THEN run' = NewRun(TRUE, "discover", present) /\ runSaid' = "nothing"
     ELSE IF nodesGroup THEN run' = NewRun(TRUE, "deleteNodes", present) /\ runSaid' = "nothing"
     ELSE runSaid' = "purged" /\ UNCHANGED run
  /\ UNCHANGED azureVars /\ UNCHANGED <<young, faults>>

\* discover_external_grants goes from the identities that are there to their
\* assignments.
GrantsSeen == {g \in grants : HolderOf[g] \in present}

\* What a look finds is no longer news, unless the group is condemned and the
\* look comes too late for it.
Looked == young' = IF condemned THEN young ELSE young \ GrantsSeen

\* remove_external_grants up to its deletes; the identities of a group that
\* is gone cannot be listed.
DiscoverGrants ==
  /\ At("discover")
  /\ Looked
  /\ IF group /\ GrantsSeen \subseteq StackOwned
       THEN run' = [run EXCEPT !.at = "remove", !.removed = GrantsSeen] /\ UNCHANGED runSaid
       ELSE RunEnds("error")
  /\ UNCHANGED azureVars /\ UNCHANGED <<late, faults>>

RemoveGrant(g) ==
  /\ At("remove") /\ g \in run.removed \cap grants
  /\ grants' = grants \ {g} /\ young' = young \ {g}
  /\ UNCHANGED <<group, condemned, present, deleting, nodesGroup, attached, kubeEntry, run, late,
                 runSaid, faults>>

GrantsRemoved ==
  /\ At("remove") /\ run.removed \cap grants = {}
  /\ GoTo("confirm")
  /\ UNCHANGED azureVars /\ UNCHANGED <<late, runSaid, young, faults>>

\* Mutant of Cleared: only the grants that were removed are looked for.
ClearedOwn == run.removed \cap grants = {}

Cleared == GrantsSeen = {}

\* The reads after the deletes: what appeared meanwhile stops the purge.
ConfirmGrants ==
  /\ At("confirm")
  /\ Looked
  /\ IF group /\ Cleared THEN GoTo("deleteGroup") /\ UNCHANGED runSaid ELSE RunEnds("error")
  /\ UNCHANGED azureVars /\ UNCHANGED <<late, faults>>

\* _request_group_delete for the group: accepted, to be completed in Azure's
\* own time, or refused because there is no such group any more.
DeleteGroup ==
  /\ At("deleteGroup")
  /\ IF late \/ ~group THEN RunEnds("error") /\ UNCHANGED <<condemned, deleting>>
     ELSE /\ condemned' = TRUE /\ deleting' = present
          /\ GoTo(IF nodesGroup /\ ~run.hadCluster THEN "deleteNodes" ELSE "await")
          /\ UNCHANGED runSaid
  /\ UNCHANGED <<group, present, nodesGroup, attached, grants, kubeEntry, late, young, faults>>

\* The same for the nodes group a deleted cluster left behind; NodesGroupGoes
\* completes it.
DeleteNodesGroup ==
  /\ At("deleteNodes")
  /\ IF late \/ ~nodesGroup THEN RunEnds("error") ELSE GoTo("await") /\ UNCHANGED runSaid
  /\ UNCHANGED azureVars /\ UNCHANGED <<late, young, faults>>

\* wait_for_group_gone for each of them, the nodes group too.
GroupsGone ==
  /\ At("await")
  /\ ~GroupExists /\ ~NodesHold
  /\ Pruned
  /\ RunEnds("purged")
  /\ UNCHANGED <<group, condemned, present, deleting, nodesGroup, attached, grants, late, young, faults>>

GroupsStay ==
  /\ At("await")
  /\ late /\ (GroupExists \/ NodesHold)
  /\ RunEnds("error")
  /\ UNCHANGED azureVars /\ UNCHANGED <<late, young, faults>>

-----------------------------------------------------------------------------
(* Azure, people and time.                                                 *)

DeleteCompletes(r) ==
  /\ r \in deleting
  /\ present' = present \ {r} /\ deleting' = deleting \ {r}
  /\ UNCHANGED <<group, condemned, nodesGroup, attached, grants, kubeEntry, run, late, runSaid, young, faults>>

\* In a condemned group too: its own delete is left half done.
DeleteStalls(r) ==
  /\ r \in deleting /\ faults < MaxAzureFaults
  /\ deleting' = deleting \ {r}
  /\ faults' = faults + 1
  /\ UNCHANGED <<group, condemned, present, nodesGroup, attached, grants, kubeEntry, run, late, runSaid, young>>

\* A condemned group goes with the last of its resources.
GroupGoes ==
  /\ group /\ condemned /\ present = {}
  /\ group' = FALSE
  /\ UNCHANGED <<condemned, present, deleting, nodesGroup, attached, grants, kubeEntry, run, late,
                 runSaid, young, faults>>

\* The nodes group goes after its cluster.
NodesGroupGoes ==
  /\ nodesGroup /\ Cluster \notin present
  /\ nodesGroup' = FALSE
  /\ UNCHANGED <<group, condemned, present, deleting, attached, grants, kubeEntry, run, late, runSaid,
                 young, faults>>

\* A system topic on a storage account, or a resource somebody made; Azure
\* refuses a new resource in a group that it is deleting.
ResourceAppears(r) ==
  /\ group /\ ~condemned /\ r \in Added \ present /\ faults < MaxAzureFaults
  /\ present' = present \cup {r}
  /\ faults' = faults + 1
  /\ UNCHANGED <<group, condemned, deleting, nodesGroup, attached, grants, kubeEntry, run, late, runSaid, young>>

GrantAppears(g) ==
  /\ HolderOf[g] \in present /\ g \in Grants \ grants /\ faults < MaxAzureFaults
  /\ grants' = grants \cup {g} /\ young' = young \cup {g}
  /\ faults' = faults + 1
  /\ UNCHANGED <<group, condemned, present, deleting, nodesGroup, attached, kubeEntry, run, late, runSaid>>

DeadlinePasses ==
  /\ run # NoRun /\ ~late
  /\ late' = TRUE
  /\ UNCHANGED azureVars /\ UNCHANGED <<run, runSaid, young, faults>>

RunStep ==
  \/ PassBegins \/ WaveBegins \/ NodesGroupGone \/ NodesGroupStays \/ LeftoversStay
  \/ DetachNat \/ RequestsIssued \/ Poll \/ NothingToList \/ PruneIfGone
  \/ \E r \in Resources : RequestDelete(r)
  \/ DiscoverGrants \/ GrantsRemoved \/ ConfirmGrants \/ DeleteGroup \/ DeleteNodesGroup
  \/ GroupsGone \/ GroupsStay
  \/ \E g \in Grants : RemoveGrant(g)

TeardownNext ==
  \/ DownStarts \/ PurgeStarts \/ RunStep \/ RunFails
  \/ GroupGoes \/ NodesGroupGoes \/ DeadlinePasses
  \/ \E r \in Resources : DeleteCompletes(r) \/ DeleteStalls(r) \/ ResourceAppears(r)
  \/ \E g \in Grants : GrantAppears(g)

\* Every call has a timeout and every loop looks at the deadline.
TeardownFairness == WF_teardownVars(RunStep) /\ WF_teardownVars(DeadlinePasses)

-----------------------------------------------------------------------------
(* What a teardown owes.                                                   *)

\* Until a purge's delete of the group is accepted every identity stands,
\* whatever the waves, the retries and a half-done run delete: a rebuild keeps
\* the deploy identity's client id.
IdentitiesStand == ~condemned => \A r \in Resources : WaveOf[r] = 0 => r \in present

\* Unless the whole group is condemned, no delete of the network is in Azure's
\* hands while the cluster or its nodes group is there (the comment on
\* DELETION_PLAN).
NetworkOutlivesNodes ==
  ~condemned => \A r \in deleting : WaveOf[r] > 1 => Cluster \notin present /\ ~nodesGroup

\* A down that says it is done leaves nothing of the environment but its
\* identities, and no nodes group, whatever was added and deleted meanwhile;
\* a purge that says so, at its end or because it found nothing to purge,
\* leaves no group, nothing in it and no nodes group, whatever earlier runs
\* had Azure begin.
DoneMeansGone ==
  /\ runSaid = "down" => ~nodesGroup /\ present \ Added \subseteq Retained
  /\ runSaid = "absent" => ~group /\ present = {}
  /\ runSaid = "purged" => ~group /\ present = {} /\ ~nodesGroup

\* No role assignment outlives the identity that held it, other than one that
\* somebody made after the last look of the purge that condemned the group.
NoOrphanGrants == \A g \in grants : HolderOf[g] \in present \/ g \in young

\* The kubeconfig keeps the entry of a cluster that is there.
EntryFollowsCluster == Cluster \in present => kubeEntry

\* A run ends, whatever Azure does to it.
RunEndsInTime == run # NoRun ~> run = NoRun

\* What a teardown takes away it takes in order: never an identity, the network
\* only after the nodes, the kubeconfig entry only after the cluster.
TakenInOrder == IdentitiesStand /\ NetworkOutlivesNodes /\ EntryFollowsCluster
=============================================================================
