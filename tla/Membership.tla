------------------------------ MODULE Membership ------------------------------
(***************************************************************************)
(* A person's membership of the entitlements groups, as `spi users add` and *)
(* `spi users remove` write it (src/src/spi/users.py).                      *)
(*                                                                          *)
(* One person, one caller at a time.  Each entitlements call answers, is    *)
(* refused, or takes effect without answering; the process may be killed    *)
(* between any two calls, and later calls start from what it left.  A call  *)
(* that ended stays in `memberCall` with its outcome until the next starts. *)
(***************************************************************************)
EXTENDS Integers, Sequences

CONSTANTS
  Tenants,       \* the environment's partitions, a sequence
  AskedRoles,    \* the roles asked of `spi users add` in this instance
  MayMiss,       \* the groups one partition may lack
  NoCall,        \* no call was made yet
  MaxFailures    \* bound: calls refused or unanswered, and kills, in a behaviour

PartitionSet == {Tenants[i] : i \in DOMAIN Tenants}
Outcomes == {"group_missing", "failed", "done", "undone", "kept", "killed"}

\* config.py refuses duplicate partitions.
ASSUME TenantsAssumption ==
  /\ Tenants \in Seq(PartitionSet) /\ Len(Tenants) > 0
  /\ \A i, j \in DOMAIN Tenants : Tenants[i] = Tenants[j] => i = j
  /\ AskedRoles \subseteq {"viewer", "editor", "admin", "ops"}
  /\ NoCall \notin Outcomes /\ MaxFailures \in Nat

VARIABLES
  holds,         \* partition -> the groups the person is a direct member of
  missing,       \* partition -> the groups it lacks
  memberCall,          \* the running or the last call
  failures

memberVars == <<holds, missing, memberCall, failures>>

-----------------------------------------------------------------------------
Users == "users"
Impersonation == "impersonation"

\* ROLE_PRESETS: the groups of a role.
Presets ==
  [viewer |-> {Users, "viewers"},
   editor |-> {Users, "editors", Impersonation},
   admin  |-> {Users, "admins", "ops", Impersonation},
   ops    |-> {Users, "root", "ops", Impersonation}]

\* ROLE_GROUPS: every group of a preset but `users`.
RoleGroups == {"viewers", "editors", Impersonation, "admins", "ops", "root"}

Groups == {Users} \union RoleGroups

\* The order in which ROLE_PRESETS lists the groups of every role, and the
\* order in which ROLE_GROUPS lists them.
PresetPlace ==
  [users |-> 1, viewers |-> 2, editors |-> 2, admins |-> 2, root |-> 2, ops |-> 3, impersonation |-> 4]
RolePlace ==
  [users |-> 0, viewers |-> 1, editors |-> 2, impersonation |-> 3, admins |-> 4, ops |-> 5, root |-> 6]

\* role_of: the preset whose role groups these are.
RoleOf(groups) ==
  LET held == groups \intersect RoleGroups
      roles == {role \in DOMAIN Presets : held = Presets[role] \ {Users}}
  IN  IF held = {} THEN "none" ELSE IF roles = {} THEN "custom" ELSE CHOOSE role \in roles : TRUE

Here == Tenants[memberCall.at]

\* The ways an entitlements write goes: `effect` says whether it was applied.
\* A refusal and a lost reply look the same to the caller.
Answers == [ok : {TRUE}, effect : {TRUE}] \union [ok : {FALSE}, effect : BOOLEAN]

Fails(answer) == failures' = failures + (IF answer.ok THEN 0 ELSE 1)
Allowed(answer) == answer.ok \/ failures < MaxFailures

-----------------------------------------------------------------------------
NothingRead == [p \in PartitionSet |-> {}]

NewCall(op, role) ==
  [op |-> op, role |-> role, phase |-> "read", at |-> 1, read |-> NothingRead, began |-> holds,
   todo |-> {}, kept |-> {}, outcome |-> NoCall]

Running == memberCall # NoCall /\ memberCall.outcome = NoCall

Ends(outcome) == memberCall' = [memberCall EXCEPT !.outcome = outcome, !.todo = {}]

\* Removals go by ROLE_GROUPS, additions by the preset, an undo by the preset
\* reversed, `users` last.
Place(group) ==
  CASE memberCall.phase = "drop" -> RolePlace[group]
    [] memberCall.phase = "add" -> PresetPlace[group]
    [] OTHER -> -PresetPlace[group]

NextGroup ==
  CHOOSE group \in memberCall.todo : \A other \in memberCall.todo : Place(group) <= Place(other)

\* What a partition's pass starts with: the groups held under another role.
Dropped(role, read) == (read \intersect RoleGroups) \ Presets[role]

\* What an undo takes back: the preset's groups absent from the first read,
\* because an add can take effect and still fail to answer.
Absent(role, read) == Presets[role] \ read

\* Mutant of Begin: the additions come first.
BeginWithAdds(c, at) == [c EXCEPT !.phase = "add", !.at = at, !.todo = Presets[c.role]]

\* A partition's pass begins with the removals.
Begin(c, at) ==
  [c EXCEPT !.phase = "drop", !.at = at, !.todo = Dropped(c.role, c.read[Tenants[at]])]

-----------------------------------------------------------------------------
(* spi users add.                                                            *)

AddUser(role) ==
  /\ ~Running
  /\ memberCall' = NewCall("add", role)
  /\ UNCHANGED <<holds, missing, failures>>

\* Mutant of Required: a group that is not there reads as an empty one.
RequiredNothing(role) == {}

\* The groups a partition must have before anything is written.
Required(role) == Presets[role]

\* _role_members of one partition; the last read begins the writes.
ReadPartition ==
  /\ Running /\ memberCall.op = "add" /\ memberCall.phase = "read"
  /\ IF Required(memberCall.role) \intersect missing[Here] # {}
       THEN Ends("group_missing")
       ELSE LET read == [memberCall EXCEPT !.read[Here] = holds[Here]]
            IN  memberCall' = IF memberCall.at < Len(Tenants) THEN [read EXCEPT !.at = @ + 1] ELSE Begin(read, 1)
  /\ UNCHANGED <<holds, missing, failures>>

\* A read that is refused or never answers: nothing was written yet, or for a
\* removal nothing in this partition.
ReadFails ==
  /\ Running /\ memberCall.phase = "read" /\ failures < MaxFailures
  /\ Ends("failed")
  /\ failures' = failures + 1
  /\ UNCHANGED <<holds, missing>>

\* _remove_from_group of a group held under another role.  A failure ends the call.
DropGroup(answer) ==
  /\ Running /\ memberCall.phase = "drop" /\ memberCall.todo # {}
  /\ Allowed(answer) /\ Fails(answer)
  /\ holds' = [holds EXCEPT ![Here] = IF answer.effect THEN @ \ {NextGroup} ELSE @]
  /\ IF answer.ok THEN memberCall' = [memberCall EXCEPT !.todo = @ \ {NextGroup}] ELSE Ends("failed")
  /\ UNCHANGED missing

StartAdding ==
  /\ Running /\ memberCall.phase = "drop" /\ memberCall.todo = {}
  /\ memberCall' = [memberCall EXCEPT !.phase = "add", !.todo = Presets[memberCall.role]]
  /\ UNCHANGED <<holds, missing, failures>>

\* Mutant of StartUndo: only the additions that were answered are taken back.
UndoAnswered ==
  [memberCall EXCEPT !.phase = "undo",
                     !.todo = (Presets[memberCall.role] \ memberCall.todo) \ memberCall.read[Here]]

StartUndo == [memberCall EXCEPT !.phase = "undo", !.todo = Absent(memberCall.role, memberCall.read[Here])]

\* _add_member: 201, 409 for one who is a member already, or a failure, which
\* starts the undo; a group that is not there answers 404, a failure too.
AddGroup(answer) ==
  /\ Running /\ memberCall.phase = "add" /\ memberCall.todo # {}
  /\ Allowed(answer) /\ Fails(answer)
  /\ LET there == NextGroup \notin missing[Here]
     IN  /\ holds' = IF there /\ answer.effect THEN [holds EXCEPT ![Here] = @ \union {NextGroup}]
                     ELSE holds
         /\ memberCall' = IF there /\ answer.ok THEN [memberCall EXCEPT !.todo = @ \ {NextGroup}] ELSE StartUndo
  /\ UNCHANGED missing

\* Mutant of PartitionDone: the report follows the first partition.
PartitionDoneOnce ==
  /\ Running /\ memberCall.phase = "add" /\ memberCall.todo = {}
  /\ Ends("done")
  /\ UNCHANGED <<holds, missing, failures>>

\* The next partition, or the report.
PartitionDone ==
  /\ Running /\ memberCall.phase = "add" /\ memberCall.todo = {}
  /\ IF memberCall.at < Len(Tenants) THEN memberCall' = Begin(memberCall, memberCall.at + 1) ELSE Ends("done")
  /\ UNCHANGED <<holds, missing, failures>>

\* _undo, `users` last; what could not be removed is named to the operator.
UndoGroup(answer) ==
  /\ Running /\ memberCall.phase = "undo" /\ memberCall.todo # {}
  /\ Allowed(answer) /\ Fails(answer)
  /\ holds' = [holds EXCEPT ![Here] = IF answer.effect THEN @ \ {NextGroup} ELSE @]
  /\ memberCall' = [memberCall EXCEPT !.todo = @ \ {NextGroup},
                          !.kept = IF answer.ok THEN @ ELSE @ \union {NextGroup}]
  /\ UNCHANGED missing

UndoDone ==
  /\ Running /\ memberCall.phase = "undo" /\ memberCall.todo = {}
  /\ Ends(IF memberCall.kept = {} THEN "undone" ELSE "kept")
  /\ UNCHANGED <<holds, missing, failures>>

-----------------------------------------------------------------------------
(* spi users remove.                                                         *)

RemoveUser ==
  /\ ~Running
  /\ memberCall' = NewCall("remove", NoCall)
  /\ UNCHANGED <<holds, missing, failures>>

\* Who counts as a member of the partition before anything is deleted.
Known(groups) == Users \in groups \/ Impersonation \in groups

\* The partition is "removed" or "absent", and the next one follows.
Reported == IF memberCall.at < Len(Tenants) THEN memberCall' = [memberCall EXCEPT !.at = @ + 1] ELSE Ends("done")

FindAbsent ==
  /\ Running /\ memberCall.op = "remove" /\ ~Known(holds[Here])
  /\ Reported
  /\ UNCHANGED <<holds, missing, failures>>

\* DELETE members/<person>: entitlements takes the person out of every group.
DeleteMember(answer) ==
  /\ Running /\ memberCall.op = "remove" /\ Known(holds[Here])
  /\ Allowed(answer) /\ Fails(answer)
  /\ holds' = [holds EXCEPT ![Here] = IF answer.effect THEN {} ELSE @]
  /\ IF answer.ok THEN Reported ELSE Ends("failed")
  /\ UNCHANGED missing

\* The process is killed between two calls of entitlements.
Killed ==
  /\ Running /\ failures < MaxFailures
  /\ Ends("killed")
  /\ failures' = failures + 1
  /\ UNCHANGED <<holds, missing>>

-----------------------------------------------------------------------------
MembershipInit ==
  /\ holds = [p \in PartitionSet |-> {}]
  /\ missing \in {m \in [PartitionSet -> SUBSET MayMiss] :
                    \A p, q \in PartitionSet : m[p] # {} /\ m[q] # {} => p = q}
  /\ memberCall = NoCall
  /\ failures = 0

MembershipNext ==
  \/ \E role \in AskedRoles : AddUser(role)
  \/ ReadPartition
  \/ ReadFails
  \/ StartAdding
  \/ PartitionDone
  \/ UndoDone
  \/ RemoveUser
  \/ FindAbsent
  \/ Killed
  \/ \E answer \in Answers :
       \/ DropGroup(answer)
       \/ AddGroup(answer)
       \/ UndoGroup(answer)
       \/ DeleteMember(answer)

MembershipSpec == MembershipInit /\ [][MembershipNext]_memberVars

-----------------------------------------------------------------------------
MemberTypeOK ==
  /\ holds \in [PartitionSet -> SUBSET Groups]
  /\ missing \in [PartitionSet -> SUBSET MayMiss]
  /\ failures \in 0..MaxFailures
  /\ memberCall # NoCall =>
       /\ memberCall.op \in {"add", "remove"} /\ memberCall.at \in 1..Len(Tenants)
       /\ memberCall.todo \subseteq Groups /\ memberCall.kept \subseteq Groups

\* "Removals come first so a failed addition never leaves the old role
\* standing": when an addition failed, whatever its undo met, the person holds
\* no group there that the asked role does not grant (add_user).
FailedAddDropsOldRole ==
  memberCall # NoCall /\ (memberCall.phase = "undo" \/ memberCall.outcome \in {"undone", "kept"}) =>
    holds[Here] \subseteq Presets[memberCall.role]

\* "The groups this run added were removed": the person is left with exactly
\* what the role and the first read share, lost replies included (_undo).
UndoIsExact ==
  memberCall # NoCall /\ memberCall.outcome = "undone" =>
    holds[Here] = memberCall.began[Here] \intersect Presets[memberCall.role]

\* "Every partition is read before the first write, so a missing group grants
\* nothing": an add refused because a group is missing anywhere changed no
\* partition, and no add gets as far as undoing because of it (add_user).
MissingGroupGrantsNothing ==
  memberCall # NoCall /\ memberCall.op = "add" /\ (\E p \in PartitionSet : Presets[memberCall.role] \intersect missing[p] # {})
    => holds = memberCall.began

\* "Set a member's role": whatever killed and failed calls left behind, an add
\* that reports success leaves exactly the asked role in every partition, as
\* `spi users list` shows it.
AddSetsTheRole ==
  memberCall # NoCall /\ memberCall.op = "add" /\ memberCall.outcome = "done" =>
    \A p \in PartitionSet : Users \in holds[p] /\ RoleOf(holds[p]) = memberCall.role

\* What a person holds after an add is what the add reports, whichever of its
\* writes and answers were lost.
MembersAreAsTold ==
  FailedAddDropsOldRole /\ UndoIsExact /\ MissingGroupGrantsNothing /\ AddSetsTheRole

\* "Delete a member from every group in each partition" (remove_user's
\* docstring): a removal that reports success leaves no membership behind.
\* The code breaks it: a rollback can keep a group remove_user does not look at.
RemoveDeletesMember ==
  memberCall # NoCall /\ memberCall.op = "remove" /\ memberCall.outcome = "done" =>
    \A p \in PartitionSet : holds[p] = {}

=============================================================================
