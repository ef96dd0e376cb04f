--------------------------- MODULE DeployRecord ---------------------------
(***************************************************************************)
(* The deploy record as deploy_record.py keeps it: `spi up` upserts it and *)
(* `spi maintenance` moves its flag, each by reading the ConfigMap,        *)
(* computing a record from what it read, and creating the object or        *)
(* patching it on condition that the resourceVersion has not moved.        *)
(***************************************************************************)
EXTENDS Integers, FiniteSets

CONSTANTS
  Callers, Facts, None,
  CasAttempts    \* _CAS_ATTEMPTS

ASSUME DeployRecordAssumption ==
  /\ CasAttempts \in Nat \ {0}
  /\ None \notin [facts : Facts, maintenance : BOOLEAN]
  /\ None \notin [kind : {"upsert"}, facts : Facts, initial : BOOLEAN]
  /\ None \notin [kind : {"set"}, enabled : BOOLEAN]

VARIABLES
  record,    \* the ConfigMap, or None
  request,   \* per process: the call it is in, or None
  reading,   \* processes that have still to read, in this attempt
  copy,      \* per process: the record it read, None for none
  fresh,     \* processes whose read was of the live object
  attempt

vars == <<record, request, reading, copy, fresh, attempt>>

Promise == INSTANCE EnvironmentRecord WITH pending <- request

Record == Promise!Record
Request == Promise!Request

TypeOK ==
  /\ record \in Record \cup {None}
  /\ request \in [Callers -> Request \cup {None}]
  /\ reading \subseteq {c \in Callers : request[c] # None}
  /\ copy \in [Callers -> Record \cup {None}]
  /\ fresh \subseteq {c \in Callers : request[c] # None} \ reading
  /\ attempt \in [Callers -> 0 .. CasAttempts - 1]

Init ==
  /\ record = None
  /\ request = [c \in Callers |-> None]
  /\ reading = {}
  /\ copy = [c \in Callers |-> None]
  /\ fresh = {}
  /\ attempt = [c \in Callers |-> 0]

Call(c, q) ==
  /\ request[c] = None
  /\ request' = [request EXCEPT ![c] = q]
  /\ reading' = reading \cup {c}
  /\ attempt' = [attempt EXCEPT ![c] = 0]
  /\ UNCHANGED <<record, copy, fresh>>

\* The call is over, returned or raised.
Finish(c) ==
  /\ request' = [request EXCEPT ![c] = None]
  /\ reading' = reading \ {c}
  /\ UNCHANGED <<copy, attempt>>

\* set_maintenance raises without a record and returns when the flag is
\* already as asked.
NothingToSet(q) == q.kind = "set" /\ (record = None \/ record.maintenance = q.enabled)

ReadRecord(c) ==
  /\ c \in reading
  /\ IF NothingToSet(request[c])
       THEN Finish(c) /\ UNCHANGED fresh
       ELSE /\ copy' = [copy EXCEPT ![c] = record]
            /\ reading' = reading \ {c}
            /\ fresh' = fresh \cup {c}
            /\ UNCHANGED <<request, attempt>>
  /\ UNCHANGED record

\* Mutant of Updated: an upsert writes the flag it was called with.
UpdatedAnew(q, read) ==
  IF q.kind = "upsert" THEN [facts |-> q.facts, maintenance |-> q.initial]
  ELSE [facts |-> read.facts, maintenance |-> q.enabled]

Updated(q, read) ==
  IF q.kind = "upsert"
    THEN [facts |-> q.facts, maintenance |-> IF read = None THEN q.initial ELSE read.maintenance]
    ELSE [facts |-> read.facts, maintenance |-> q.enabled]

Writing(c) == request[c] # None /\ c \notin reading

\* Mutant of Applied: the patch carries no resourceVersion test.
AppliedUntested(c, moved) ==
  /\ Writing(c)
  /\ record' = Updated(request[c], copy[c])
  /\ record' # record => moved
  /\ fresh' = IF moved THEN {} ELSE fresh \ {c}

\* The server creates the object, or takes the patch.
Applied(c, moved) ==
  /\ Writing(c) /\ c \in fresh
  /\ record' = Updated(request[c], copy[c])
  /\ record' # record => moved
  /\ fresh' = IF moved THEN {} ELSE fresh \ {c}

WriteRecord(c) == (\E moved \in BOOLEAN : Applied(c, moved)) /\ Finish(c)

Retry(c) ==
  IF attempt[c] < CasAttempts - 1
    THEN /\ reading' = reading \cup {c}
         /\ attempt' = [attempt EXCEPT ![c] = @ + 1]
         /\ UNCHANGED <<request, copy>>
    ELSE Finish(c)

\* "already exists", or the test on the resourceVersion failed.
LostRace(c) ==
  /\ Writing(c) /\ c \notin fresh
  /\ Retry(c)
  /\ UNCHANGED <<record, fresh>>

\* The write took effect but kubectl failed.  A patch that is sent again, or
\* whose resourceVersion is read again, finds the version moved and counts as
\* a lost race; a create, or a failed second read, is an error.
ReplyLost(c) ==
  /\ Applied(c, TRUE)
  /\ \/ record # None /\ Retry(c)
     \/ Finish(c)

\* kubectl fails, or the process dies.
CallFails(c) ==
  /\ request[c] # None
  /\ Finish(c)
  /\ fresh' = fresh \ {c}
  /\ UNCHANGED record

Next ==
  \E c \in Callers :
    \/ \E q \in Request : Call(c, q)
    \/ ReadRecord(c) \/ WriteRecord(c) \/ LostRace(c) \/ ReplyLost(c) \/ CallFails(c)

Spec == Init /\ [][Next]_vars

(***************************************************************************)
(* Properties                                                              *)
(***************************************************************************)

\* Concurrent upserts and flag changes behave as if each took effect at one
\* instant on the record of that instant, and again at another when its
\* reply was lost: an upsert never undoes a flag set while it ran, a flag
\* change never brings back older version facts, and only one of two first
\* writers creates the record (upsert_deploy_record: "preserving an existing
\* maintenance flag").
RecordIsAtomic == Promise!Spec
=============================================================================
