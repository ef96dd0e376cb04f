------------------------- MODULE EnvironmentRecord -------------------------
(***************************************************************************)
(* What the deploy record promises its users: version facts and the        *)
(* maintenance flag in one object, on which each upsert and each change    *)
(* of the flag takes effect at one instant, or not at all, or at several   *)
(* when its caller was not told of the first.                              *)
(***************************************************************************)
CONSTANTS
  Callers,   \* processes using the record
  Facts,     \* what an upsert records: ref, commit, CLI, profile, time
  None

VARIABLES
  record,    \* None before the first upsert
  pending    \* per process, the request it has not finished

Record == [facts : Facts, maintenance : BOOLEAN]

Request ==
  [kind : {"upsert"}, facts : Facts, initial : BOOLEAN] \cup [kind : {"set"}, enabled : BOOLEAN]

\* The record a request leaves: an upsert keeps the flag of the record it
\* finds, a change of the flag keeps the facts.
After(q, found) ==
  IF q.kind = "upsert"
    THEN [facts |-> q.facts,
          maintenance |-> IF found = None THEN q.initial ELSE found.maintenance]
    ELSE [facts |-> found.facts, maintenance |-> q.enabled]

Init ==
  /\ record = None
  /\ pending = [c \in Callers |-> None]

Issue(c, q) ==
  /\ pending[c] = None
  /\ pending' = [pending EXCEPT ![c] = q]
  /\ UNCHANGED record

TakeEffect(c) ==
  /\ pending[c] # None
  /\ pending[c].kind = "set" => record # None
  /\ record' = After(pending[c], record)
  /\ pending' = [pending EXCEPT ![c] = None] \/ UNCHANGED pending

\* A request ends without having taken effect now.
Fail(c) ==
  /\ pending[c] # None
  /\ pending' = [pending EXCEPT ![c] = None]
  /\ UNCHANGED record

Next == \E c \in Callers : (\E q \in Request : Issue(c, q)) \/ TakeEffect(c) \/ Fail(c)

Spec == Init /\ [][Next]_<<record, pending>>
=============================================================================
