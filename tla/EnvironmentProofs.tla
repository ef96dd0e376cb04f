-------------------------- MODULE EnvironmentProofs --------------------------
(* The deploy record's compare-and-retry loop keeps EnvironmentRecord's       *)
(* promise.  What `spi up` keeps and what it has made at each of its steps is *)
(* proved for any suffixes, refs and declarations, and for any number of      *)
(* kills, teardowns and re-runs.                                              *)
EXTENDS DeployRecord, Provision, FiniteSetTheorems, SequenceTheorems, TLAPS

---------------------------------------------------------------------------
(* The deploy record.                                                        *)

\* A copy read at the live version is the record; a flag change writes only
\* over a record it has read.
Inv ==
  /\ TypeOK
  /\ \A c \in fresh : copy[c] = record
  /\ \A c \in Callers : Writing(c) /\ request[c].kind = "set" => copy[c] # None

\* What a compare-and-retry patch writes is a record.
LEMMA UpdatedType ==
  ASSUME NEW q \in Request, NEW read \in Record \cup {None}, q.kind = "set" => read # None
  PROVE  Updated(q, read) \in Record /\ Updated(q, read) = Promise!After(q, read)
<1> USE DeployRecordAssumption DEF Record, Request, Promise!Record, Promise!Request
<1>1. CASE q.kind = "upsert"
  <2>1. q.facts \in Facts /\ q.initial \in BOOLEAN BY <1>1
  <2> QED BY <1>1, <2>1 DEF Updated, Promise!After
<1>2. CASE q.kind # "upsert"
  <2>1. q.kind = "set" /\ q.enabled \in BOOLEAN /\ read \in Record BY <1>2
  <2> QED BY <1>2, <2>1 DEF Updated, Promise!After
<1> QED BY <1>1, <1>2

\* An accepted write is the request applied to the live record.
LEMMA AppliedIsCurrent ==
  ASSUME Inv, NEW c \in Callers, NEW moved \in BOOLEAN, Applied(c, moved)
  PROVE  /\ request[c] \in Request /\ (request[c].kind = "set" => record # None)
         /\ record' \in Record /\ record' = Promise!After(request[c], record)
<1>1. request[c] \in Request /\ copy[c] = record /\ copy[c] \in Record \cup {None}
  BY DEF Inv, TypeOK, Applied, Writing
<1>2. request[c].kind = "set" => copy[c] # None BY DEF Inv, Applied
<1> QED BY <1>1, <1>2, UpdatedType DEF Applied

\* The initial state satisfies the invariant.
LEMMA InvInit == Init => Inv
BY DeployRecordAssumption DEF Init, Inv, TypeOK, Writing

\* Every step of every process keeps the invariant.
LEMMA StepKeepsInv ==
  ASSUME Inv, [Next]_vars
  PROVE  Inv'
<1> USE DeployRecordAssumption
<1>1. ASSUME NEW c \in Callers, NEW q \in Request, Call(c, q) PROVE Inv'
  <2>1. q # None BY DEF Request, Promise!Request
  <2> QED BY <1>1, <2>1 DEF Call, Inv, TypeOK, Writing
<1>2. ASSUME NEW c \in Callers, ReadRecord(c) PROVE Inv'
  <2>1. CASE NothingToSet(request[c]) BY <1>2, <2>1 DEF ReadRecord, Finish, Inv, TypeOK, Writing
  <2>2. CASE ~NothingToSet(request[c])
    <3>1. request[c].kind = "set" => record # None BY <2>2 DEF NothingToSet
    <3> QED BY <1>2, <2>2, <3>1 DEF ReadRecord, Inv, TypeOK, Writing
  <2> QED BY <2>1, <2>2
<1>3. ASSUME NEW c \in Callers, NEW moved \in BOOLEAN, Applied(c, moved), Finish(c) PROVE Inv'
  <2>1. record' \in Record BY <1>3, AppliedIsCurrent
  <2> QED BY <1>3, <2>1 DEF Applied, Finish, Inv, TypeOK, Writing
<1>4. ASSUME NEW c \in Callers, NEW moved \in BOOLEAN, Applied(c, moved), Retry(c) PROVE Inv'
  <2>1. record' \in Record BY <1>4, AppliedIsCurrent
  <2>2. CASE attempt[c] < CasAttempts - 1
    BY <1>4, <2>1, <2>2 DEF Applied, Retry, Inv, TypeOK, Writing
  <2>3. CASE ~(attempt[c] < CasAttempts - 1) BY <1>3, <1>4, <2>3 DEF Retry
  <2> QED BY <2>2, <2>3
<1>5. ASSUME NEW c \in Callers, LostRace(c) PROVE Inv'
  <2>1. CASE attempt[c] < CasAttempts - 1
    BY <1>5, <2>1 DEF LostRace, Retry, Inv, TypeOK, Writing
  <2>2. CASE ~(attempt[c] < CasAttempts - 1)
    BY <1>5, <2>2 DEF LostRace, Retry, Finish, Inv, TypeOK, Writing
  <2> QED BY <2>1, <2>2
<1>6. ASSUME NEW c \in Callers, CallFails(c) PROVE Inv'
  BY <1>6 DEF CallFails, Finish, Inv, TypeOK, Writing
<1>7. CASE UNCHANGED vars BY <1>7 DEF vars, Inv, TypeOK, Writing
<1>8. ASSUME NEW c \in Callers, WriteRecord(c) PROVE Inv' BY <1>3, <1>8 DEF WriteRecord
<1>9. ASSUME NEW c \in Callers, ReplyLost(c) PROVE Inv'
  <2>1. Applied(c, TRUE) /\ (Retry(c) \/ Finish(c)) BY <1>9 DEF ReplyLost
  <2> QED BY <2>1, <1>3, <1>4
<1> QED BY <1>1, <1>2, <1>5, <1>6, <1>7, <1>8, <1>9 DEF Next

\* Every reachable state satisfies the invariant.
LEMMA InvAlways == Spec => []Inv
BY InvInit, StepKeepsInv, PTL DEF Spec

-----------------------------------------------------------------------------
\* The record and every process's view of it keep their types.
THEOREM RecordIsTyped == Spec => []TypeOK
<1>1. Inv => TypeOK BY DEF Inv
<1> QED BY <1>1, InvAlways, PTL

\* Upserts and flag changes take effect at one instant each, for any number
\* of processes and any number of attempts; one whose reply was lost, at
\* several.
THEOREM RecordRefines == Spec => RecordIsAtomic
<1>1. Init => Promise!Init BY DEF Init, Promise!Init
<1>2. ASSUME Inv, [Next]_vars
      PROVE  [Promise!Next]_<<record, request>>
  <2>1. ASSUME NEW c \in Callers, Finish(c), UNCHANGED record, request[c] # None
        PROVE  Promise!Next
    BY <2>1 DEF Finish, Promise!Next, Promise!Fail
  <2>2. ASSUME NEW c \in Callers, NEW q \in Request, Call(c, q) PROVE Promise!Next
    BY <2>2 DEF Call, Promise!Next, Promise!Issue, Request
  <2>3. ASSUME NEW c \in Callers, ReadRecord(c) PROVE [Promise!Next]_<<record, request>>
    <3>1. request[c] # None BY <1>2, <2>3 DEF ReadRecord, Inv, TypeOK
    <3> QED BY <2>1, <2>3, <3>1 DEF ReadRecord
  <2>4. ASSUME NEW c \in Callers, WriteRecord(c) PROVE Promise!Next
    <3>1. PICK moved \in BOOLEAN : Applied(c, moved) /\ Finish(c) BY <2>4 DEF WriteRecord
    <3>2. /\ request[c].kind = "set" => record # None
          /\ record' = Promise!After(request[c], record)
      BY <1>2, <3>1, AppliedIsCurrent
    <3>3. request[c] # None BY <3>1 DEF Applied, Writing
    <3>4. Promise!TakeEffect(c) BY <3>1, <3>2, <3>3 DEF Promise!TakeEffect, Finish
    <3> QED BY <3>4 DEF Promise!Next
  <2>5. ASSUME NEW c \in Callers, LostRace(c) PROVE [Promise!Next]_<<record, request>>
    <3>1. request[c] # None BY <2>5 DEF LostRace, Writing
    <3> QED BY <2>1, <2>5, <3>1 DEF LostRace, Retry
  <2>6. ASSUME NEW c \in Callers, ReplyLost(c) PROVE Promise!Next
    <3>1. Applied(c, TRUE) /\ (Retry(c) \/ Finish(c)) BY <2>6 DEF ReplyLost
    <3>2. /\ request[c].kind = "set" => record # None
          /\ record' = Promise!After(request[c], record)
      BY <1>2, <3>1, AppliedIsCurrent
    <3>3. request' = [request EXCEPT ![c] = None] \/ UNCHANGED request
      BY <3>1 DEF Retry, Finish
    <3>4. Promise!TakeEffect(c)
      BY <3>1, <3>2, <3>3 DEF Promise!TakeEffect, Applied, Writing
    <3> QED BY <3>4 DEF Promise!Next
  <2>7. ASSUME NEW c \in Callers, CallFails(c) PROVE Promise!Next
    BY <2>1, <2>7 DEF CallFails
  <2>8. CASE UNCHANGED vars BY <2>8 DEF vars
  <2> QED BY <1>2, <2>2, <2>3, <2>4, <2>5, <2>6, <2>7, <2>8 DEF Next
<1> QED BY <1>1, <1>2, InvAlways, PTL DEF Spec, RecordIsAtomic, Promise!Spec

---------------------------------------------------------------------------
(* Provisioning.                                                             *)

ProvisionSafety == ProvisionInit /\ [][ProvisionNext]_provisionVars

---------------------------------------------------------------------------
(* The steps and their places.                                               *)

Place ==
  [permissions |-> 1, names |-> 2, persist |-> 3, images |-> 4, zones |-> 5, group |-> 6,
   cluster |-> 7, access |-> 8, recover |-> 9, paas |-> 10, namespaces |-> 11,
   clusterConfig |-> 12, seed |-> 13, platform |-> 14, osdu |-> 15, lock |-> 16,
   osduConfig |-> 17, initValues |-> 18, flux |-> 19, seedAgain |-> 20, vault |-> 21,
   resume |-> 22, fetch |-> 23, verify |-> 24, suspend |-> 25, record |-> 26, done |-> 27]

\* The place of a step is where UpSteps has it.
LEMMA StepsInOrder ==
  /\ Len(UpSteps) = 27
  /\ \A i \in 1 .. 27 : UpSteps[i] \in DOMAIN Place /\ Place[UpSteps[i]] = i
<1> DEFINE AndInfra == Preflight \o Infra
           AndBootstrap == AndInfra \o Bootstrap
<1>1. /\ Preflight \in Seq(DOMAIN Place) /\ Len(Preflight) = 5
      /\ Infra \in Seq(DOMAIN Place) /\ Len(Infra) = 5
      /\ Bootstrap \in Seq(DOMAIN Place) /\ Len(Bootstrap) = 8
      /\ GitOps \in Seq(DOMAIN Place) /\ Len(GitOps) = 9
  <2>1. Preflight \in Seq(DOMAIN Place) /\ Len(Preflight) = 5
    BY DEF Preflight, Place
  <2>2. Infra \in Seq(DOMAIN Place) /\ Len(Infra) = 5
    BY DEF Infra, Place
  <2>3. Bootstrap \in Seq(DOMAIN Place) /\ Len(Bootstrap) = 8
    BY DEF Bootstrap, Place
  <2>4. GitOps \in Seq(DOMAIN Place) /\ Len(GitOps) = 9
    BY DEF GitOps, Place
  <2> QED BY <2>1, <2>2, <2>3, <2>4
<1>2. /\ AndInfra \in Seq(DOMAIN Place) /\ Len(AndInfra) = 10
      /\ \A i \in 1 .. 10 : AndInfra[i] = IF i <= 5 THEN Preflight[i] ELSE Infra[i - 5]
  <2> HIDE DEF AndInfra
  <2>1. /\ AndInfra \in Seq(DOMAIN Place)
        /\ Len(AndInfra) = Len(Preflight) + Len(Infra)
        /\ \A i \in 1 .. Len(Preflight) + Len(Infra) : AndInfra[i] =
             IF i <= Len(Preflight) THEN Preflight[i] ELSE Infra[i - Len(Preflight)]
    BY <1>1, ConcatProperties DEF AndInfra
  <2> QED BY <1>1, <2>1
<1>3. /\ AndBootstrap \in Seq(DOMAIN Place) /\ Len(AndBootstrap) = 18
      /\ \A i \in 1 .. 18 : AndBootstrap[i] = IF i <= 10 THEN AndInfra[i] ELSE Bootstrap[i - 10]
  <2> HIDE DEF AndInfra, AndBootstrap
  <2>1. /\ AndBootstrap \in Seq(DOMAIN Place)
        /\ Len(AndBootstrap) = Len(AndInfra) + Len(Bootstrap)
        /\ \A i \in 1 .. Len(AndInfra) + Len(Bootstrap) : AndBootstrap[i] =
             IF i <= Len(AndInfra) THEN AndInfra[i] ELSE Bootstrap[i - Len(AndInfra)]
    BY <1>1, <1>2, ConcatProperties DEF AndBootstrap
  <2> QED BY <1>1, <1>2, <2>1
<1>4. UpSteps = AndBootstrap \o GitOps
  BY DEF UpSteps
<1> HIDE DEF AndInfra, AndBootstrap
<1>5. /\ Len(UpSteps) = 27
      /\ \A i \in 1 .. 27 : UpSteps[i] = IF i <= 18 THEN AndBootstrap[i] ELSE GitOps[i - 18]
  <2>1. /\ Len(UpSteps) = Len(AndBootstrap) + Len(GitOps)
        /\ \A i \in 1 .. Len(AndBootstrap) + Len(GitOps) : UpSteps[i] =
             IF i <= Len(AndBootstrap) THEN AndBootstrap[i] ELSE GitOps[i - Len(AndBootstrap)]
    BY <1>1, <1>3, <1>4, ConcatProperties
  <2> QED BY <1>1, <1>3, <2>1
<1>6. ASSUME NEW i \in 1 .. 5 PROVE UpSteps[i] \in DOMAIN Place /\ Place[UpSteps[i]] = i
  <2>1. UpSteps[i] = AndBootstrap[i]
    BY <1>5
  <2>2. AndBootstrap[i] = AndInfra[i]
    BY <1>3
  <2>3. UpSteps[i] = Preflight[i]
    BY <1>2, <2>1, <2>2
  <2> QED BY <2>3 DEF Place, Preflight
<1>7. ASSUME NEW i \in 6 .. 10 PROVE UpSteps[i] \in DOMAIN Place /\ Place[UpSteps[i]] = i
  <2>1. UpSteps[i] = AndBootstrap[i]
    BY <1>5
  <2>2. AndBootstrap[i] = AndInfra[i]
    BY <1>3
  <2>3. UpSteps[i] = Infra[i - 5]
    BY <1>2, <2>1, <2>2
  <2> QED BY <2>3 DEF Place, Infra
<1>8. ASSUME NEW i \in 11 .. 18 PROVE UpSteps[i] \in DOMAIN Place /\ Place[UpSteps[i]] = i
  <2>1. UpSteps[i] = AndBootstrap[i]
    BY <1>5
  <2>2. UpSteps[i] = Bootstrap[i - 10]
    BY <1>3, <2>1
  <2> QED BY <2>2 DEF Place, Bootstrap
<1>9. ASSUME NEW i \in 19 .. 27 PROVE UpSteps[i] \in DOMAIN Place /\ Place[UpSteps[i]] = i
  <2>1. UpSteps[i] = GitOps[i - 18]
    BY <1>5
  <2> QED BY <2>1 DEF Place, GitOps
<1> QED BY <1>5, <1>6, <1>7, <1>8, <1>9

\* A run that is at a step has the place of the step.
LEMMA AtPlace ==
  ASSUME NEW step, UpAt(step), up.at \in 1 .. 27
  PROVE  up # NoUp /\ step \in DOMAIN Place /\ up.at = Place[step]
BY StepsInOrder DEF UpAt

---------------------------------------------------------------------------
(* The invariant.                                                            *)

Ups ==
  [at : 1 .. 27, kind : UpKinds, asked : Requested \cup {NoTag}, name : Names \cup {NoTag},
   ref : Refs, seed : Seeds \cup {NoSeed}, commit : 0 .. MaxCommit,
   locator : Locators \cup {NoLocator}]

Copies == {"platform", "osdu"} \cup Names

ProvisionTyped ==
  /\ rg \in [there : BOOLEAN, suffix : Names \cup {NoTag}, locator : Locators \cup {NoLocator}]
  /\ vaults \in [Names -> {"none", "live", "deleted"}]
  /\ made \subseteq InputsOfFlux \cup {"cluster"}
  /\ seed \in Seeds \cup {NoSeed} /\ copies \in [Copies -> Seeds \cup {NoSeed}]
  /\ source # NoSource => source \in Sources
  /\ recorded # NoSource => recorded \in Revisions
  /\ head \in [Refs -> 1 .. MaxCommit]
  /\ up # NoUp => up \in Ups
  /\ deployed \in BOOLEAN /\ troubles \in Nat

\* The run has left the step of that place behind.
Past(place) == up # NoUp /\ up.at > place

\* While reads of the group answer, live vaults carry the name the group
\* records, or the unsuffixed one where it records none yet; a run has the name
\* of what is live, and once it has made the group the group records it.
NamesSound ==
  /\ ~TagReadsFail =>
       /\ \A n \in Names : vaults[n] = "live" =>
            /\ rg.there
            /\ rg.suffix = n \/ (rg.suffix = NoTag /\ n = Unsuffixed)
            /\ Past(2) => up.name = n
       /\ Past(3) /\ rg.there => rg.suffix = up.name
  /\ Past(2) => up.name \in Names
  /\ Past(6) => rg.there

\* Without a legacy start, while reads of the group answer, nothing is ever
\* unsuffixed and a run past its names has the name the group records; every
\* run carries the group's locator.
TagsSound ==
  /\ ~LegacyStart /\ ~TagReadsFail =>
       /\ rg.suffix # Unsuffixed /\ vaults[Unsuffixed] # "live"
       /\ Past(2) => up.name # Unsuffixed
       /\ Past(2) /\ rg.there /\ rg.suffix # NoTag => up.name = rg.suffix
  /\ up # NoUp /\ rg.locator # NoLocator => up.locator = rg.locator

\* A run that is to be refused is not past the check that refuses it.
RefusalSound ==
  up # NoUp =>
    /\ up.kind = "permissions" => up.at <= 1
    /\ up.kind = "images" => up.at <= 4
    /\ up.kind = "zones" => up.at <= 5

\* What the steps behind a run have made is there.
WorkSound ==
  /\ Past(8) => "access" \in made
  /\ Past(11) => "namespaces" \in made
  /\ Past(12) => "clusterConfig" \in made
  /\ Past(16) => "lock" \in made
  /\ Past(17) => "osduConfig" \in made
  /\ Past(18) => "initValues" \in made
  /\ Past(13) => seed # NoSeed /\ up.seed # NoSeed
  /\ Past(14) => copies["platform"] # NoSeed
  /\ Past(15) => copies["osdu"] # NoSeed

\* While reads of the seed answer, the run works with the seed in use, and so
\* do the copies it has written.
SeedSound ==
  ~SeedReadsFail =>
    /\ Past(13) => up.seed = seed
    /\ Past(14) => copies["platform"] = seed
    /\ Past(15) => copies["osdu"] = seed
    /\ Past(21) => copies[up.name] = seed

\* The source follows the run's ref; what was verified is of that ref; it is
\* frozen before it is recorded.
SourceSound ==
  /\ Past(19) => source \in Sources /\ source.ref = up.ref
  /\ Past(24) => source.artifact.ref = up.ref
  /\ Past(25) => source.suspended
  /\ Past(26) => recorded \in Revisions /\ recorded.ref = up.ref

\* Nothing of a deployed environment moves before the next run.
DeployedSound ==
  deployed =>
    /\ up = NoUp /\ source \in Sources
    /\ ~SeedReadsFail /\ ~TagReadsFail => SecretsAgree
    /\ DeployedIsFrozen

ProvisionInv ==
  /\ ProvisionTyped /\ NamesSound /\ TagsSound /\ RefusalSound /\ WorkSound /\ SeedSound
  /\ SourceSound /\ DeployedSound /\ FluxFindsItsInputs

\* Before the first run nothing is there, or an environment without a suffix.
LEMMA ProvisionInitInv == ProvisionInit => ProvisionInv
<1> SUFFICES ASSUME ProvisionInit PROVE ProvisionInv
  OBVIOUS
<1>1. ProvisionTyped
  <2>1. /\ rg \in [there : BOOLEAN, suffix : Names \cup {NoTag}, locator : Locators \cup {NoLocator}]
        /\ vaults \in [Names -> {"none", "live", "deleted"}]
    BY ProvisionAssumption DEF ProvisionInit
  <2>2. copies \in [Copies -> Seeds \cup {NoSeed}] /\ head \in [Refs -> 1 .. MaxCommit]
    BY ProvisionAssumption DEF ProvisionInit, Copies
  <2> QED BY <2>1, <2>2 DEF ProvisionInit, ProvisionTyped
<1>2. NamesSound /\ TagsSound
  BY ProvisionAssumption DEF ProvisionInit, NamesSound, TagsSound, Past, Names
<1>3. RefusalSound /\ WorkSound /\ SeedSound /\ SourceSound /\ DeployedSound
  BY DEF ProvisionInit, RefusalSound, WorkSound, SeedSound, SourceSound, DeployedSound, Past
<1>4. FluxFindsItsInputs
  BY DEF ProvisionInit, FluxFindsItsInputs
<1> QED BY <1>1, <1>2, <1>3, <1>4 DEF ProvisionInv

---------------------------------------------------------------------------
(* The steps of a run.                                                       *)

\* One more element makes a finite set larger by at most one.
LEMMA OneMore ==
  ASSUME NEW S, IsFiniteSet(S), NEW x
  PROVE  /\ IsFiniteSet(S \cup {x}) /\ Cardinality(S) \in Nat /\ Cardinality(S \cup {x}) \in Nat
         /\ Cardinality(S \cup {x}) <= Cardinality(S) + 1
BY FS_AddElement, FS_CardinalityType

\* A seed that is generated is one, and is none.
LEMMA NewSeedIsFresh ==
  ASSUME ProvisionTyped
  PROVE  NewSeed \in Seeds /\ NewSeed # NoSeed
<1> DEFINE Copied == {copies[w] : w \in Copies}
           Used == Copied \cup {seed}
<1>1. /\ IsFiniteSet(Names) /\ Cardinality(Suffixes) \in Nat /\ Cardinality(Names) \in Nat
      /\ Cardinality(Names) <= Cardinality(Suffixes) + 1
  BY ProvisionAssumption, OneMore DEF Names
<1>2. Copies = (Names \cup {"platform"}) \cup {"osdu"}
  BY DEF Copies
<1>3. /\ IsFiniteSet(Names \cup {"platform"}) /\ Cardinality(Names \cup {"platform"}) \in Nat
      /\ Cardinality(Names \cup {"platform"}) <= Cardinality(Suffixes) + 2
  <2>1. /\ IsFiniteSet(Names \cup {"platform"}) /\ Cardinality(Names \cup {"platform"}) \in Nat
        /\ Cardinality(Names \cup {"platform"}) <= Cardinality(Names) + 1
    BY <1>1, OneMore, Zenon
  <2> QED BY <1>1, <2>1
<1>4. /\ IsFiniteSet(Copies) /\ Cardinality(Copies) \in Nat
      /\ Cardinality(Copies) <= Cardinality(Suffixes) + 3
  BY <1>1, <1>2, <1>3, OneMore
<1>5. IsFiniteSet(Used) /\ Cardinality(Used) <= Cardinality(Suffixes) + 4
  <2>1. copies \in Surjection(Copies, Copied)
    BY DEF ProvisionTyped, Surjection
  <2>2. IsFiniteSet(Copied) /\ Cardinality(Copied) <= Cardinality(Copies)
    BY <1>4, <2>1, FS_Surjection DEF ExistsSurjection
  <2>3. /\ IsFiniteSet(Used) /\ Cardinality(Copied) \in Nat /\ Cardinality(Used) \in Nat
        /\ Cardinality(Used) <= Cardinality(Copied) + 1
    <3> HIDE DEF Copied
    <3> QED BY <2>2, OneMore, Zenon
  <2> QED BY <1>1, <1>4, <2>2, <2>3
<1>6. Cardinality(Seeds) = MaxSeed
  BY FS_Interval, ProvisionAssumption DEF Seeds
<1>7. \E s \in Seeds : s \notin Used
  <2> SUFFICES ASSUME Seeds \subseteq Used PROVE FALSE
    OBVIOUS
  <2>1. Cardinality(Seeds) <= Cardinality(Used)
    BY <1>5, FS_Subset
  <2> QED BY <2>1, <1>5, <1>6, FS_CardinalityType, ProvisionAssumption
<1>8. \E s \in Seeds : s # seed /\ \A w \in DOMAIN copies : s # copies[w]
  BY <1>7 DEF ProvisionTyped
<1> QED BY <1>8, ProvisionAssumption DEF NewSeed

\* A run ends, and what it has made stays.
LEMMA EndKeeps ==
  ASSUME ProvisionInv, up' = NoUp, deployed' = deployed, up # NoUp,
         UNCHANGED <<rg, vaults, made, seed, copies, recorded, head>>, troubles' \in Nat,
         UNCHANGED source \/ (source \in Sources /\ source' = Frozen(source, TRUE))
  PROVE  ProvisionInv'
<1>1. ProvisionTyped'
  BY DEF ProvisionInv, ProvisionTyped, Frozen, Sources
<1>2. NamesSound' /\ TagsSound' /\ RefusalSound' /\ WorkSound' /\ SeedSound' /\ SourceSound'
  BY DEF ProvisionInv, NamesSound, TagsSound, RefusalSound, WorkSound, SeedSound, SourceSound, Past
<1>3. DeployedSound' /\ FluxFindsItsInputs'
  BY ProvisionAssumption DEF ProvisionInv, DeployedSound, FluxFindsItsInputs
<1> QED BY <1>1, <1>2, <1>3 DEF ProvisionInv

\* A run at a step is typed, is there, and nothing counts as deployed.
LEMMA OnTheWay ==
  ASSUME ProvisionInv, NEW step, UpAt(step)
  PROVE  /\ up # NoUp /\ up \in Ups /\ step \in DOMAIN Place /\ up.at = Place[step] /\ ~deployed
BY AtPlace DEF ProvisionInv, ProvisionTyped, DeployedSound, UpAt, Ups

\* A run that goes on is at the next place and is otherwise what it was.
LEMMA GoesOn ==
  ASSUME up \in Ups, up.at < 27, GoOn
  PROVE  /\ up' \in Ups /\ up'.at = up.at + 1 /\ up'.kind = up.kind /\ up'.asked = up.asked
         /\ up'.name = up.name /\ up'.ref = up.ref /\ up'.seed = up.seed /\ up'.commit = up.commit
         /\ up'.locator = up.locator
BY DEF Ups, GoOn

\* The checks that read and refuse.
LEMMA ChecksSound ==
  ASSUME ProvisionInv, NEW step \in {"permissions", "images", "zones"}, UpChecks(step)
  PROVE  ProvisionInv'
<1>1. up # NoUp /\ up \in Ups /\ up.at = Place[step] /\ ~deployed
  BY OnTheWay DEF UpChecks
<1>2. up.at \in {1, 4, 5}
  BY <1>1 DEF Place
<1>3. CASE UpEnds
  BY <1>1, <1>3, EndKeeps DEF UpChecks, UpEnds, cloudVars, ProvisionInv, ProvisionTyped
<1>4. CASE up.kind # step /\ GoOn
  <2> USE DEF ProvisionInv
  <2>1. up' \in Ups /\ up'.at = up.at + 1 /\ up'.kind = up.kind /\ up'.name = up.name /\ up'.locator = up.locator
    BY <1>1, <1>2, <1>4, GoesOn
  <2>2. ProvisionTyped'
    BY <2>1, <1>4 DEF UpChecks, cloudVars, ProvisionTyped
  <2>3. RefusalSound'
    BY <1>1, <1>4, <2>1 DEF RefusalSound, Place, Ups
  <2>4. NamesSound' /\ TagsSound' /\ WorkSound' /\ SeedSound' /\ SourceSound'
    BY <1>1, <1>2, <1>4, <2>1
    DEF UpChecks, cloudVars, NamesSound, TagsSound, WorkSound, SeedSound, SourceSound, Past, Ups
  <2>5. DeployedSound' /\ FluxFindsItsInputs'
    BY <1>1, <1>4 DEF UpChecks, cloudVars, DeployedSound, FluxFindsItsInputs
  <2> QED BY <2>2, <2>3, <2>4, <2>5
<1> QED BY <1>3, <1>4 DEF UpChecks

\* The name a run takes is that of what is live and of the group's tag.
LEMMA NamesStepSound ==
  ASSUME ProvisionInv, UpNames
  PROVE  ProvisionInv'
<1>1. up # NoUp /\ up \in Ups /\ up.at = 2 /\ ~deployed
  BY OnTheWay DEF UpNames, Place
<1>2. PICK n \in ResolvedNames(up.asked) :
        IF up.asked \in {NoTag, n} THEN up' = [up EXCEPT !.name = n, !.at = @ + 1] ELSE UpEnds
  BY DEF UpNames
<1>3. CASE UpEnds
  BY <1>1, <1>3, EndKeeps DEF UpNames, UpEnds, cloudVars, ProvisionInv, ProvisionTyped
<1>4. CASE up' = [up EXCEPT !.name = n, !.at = @ + 1]
  <2> USE DEF ProvisionInv
  <2>1. /\ n \in Names
        /\ ~TagReadsFail => \A m \in Names : vaults[m] = "live" => n = m
        /\ ~LegacyStart /\ ~TagReadsFail => n # Unsuffixed /\ (rg.suffix # NoTag => rg.suffix = n)
    <3>1. PICK tag \in TagReads, legacy \in LegacyReads : n \in NamesFor(tag, legacy, up.asked)
      BY <1>2 DEF ResolvedNames
    <3>2. n \in Names
      BY <1>1, <3>1, ProvisionAssumption DEF NamesFor, TagReads, Names, Ups
    <3>3. ~TagReadsFail => /\ tag = IF rg.suffix \in Suffixes THEN rg.suffix ELSE NoTag
                           /\ legacy = (rg.there /\ vaults[Unsuffixed] = "live")
      BY <3>1 DEF TagReads, LegacyReads
    <3> QED BY <1>1, <3>1, <3>2, <3>3, ProvisionAssumption
            DEF NamesFor, Names, NamesSound, TagsSound, ProvisionTyped, Ups
  <2>2. up' \in Ups /\ up'.at = 3 /\ up'.kind = up.kind /\ up'.name = n /\ up'.locator = up.locator
    <3>1. up' = [up EXCEPT !.name = n, !.at = 3]
      BY <1>1, <1>4
    <3>2. n \in Names \cup {NoTag} /\ 3 \in 1 .. 27
      BY <2>1
    <3>3. up' \in Ups
      BY <1>1, <3>1, <3>2 DEF Ups
    <3> QED BY <1>1, <3>1, <3>3 DEF Ups
  <2>3. ProvisionTyped'
    BY <2>2, <1>4 DEF UpNames, cloudVars, ProvisionTyped
  <2>4. NamesSound'
    BY <1>1, <2>1, <2>2 DEF UpNames, cloudVars, NamesSound, Past
  <2>7. TagsSound'
    BY <1>1, <2>1, <2>2 DEF UpNames, cloudVars, TagsSound, Past
  <2>5. RefusalSound' /\ WorkSound' /\ SeedSound' /\ SourceSound'
    BY <1>1, <2>2 DEF UpNames, cloudVars, RefusalSound, WorkSound, SeedSound, SourceSound, Past
  <2>6. DeployedSound' /\ FluxFindsItsInputs'
    BY <1>1 DEF UpNames, cloudVars, DeployedSound, FluxFindsItsInputs
  <2> QED BY <2>3, <2>4, <2>5, <2>6, <2>7
<1> QED BY <1>2, <1>3, <1>4

\* The tag is written where there is a group.
LEMMA PersistsSound ==
  ASSUME ProvisionInv, UpPersists
  PROVE  ProvisionInv'
<1> USE DEF ProvisionInv
<1>1. up # NoUp /\ up \in Ups /\ up.at = 3 /\ ~deployed
  BY OnTheWay DEF UpPersists, Place
<1>2. /\ up' \in Ups /\ up'.at = 4 /\ up'.kind = up.kind /\ up'.name = up.name
      /\ up'.locator = up.locator /\ up.name \in Names
  BY <1>1, GoesOn DEF UpPersists, NamesSound, Past
<1>3. /\ rg' = (IF rg.there THEN [rg EXCEPT !.suffix = up.name] ELSE rg) \/ rg' = rg
      /\ ~TagReadsFail => rg' = IF rg.there THEN [rg EXCEPT !.suffix = up.name] ELSE rg
  BY DEF UpPersists
<1>4. ProvisionTyped'
  BY <1>2, <1>3 DEF UpPersists, ProvisionTyped
<1>5. NamesSound' /\ TagsSound'
  BY <1>1, <1>2, <1>3 DEF UpPersists, NamesSound, TagsSound, Past, ProvisionTyped
<1>6. RefusalSound' /\ WorkSound' /\ SeedSound' /\ SourceSound'
  BY <1>1, <1>2 DEF UpPersists, RefusalSound, WorkSound, SeedSound, SourceSound, Past
<1>7. DeployedSound' /\ FluxFindsItsInputs'
  BY <1>1 DEF UpPersists, DeployedSound, FluxFindsItsInputs
<1> QED BY <1>4, <1>5, <1>6, <1>7

\* The group is made with the run's name, or keeps the name it has.
LEMMA MakesGroupSound ==
  ASSUME ProvisionInv, UpMakesGroup
  PROVE  ProvisionInv'
<1> USE DEF ProvisionInv
<1>1. up # NoUp /\ up \in Ups /\ up.at = 6 /\ ~deployed
  BY OnTheWay DEF UpMakesGroup, Place
<1>2. /\ up' \in Ups /\ up'.at = 7 /\ up'.kind = up.kind /\ up'.name = up.name
      /\ up'.locator = up.locator /\ up.name \in Names
  BY <1>1, GoesOn DEF UpMakesGroup, NamesSound, Past
<1>3. /\ rg'.there /\ (~TagReadsFail => rg'.suffix = up.name)
      /\ rg' \in [there : BOOLEAN, suffix : Names \cup {NoTag}, locator : Locators \cup {NoLocator}]
      /\ rg'.locator \in {rg.locator, up.locator, NoLocator}
      /\ rg.there => rg'.locator \in {rg.locator, up.locator}
  <2>1. Handed \in {up.locator, NoLocator} /\ up.locator \in Locators \cup {NoLocator}
    BY <1>1 DEF Handed, Ups
  <2>2. /\ \E tag \in TagReads : rg' = GroupMade(tag)
        /\ ~TagReadsFail => (rg.there => rg.suffix = up.name)
    BY <1>1 DEF UpMakesGroup, NamesSound, Past
  <2>3. CASE rg.there
    BY <1>2, <2>1, <2>2, <2>3 DEF GroupMade, ProvisionTyped
  <2>4. CASE ~rg.there
    BY <1>2, <2>1, <2>2, <2>4 DEF GroupMade
  <2> QED BY <2>3, <2>4
<1>4. ProvisionTyped'
  BY <1>2, <1>3 DEF UpMakesGroup, ProvisionTyped
<1>5. NamesSound'
  BY <1>1, <1>2, <1>3 DEF UpMakesGroup, NamesSound, Past
<1>8. TagsSound'
  BY <1>1, <1>2, <1>3 DEF UpMakesGroup, TagsSound, Past
<1>6. RefusalSound' /\ WorkSound' /\ SeedSound' /\ SourceSound'
  BY <1>1, <1>2 DEF UpMakesGroup, RefusalSound, WorkSound, SeedSound, SourceSound, Past
<1>7. DeployedSound' /\ FluxFindsItsInputs'
  BY <1>1 DEF UpMakesGroup, DeployedSound, FluxFindsItsInputs
<1> QED BY <1>4, <1>5, <1>6, <1>7, <1>8

\* A preview ends where the cluster would be made.
LEMMA MakesClusterSound ==
  ASSUME ProvisionInv, UpMakesCluster
  PROVE  ProvisionInv'
<1>1. up # NoUp /\ up \in Ups /\ up.at = 7 /\ ~deployed
  BY OnTheWay DEF UpMakesCluster, Place
<1>2. CASE UpEnds /\ UNCHANGED made
  BY <1>1, <1>2, EndKeeps DEF UpMakesCluster, UpEnds, ProvisionInv, ProvisionTyped
<1>3. CASE GoOn /\ made' = made \cup {"cluster"}
  <2> USE DEF ProvisionInv
  <2>1. /\ up' \in Ups /\ up'.at = 8 /\ up'.kind = up.kind /\ up'.name = up.name
        /\ up'.locator = up.locator
    BY <1>1, <1>3, GoesOn
  <2>2. ProvisionTyped'
    BY <1>3, <2>1 DEF UpMakesCluster, ProvisionTyped
  <2>3. NamesSound' /\ TagsSound' /\ RefusalSound' /\ WorkSound' /\ SeedSound' /\ SourceSound'
    BY <1>1, <2>1 DEF UpMakesCluster, NamesSound, TagsSound, RefusalSound, WorkSound, SeedSound,
                      SourceSound, Past
  <2>4. DeployedSound' /\ FluxFindsItsInputs'
    BY <1>1, <1>3 DEF UpMakesCluster, DeployedSound, FluxFindsItsInputs
  <2> QED BY <2>2, <2>3, <2>4
<1> QED BY <1>2, <1>3 DEF UpMakesCluster

\* The vault that a run makes, or brings back, carries the group's name.
LEMMA VaultSound ==
  ASSUME ProvisionInv, up # NoUp, up \in Ups, up.at \in {9, 10}, GoOn, troubles' \in Nat,
         \/ UNCHANGED vaults
         \/ vaults' = [vaults EXCEPT ![up.name] = "live"],
         UNCHANGED <<rg, made, seed, copies, source, recorded, head, deployed>>
  PROVE  ProvisionInv'
<1> USE DEF ProvisionInv
<1>1. /\ up' \in Ups /\ up'.at = up.at + 1 /\ up'.kind = up.kind /\ up'.name = up.name
      /\ up'.locator = up.locator /\ up.name \in Names /\ ~deployed
  BY GoesOn DEF NamesSound, Past, DeployedSound
<1>2. ProvisionTyped'
  BY <1>1 DEF ProvisionTyped
<1>3. rg.there /\ (~TagReadsFail => rg.suffix = up.name)
  BY DEF NamesSound, Past
<1>4. NamesSound'
  <2>1. ~TagReadsFail => \A n \in Names : vaults'[n] = "live" => n = up.name
    BY <1>1 DEF NamesSound, Past, ProvisionTyped
  <2>2. rg'.there /\ (~TagReadsFail => rg'.suffix = up.name)
    BY <1>3
  <2> QED BY <1>1, <2>1, <2>2 DEF NamesSound
<1>5. TagsSound'
  <2>1. ~LegacyStart /\ ~TagReadsFail =>
          rg.suffix # Unsuffixed /\ up.name # Unsuffixed /\ vaults[Unsuffixed] # "live"
    BY DEF TagsSound, Past
  <2>2. ~LegacyStart /\ ~TagReadsFail => vaults'[Unsuffixed] # "live"
    BY <2>1 DEF ProvisionTyped, Names
  <2>3. up # NoUp /\ rg.locator # NoLocator => up.locator = rg.locator
    BY DEF TagsSound
  <2> QED BY <1>1, <1>3, <2>1, <2>2, <2>3 DEF TagsSound, Past
<1>6. RefusalSound' /\ WorkSound' /\ SeedSound' /\ SourceSound'
  BY <1>1 DEF RefusalSound, WorkSound, SeedSound, SourceSound, Past
<1>7. DeployedSound' /\ FluxFindsItsInputs'
  BY <1>1 DEF DeployedSound, FluxFindsItsInputs
<1> QED BY <1>2, <1>4, <1>5, <1>6, <1>7

\* A soft-deleted vault comes back, or its listing fails.
LEMMA RecoversSound ==
  ASSUME ProvisionInv, UpRecovers
  PROVE  ProvisionInv'
<1>1. up # NoUp /\ up \in Ups /\ up.at = 9
  BY OnTheWay DEF UpRecovers, Place
<1>2. troubles' \in Nat
  BY DEF UpRecovers, ProvisionInv, ProvisionTyped
<1>3. UNCHANGED vaults \/ vaults' = [vaults EXCEPT ![up.name] = "live"]
  BY DEF UpRecovers, Recovered, ProvisionInv, ProvisionTyped
<1> QED BY <1>1, <1>2, <1>3, VaultSound DEF UpRecovers

\* The PaaS step makes the vault, or meets a soft-deleted one and ends.
LEMMA MakesPaasSound ==
  ASSUME ProvisionInv, UpMakesPaas
  PROVE  ProvisionInv'
<1>1. up # NoUp /\ up \in Ups /\ up.at = 10 /\ ~deployed /\ troubles' \in Nat
  BY OnTheWay DEF UpMakesPaas, Place, ProvisionInv, ProvisionTyped
<1>2. CASE UpEnds /\ UNCHANGED vaults
  BY <1>1, <1>2, EndKeeps DEF UpMakesPaas, UpEnds
<1>3. CASE GoOn /\ vaults' = [vaults EXCEPT ![up.name] = "live"]
  BY <1>1, <1>3, VaultSound DEF UpMakesPaas
<1> QED BY <1>2, <1>3 DEF UpMakesPaas

\* What a step applies is there afterwards.
LEMMA AppliesSound ==
  ASSUME ProvisionInv, NEW step \in InputsOfFlux, UpApplies(step)
  PROVE  ProvisionInv'
<1>1. up # NoUp /\ up \in Ups /\ up.at = Place[step] /\ ~deployed
  BY OnTheWay DEF UpApplies
<1>2. CASE UpEnds /\ UNCHANGED made
  BY <1>1, <1>2, EndKeeps DEF UpApplies, UpEnds, ProvisionInv, ProvisionTyped
<1>3. CASE GoOn /\ made' = made \cup {step}
  <2> USE DEF ProvisionInv
  <2>1. up.at \in {8, 11, 12, 16, 17, 18}
    BY <1>1 DEF Place, InputsOfFlux, Objects, ClusterObjects, OsduObjects
  <2>2. /\ up' \in Ups /\ up'.at = up.at + 1 /\ up'.kind = up.kind /\ up'.name = up.name
        /\ up'.locator = up.locator /\ up'.ref = up.ref /\ up'.seed = up.seed
    BY <1>1, <1>3, <2>1, GoesOn
  <2>3. ProvisionTyped'
    BY <1>3, <2>2 DEF UpApplies, ProvisionTyped
  <2>4. NamesSound' /\ TagsSound' /\ RefusalSound'
    BY <1>1, <2>1, <2>2 DEF UpApplies, NamesSound, TagsSound, RefusalSound, Past
  <2>5. SeedSound' /\ SourceSound'
    BY <1>1, <2>1, <2>2 DEF UpApplies, SeedSound, SourceSound, Past
  <2>6. WorkSound'
    BY <1>1, <1>3, <2>1, <2>2 DEF UpApplies, WorkSound, Past, Place, InputsOfFlux, Objects, ClusterObjects, OsduObjects
  <2>7. DeployedSound' /\ FluxFindsItsInputs'
    BY <1>1, <1>3 DEF UpApplies, DeployedSound, FluxFindsItsInputs
  <2> QED BY <2>3, <2>4, <2>5, <2>6, <2>7
<1> QED BY <1>2, <1>3 DEF UpApplies

\* The seed of an earlier run is used again; one is generated where none is.
LEMMA SeedsSound ==
  ASSUME ProvisionInv, NEW step \in {"seed", "seedAgain"}, UpSeeds(step)
  PROVE  ProvisionInv'
<1> USE DEF ProvisionInv
<1>1. up # NoUp /\ up \in Ups /\ up.at = Place[step] /\ ~deployed
  BY OnTheWay DEF UpSeeds
<1>2. up.at \in {13, 20}
  BY <1>1 DEF Place
<1>3. PICK s : /\ \E read \in SeedInUse : s = IF read # NoSeed THEN read ELSE NewSeed
               /\ seed' = s /\ up' = [up EXCEPT !.seed = s, !.at = @ + 1]
  BY DEF UpSeeds
<1>4. /\ s \in Seeds /\ s # NoSeed
      /\ ~SeedReadsFail /\ seed # NoSeed => s = seed
  BY <1>3, NewSeedIsFresh DEF SeedInUse, ProvisionTyped
<1>5. /\ up' \in Ups /\ up'.at = up.at + 1 /\ up'.kind = up.kind /\ up'.name = up.name
      /\ up'.locator = up.locator /\ up'.ref = up.ref /\ up'.seed = s
  <2>1. up' = [up EXCEPT !.seed = s, !.at = up.at + 1] /\ up.at + 1 \in 1 .. 27
    BY <1>2, <1>3
  <2>2. up' \in Ups
    BY <1>1, <1>4, <2>1 DEF Ups
  <2> QED BY <1>1, <2>1, <2>2 DEF Ups
<1>6. ProvisionTyped'
  BY <1>3, <1>4, <1>5 DEF UpSeeds, ProvisionTyped
<1>7. NamesSound' /\ TagsSound' /\ RefusalSound' /\ SourceSound'
  BY <1>1, <1>2, <1>5 DEF UpSeeds, NamesSound, TagsSound, RefusalSound, SourceSound, Past
<1>8. WorkSound'
  BY <1>1, <1>2, <1>3, <1>4, <1>5 DEF UpSeeds, WorkSound, Past
<1>9. SeedSound'
  BY <1>1, <1>2, <1>3, <1>4, <1>5 DEF UpSeeds, SeedSound, WorkSound, Past
<1>10. DeployedSound' /\ FluxFindsItsInputs'
  BY <1>1, <1>3, <1>4 DEF UpSeeds, DeployedSound, FluxFindsItsInputs
<1> QED BY <1>6, <1>7, <1>8, <1>9, <1>10

\* A copy is made from the run's seed.
LEMMA CopiesSound ==
  ASSUME ProvisionInv, NEW step, NEW where, UpCopies(step, where),
         \/ step = "platform" /\ where = "platform"
         \/ step = "osdu" /\ where = "osdu"
         \/ step = "vault" /\ where = up.name
  PROVE  ProvisionInv'
<1> USE DEF ProvisionInv
<1>1. up # NoUp /\ up \in Ups /\ up.at = Place[step] /\ ~deployed
  BY OnTheWay DEF UpCopies
<1>2. /\ step = "platform" => up.at = 14
      /\ step = "osdu" => up.at = 15
      /\ step = "vault" => up.at = 21
  BY <1>1 DEF Place
<1>3. up.at \in {14, 15, 21}
  BY <1>2
<1>4. /\ up' \in Ups /\ up'.at = up.at + 1 /\ up'.kind = up.kind /\ up'.name = up.name
      /\ up'.locator = up.locator /\ up'.ref = up.ref /\ up'.seed = up.seed
  BY <1>1, <1>3, GoesOn DEF UpCopies
<1>5. up.seed # NoSeed /\ up.seed \in Seeds /\ where \in Copies
  BY <1>1, <1>3 DEF WorkSound, NamesSound, Past, Ups, Copies
<1>6. copies' = [copies EXCEPT ![where] = up.seed]
  BY DEF UpCopies
<1>7. ProvisionTyped'
  BY <1>4, <1>5, <1>6 DEF UpCopies, ProvisionTyped
<1>8. NamesSound' /\ TagsSound' /\ RefusalSound' /\ SourceSound'
  BY <1>1, <1>3, <1>4 DEF UpCopies, NamesSound, TagsSound, RefusalSound, SourceSound, Past
<1>9. WorkSound'
  BY <1>1, <1>2, <1>4, <1>5, <1>6 DEF UpCopies, WorkSound, Past, ProvisionTyped
<1>10. SeedSound'
  BY <1>1, <1>2, <1>4, <1>5, <1>6 DEF UpCopies, SeedSound, Past, ProvisionTyped
<1>11. DeployedSound' /\ FluxFindsItsInputs'
  BY <1>1, <1>5, <1>6 DEF UpCopies, DeployedSound, FluxFindsItsInputs, ProvisionTyped, Copies
<1> QED BY <1>7, <1>8, <1>9, <1>10, <1>11

\* From GitOps on, a run changes the source and the record alone.
LEMMA GitOpsSound ==
  ASSUME ProvisionInv, up # NoUp, up \in Ups, up.at \in {19, 22, 23, 24, 25, 26},
         up' \in Ups, up'.at = up.at + 1, up'.kind = up.kind, up'.name = up.name,
         up'.locator = up.locator, up'.ref = up.ref, up'.seed = up.seed,
         UNCHANGED <<rg, vaults, made, seed, copies, head, deployed, troubles>>,
         source' \in Sources, recorded' # NoSource => recorded' \in Revisions,
         SourceSound'
  PROVE  ProvisionInv'
<1> USE DEF ProvisionInv
<1>1. ~deployed
  BY DEF DeployedSound
<1>2. ProvisionTyped'
  BY DEF ProvisionTyped
<1>3. NamesSound' /\ TagsSound' /\ RefusalSound'
  BY DEF NamesSound, TagsSound, RefusalSound, Past
<1>4. WorkSound' /\ SeedSound'
  BY DEF WorkSound, SeedSound, Past
<1>5. DeployedSound'
  BY <1>1 DEF DeployedSound
<1>6. FluxFindsItsInputs'
  BY DEF FluxFindsItsInputs, WorkSound, Past, InputsOfFlux, Objects, ClusterObjects, OsduObjects
<1> QED BY <1>2, <1>3, <1>4, <1>5, <1>6

\* The source follows the ref of the run that activates GitOps.
LEMMA ActivatesSound ==
  ASSUME ProvisionInv, UpActivates
  PROVE  ProvisionInv'
<1>1. up # NoUp /\ up \in Ups /\ up.at = 19
  BY OnTheWay DEF UpActivates, Place
<1>2. /\ up' \in Ups /\ up'.at = 20 /\ up'.kind = up.kind /\ up'.name = up.name
      /\ up'.locator = up.locator /\ up'.ref = up.ref /\ up'.seed = up.seed
  BY <1>1, GoesOn DEF UpActivates
<1>3. source' \in Sources /\ source'.ref = up.ref
  <2>1. up.ref \in Refs /\ [ref |-> up.ref, commit |-> 0] \in Revisions
    BY <1>1, ProvisionAssumption DEF Ups, Revisions
  <2>2. CASE source # NoSource
    BY <2>1, <2>2 DEF UpActivates, ProvisionInv, ProvisionTyped, Sources
  <2>3. CASE source = NoSource
    BY <2>1, <2>3 DEF UpActivates, Sources
  <2> QED BY <2>2, <2>3
<1>4. SourceSound'
  BY <1>2, <1>3 DEF SourceSound, Past
<1>5. recorded' # NoSource => recorded' \in Revisions
  BY DEF UpActivates, ProvisionInv, ProvisionTyped
<1> QED BY <1>1, <1>2, <1>3, <1>4, <1>5, GitOpsSound DEF UpActivates

\* A source that is frozen, or thawed, is a source.
LEMMA FrozenIsSource ==
  ASSUME NEW s \in Sources, NEW b \in BOOLEAN
  PROVE  /\ Frozen(s, b) \in Sources /\ Frozen(s, b).ref = s.ref /\ Frozen(s, b).artifact = s.artifact
         /\ Frozen(s, b).suspended = b
BY DEF Frozen, Sources

\* What is fetched is a commit of the ref the source follows.
LEMMA FetchedIsSource ==
  ASSUME source \in Sources, head \in [Refs -> 1 .. MaxCommit]
  PROVE  /\ Fetched \in Sources /\ Fetched.ref = source.ref /\ Fetched.artifact.ref = source.ref
         /\ Fetched.suspended = source.suspended
<1>1. source.ref \in Refs /\ head[source.ref] \in 0 .. MaxCommit
  BY DEF Sources
<1>2. [ref |-> source.ref, commit |-> head[source.ref]] \in Revisions
  BY <1>1 DEF Revisions
<1> QED BY <1>2 DEF Fetched, Sources

\* Thawing, fetching and freezing keep to the ref of the run.
LEMMA FetchesSound ==
  ASSUME ProvisionInv, UpResumes \/ UpFetches \/ UpSuspends
  PROVE  ProvisionInv'
<1>0. /\ UpResumes => up # NoUp /\ up \in Ups /\ up.at = 22
      /\ UpFetches => up # NoUp /\ up \in Ups /\ up.at = 23
      /\ UpSuspends => up # NoUp /\ up \in Ups /\ up.at = 25
  <2>1. UpResumes => up # NoUp /\ up \in Ups /\ up.at = 22
    BY OnTheWay DEF UpResumes, Place
  <2>2. UpFetches => up # NoUp /\ up \in Ups /\ up.at = 23
    BY OnTheWay DEF UpFetches, Place
  <2>3. UpSuspends => up # NoUp /\ up \in Ups /\ up.at = 25
    BY OnTheWay DEF UpSuspends, Place
  <2> QED BY <2>1, <2>2, <2>3
<1>1. up # NoUp /\ up \in Ups
  BY <1>0
<1>2. up.at \in {22, 23, 25} /\ (up.at = 25 => UpSuspends) /\ (up.at # 25 => UpResumes \/ UpFetches)
  BY <1>0
<1>9. GoOn
  BY DEF UpResumes, UpFetches, UpSuspends
<1>3. /\ up' \in Ups /\ up'.at = up.at + 1 /\ up'.kind = up.kind /\ up'.name = up.name
      /\ up'.locator = up.locator /\ up'.ref = up.ref /\ up'.seed = up.seed
  BY <1>1, <1>2, <1>9, GoesOn
<1>4. /\ source \in Sources /\ source.ref = up.ref
      /\ up.at = 25 => source.artifact.ref = up.ref
  BY <1>1, <1>2 DEF ProvisionInv, SourceSound, Past
<1>5. /\ source' \in Sources /\ source'.ref = up.ref
      /\ up.at = 25 => source'.artifact.ref = up.ref /\ source'.suspended
  <2>1. CASE UpResumes /\ up.at # 25
    BY <1>4, <2>1, FrozenIsSource DEF UpResumes
  <2>2. CASE UpFetches /\ up.at # 25
    BY <1>4, <2>2, FetchedIsSource DEF UpFetches, ProvisionInv, ProvisionTyped
  <2>3. CASE UpSuspends
    BY <1>4, <2>3, FrozenIsSource DEF UpSuspends
  <2> QED BY <1>2, <2>1, <2>2, <2>3
<1>6. SourceSound'
  BY <1>2, <1>3, <1>5 DEF SourceSound, Past, UpSuspends
<1>7. recorded' # NoSource => recorded' \in Revisions
  BY DEF UpResumes, UpFetches, UpSuspends, ProvisionInv, ProvisionTyped
<1> QED BY <1>1, <1>2, <1>3, <1>5, <1>6, <1>7, GitOpsSound DEF UpResumes, UpFetches, UpSuspends

\* What is verified is of the run's ref; anything else ends the run, frozen.
LEMMA VerifiesSound ==
  ASSUME ProvisionInv, UpVerifies
  PROVE  ProvisionInv'
<1>1. up # NoUp /\ up \in Ups /\ up.at = 24
  BY OnTheWay DEF UpVerifies, Place
<1>2. source \in Sources /\ source.ref = up.ref
  BY <1>1 DEF ProvisionInv, SourceSound, Past
<1>3. CASE ~Verified
  BY <1>1, <1>2, <1>3, EndKeeps DEF UpVerifies, UpEnds, ProvisionInv, ProvisionTyped
<1>4. CASE Verified
  <2>1. up' = [up EXCEPT !.commit = source.artifact.commit, !.at = 25]
    BY <1>1, <1>4 DEF UpVerifies
  <2>2. source.artifact.commit \in 0 .. MaxCommit /\ 25 \in 1 .. 27
    BY <1>2 DEF Sources, Revisions
  <2>3. up' \in Ups
    BY <1>1, <2>1, <2>2 DEF Ups
  <2>4. /\ up'.at = up.at + 1 /\ up'.kind = up.kind /\ up'.name = up.name
        /\ up'.locator = up.locator /\ up'.ref = up.ref /\ up'.seed = up.seed
    BY <1>1, <2>1 DEF Ups
  <2>5. SourceSound'
    <3>1. source' = source /\ source.artifact.ref = up.ref
      BY <1>4 DEF UpVerifies, Verified
    <3> QED BY <1>1, <1>2, <2>4, <3>1 DEF SourceSound, Past
  <2>6. recorded' # NoSource => recorded' \in Revisions
    BY DEF UpVerifies, ProvisionInv, ProvisionTyped
  <2> QED BY <1>1, <1>2, <1>4, <2>3, <2>4, <2>5, <2>6, GitOpsSound DEF UpVerifies
<1> QED BY <1>3, <1>4

\* The record names the ref of the run.
LEMMA RecordsSound ==
  ASSUME ProvisionInv, UpRecords
  PROVE  ProvisionInv'
<1>1. up # NoUp /\ up \in Ups /\ up.at = 26
  BY OnTheWay DEF UpRecords, Place
<1>2. /\ up' \in Ups /\ up'.at = 27 /\ up'.kind = up.kind /\ up'.name = up.name
      /\ up'.locator = up.locator /\ up'.ref = up.ref /\ up'.seed = up.seed
  BY <1>1, GoesOn DEF UpRecords
<1>3. recorded' \in Revisions /\ recorded'.ref = up.ref
  BY <1>1 DEF UpRecords, Ups, Revisions
<1>4. source' \in Sources
  BY <1>1 DEF UpRecords, ProvisionInv, SourceSound, Past
<1>5. SourceSound'
  BY <1>1, <1>2, <1>3 DEF UpRecords, ProvisionInv, SourceSound, Past
<1> QED BY <1>1, <1>2, <1>3, <1>4, <1>5, GitOpsSound DEF UpRecords

\* A run that ends well leaves one seed and a source frozen where the record
\* says it is.
LEMMA DoneSound ==
  ASSUME ProvisionInv, UpDone
  PROVE  ProvisionInv'
<1> USE DEF ProvisionInv
<1>1. up # NoUp /\ up \in Ups /\ up.at = 27
  BY OnTheWay DEF UpDone, Place
<1>2. ProvisionTyped'
  BY DEF UpDone, UpEnds, cloudVars, ProvisionTyped
<1>3. NamesSound' /\ TagsSound' /\ RefusalSound' /\ WorkSound' /\ SeedSound' /\ SourceSound'
  BY DEF UpDone, UpEnds, cloudVars, NamesSound, TagsSound, RefusalSound, WorkSound, SeedSound,
         SourceSound, Past
<1>4. DeployedSound'
  <2>1. up.name \in Names /\ (~TagReadsFail => rg.suffix = up.name)
    BY <1>1 DEF NamesSound, Past
  <2>2. ~SeedReadsFail /\ ~TagReadsFail => SecretsAgree'
    BY <1>1, <2>1 DEF UpDone, cloudVars, SeedSound, Past, SecretsAgree
  <2>3. /\ source \in Sources /\ source.ref = up.ref /\ source.artifact.ref = up.ref
        /\ source.suspended /\ recorded.ref = up.ref
    BY <1>1 DEF SourceSound, Past
  <2> QED BY <2>1, <2>2, <2>3 DEF UpDone, UpEnds, cloudVars, DeployedSound, DeployedIsFrozen
<1>5. FluxFindsItsInputs'
  BY DEF UpDone, cloudVars, FluxFindsItsInputs
<1> QED BY <1>2, <1>3, <1>4, <1>5

---------------------------------------------------------------------------
(* The others.                                                               *)

\* A run that fails ends where it is, frozen if it was finalizing.
LEMMA FailsSound ==
  ASSUME ProvisionInv, UpFails
  PROVE  ProvisionInv'
<1>1. troubles' \in Nat
  BY DEF UpFails, Trouble, ProvisionInv, ProvisionTyped
<1>2. Finalizing => source \in Sources
  <2> SUFFICES ASSUME NEW step \in {"resume", "fetch", "verify", "suspend"}, UpAt(step)
               PROVE  source \in Sources
    BY DEF Finalizing
  <2>1. up # NoUp /\ up \in Ups /\ up.at = Place[step]
    BY OnTheWay
  <2>2. up.at > 19
    BY <2>1 DEF Place
  <2> QED BY <2>1, <2>2 DEF ProvisionInv, SourceSound, Past
<1> QED BY <1>1, <1>2, EndKeeps DEF UpFails, UpEnds

\* A new run carries the locator of the group.
LEMMA StartsSound ==
  ASSUME ProvisionInv, NEW kind \in UpKinds, NEW asked \in Requested \cup {NoTag},
         NEW ref \in Refs, NEW option \in Locators \cup {NoLocator},
         UpStarts(kind, asked, ref, option)
  PROVE  ProvisionInv'
<1> USE DEF ProvisionInv
<1>1. /\ up' \in Ups /\ up'.at = 1
      /\ rg.locator # NoLocator => up'.locator = rg.locator
  <2>1. rg.locator \in Locators \cup {NoLocator} /\ 0 \in 0 .. MaxCommit
    BY ProvisionAssumption DEF ProvisionTyped
  <2> QED BY <2>1 DEF UpStarts, Ups
<1>2. ProvisionTyped'
  BY <1>1 DEF UpStarts, cloudVars, ProvisionTyped
<1>3. NamesSound' /\ TagsSound'
  BY <1>1 DEF UpStarts, cloudVars, NamesSound, TagsSound, Past
<1>4. RefusalSound' /\ WorkSound' /\ SeedSound' /\ SourceSound'
  BY <1>1 DEF RefusalSound, WorkSound, SeedSound, SourceSound, Past
<1>5. DeployedSound' /\ FluxFindsItsInputs'
  BY DEF UpStarts, cloudVars, DeployedSound, FluxFindsItsInputs
<1> QED BY <1>2, <1>3, <1>4, <1>5

\* A teardown leaves no live vault, no cluster and no source.
LEMMA DownSound ==
  ASSUME ProvisionInv, NEW purge \in BOOLEAN, EnvironmentDown(purge)
  PROVE  ProvisionInv'
<1> USE DEF ProvisionInv
<1>1. \A n \in Names : vaults'[n] # "live"
  BY DEF EnvironmentDown, ProvisionTyped
<1>2. rg' \in {rg, [there |-> FALSE, suffix |-> NoTag, locator |-> NoLocator]}
  BY DEF EnvironmentDown
<1>3. ProvisionTyped'
  <2>1. rg' \in [there : BOOLEAN, suffix : Names \cup {NoTag}, locator : Locators \cup {NoLocator}]
    <3>1. [there |-> FALSE, suffix |-> NoTag, locator |-> NoLocator]
            \in [there : BOOLEAN, suffix : Names \cup {NoTag}, locator : Locators \cup {NoLocator}]
      OBVIOUS
    <3> QED BY <1>2, <3>1 DEF ProvisionTyped
  <2>2. vaults' \in [Names -> {"none", "live", "deleted"}]
    BY DEF EnvironmentDown, ProvisionTyped
  <2>3. copies' \in [Copies -> Seeds \cup {NoSeed}]
    BY DEF EnvironmentDown, ProvisionTyped
  <2>4. /\ made' = {} /\ seed' = NoSeed /\ source' = NoSource /\ recorded' = NoSource /\ deployed' = FALSE
        /\ UNCHANGED <<head, up>> /\ troubles' \in Nat
    BY DEF EnvironmentDown, Trouble, ProvisionTyped
  <2> QED BY <2>1, <2>2, <2>3, <2>4 DEF ProvisionTyped
<1>4. NamesSound'
  BY <1>1 DEF EnvironmentDown, NamesSound, Past
<1>5. TagsSound'
  <2>1. ~LegacyStart /\ ~TagReadsFail => rg'.suffix # Unsuffixed
    BY <1>2, ProvisionAssumption DEF TagsSound
  <2>2. Unsuffixed \in Names
    BY DEF Names
  <2> QED BY <1>1, <2>1, <2>2 DEF EnvironmentDown, TagsSound, Past
<1>6. RefusalSound' /\ WorkSound' /\ SeedSound' /\ SourceSound'
  BY DEF EnvironmentDown, RefusalSound, WorkSound, SeedSound, SourceSound, Past
<1>7. DeployedSound' /\ FluxFindsItsInputs'
  BY DEF EnvironmentDown, DeployedSound, FluxFindsItsInputs
<1> QED BY <1>3, <1>4, <1>5, <1>6, <1>7

\* A freeze or a thaw between two runs.
LEMMA FreezeSound ==
  ASSUME ProvisionInv, NEW b \in BOOLEAN, ReconcileFreezes(b)
  PROVE  ProvisionInv'
<1> USE DEF ProvisionInv
<1>1. source \in Sources /\ source' \in Sources
  BY FrozenIsSource DEF ReconcileFreezes, ProvisionTyped
<1>2. ProvisionTyped'
  BY <1>1 DEF ReconcileFreezes, ProvisionTyped
<1>3. NamesSound' /\ TagsSound' /\ RefusalSound' /\ WorkSound' /\ SeedSound' /\ SourceSound'
  BY DEF ReconcileFreezes, NamesSound, TagsSound, RefusalSound, WorkSound, SeedSound, SourceSound, Past
<1>4. DeployedSound' /\ FluxFindsItsInputs'
  BY DEF ReconcileFreezes, DeployedSound, FluxFindsItsInputs
<1> QED BY <1>2, <1>3, <1>4

\* A commit on a branch.
LEMMA BranchSound ==
  ASSUME ProvisionInv, NEW r \in Refs, BranchMoves(r)
  PROVE  ProvisionInv'
<1> USE DEF ProvisionInv
<1>1. head' \in [Refs -> 1 .. MaxCommit]
  BY ProvisionAssumption DEF BranchMoves, ProvisionTyped
<1>2. ProvisionTyped'
  BY <1>1 DEF BranchMoves, cloudVars, ProvisionTyped
<1>3. NamesSound' /\ TagsSound' /\ RefusalSound' /\ WorkSound' /\ SeedSound' /\ SourceSound'
  BY DEF BranchMoves, cloudVars, NamesSound, TagsSound, RefusalSound, WorkSound, SeedSound,
         SourceSound, Past
<1>4. DeployedSound' /\ FluxFindsItsInputs'
  BY DEF BranchMoves, cloudVars, DeployedSound, DeployedIsFrozen, SecretsAgree, FluxFindsItsInputs
<1> QED BY <1>2, <1>3, <1>4

\* Flux fetches only for a source that is not frozen, and so never under a
\* deployed environment.
LEMMA FluxSound ==
  ASSUME ProvisionInv, FluxFetches
  PROVE  ProvisionInv'
<1> USE DEF ProvisionInv
<1>1. /\ source \in Sources /\ source' \in Sources /\ source'.ref = source.ref
      /\ source'.artifact.ref = source.ref /\ ~source.suspended
  BY FetchedIsSource DEF FluxFetches, ProvisionTyped
<1>2. ProvisionTyped'
  BY <1>1 DEF FluxFetches, ProvisionTyped
<1>3. NamesSound' /\ TagsSound' /\ RefusalSound' /\ WorkSound' /\ SeedSound'
  BY DEF FluxFetches, NamesSound, TagsSound, RefusalSound, WorkSound, SeedSound, Past
<1>4. SourceSound'
  <2>1. up # NoUp => up \in Ups
    BY DEF ProvisionTyped
  <2>2. ~Past(25)
    BY <1>1 DEF SourceSound
  <2>3. /\ ~Past(26)
        /\ Past(24) => Past(19)
    BY <2>1, <2>2 DEF Past, Ups
  <2> QED BY <1>1, <2>2, <2>3 DEF FluxFetches, SourceSound, Past
<1>5. DeployedSound' /\ FluxFindsItsInputs'
  BY <1>1 DEF FluxFetches, DeployedSound, DeployedIsFrozen, FluxFindsItsInputs
<1> QED BY <1>2, <1>3, <1>4, <1>5

\* Every step keeps the invariant.
LEMMA ProvisionNextInv ==
  ASSUME ProvisionInv, [ProvisionNext]_provisionVars
  PROVE  ProvisionInv'
<1>1. CASE UpStep
  <2>1. CASE \E step \in {"permissions", "images", "zones"} : UpChecks(step)
    BY <2>1, ChecksSound
  <2>2. CASE UpNames \/ UpPersists \/ UpMakesGroup \/ UpMakesCluster \/ UpRecovers \/ UpMakesPaas
    BY <2>2, NamesStepSound, PersistsSound, MakesGroupSound, MakesClusterSound, RecoversSound,
       MakesPaasSound
  <2>3. CASE UpGetsAccess \/ \E step \in Objects : UpApplies(step)
    BY <2>3, AppliesSound DEF UpGetsAccess, InputsOfFlux
  <2>4. CASE \E step \in {"seed", "seedAgain"} : UpSeeds(step)
    BY <2>4, SeedsSound
  <2>5. CASE \E where \in {"platform", "osdu"} : UpCopies(where, where)
    BY <2>5, CopiesSound
  <2>6. CASE UpFillsVault
    BY <2>6, CopiesSound DEF UpFillsVault
  <2>7. CASE UpActivates \/ UpResumes \/ UpFetches \/ UpVerifies \/ UpSuspends \/ UpRecords \/ UpDone
    BY <2>7, ActivatesSound, FetchesSound, VerifiesSound, RecordsSound, DoneSound
  <2> QED BY <1>1, <2>1, <2>2, <2>3, <2>4, <2>5, <2>6, <2>7 DEF UpStep
<1>2. CASE AnyUp
  BY <1>2, StartsSound DEF AnyUp
<1>3. CASE UpFails \/ FluxFetches
  BY <1>3, FailsSound, FluxSound
<1>4. CASE \E b \in BOOLEAN : EnvironmentDown(b) \/ ReconcileFreezes(b)
  BY <1>4, DownSound, FreezeSound
<1>5. CASE \E r \in Refs : BranchMoves(r)
  BY <1>5, BranchSound
<1>6. CASE UNCHANGED provisionVars
  BY <1>6 DEF provisionVars, ProvisionInv, ProvisionTyped, NamesSound, TagsSound, RefusalSound,
    WorkSound, SeedSound, SourceSound, DeployedSound, DeployedIsFrozen, SecretsAgree,
    FluxFindsItsInputs, Past
<1> QED BY <1>1, <1>2, <1>3, <1>4, <1>5, <1>6 DEF ProvisionNext

---------------------------------------------------------------------------
(* What a step leaves alone.                                                 *)

\* Only three steps touch the group.
LEMMA GroupSteps ==
  ASSUME [ProvisionNext]_provisionVars
  PROVE  \/ UNCHANGED rg
         \/ UpPersists \/ UpMakesGroup
         \/ \E purge \in BOOLEAN : EnvironmentDown(purge)
BY DEF ProvisionNext, AnyUp, UpStarts, UpStep, UpChecks, UpNames, UpMakesCluster, UpRecovers, UpMakesPaas,
  UpApplies, UpGetsAccess, UpSeeds, UpCopies, UpFillsVault, UpActivates, UpResumes, UpFetches, UpVerifies,
  UpSuspends, UpRecords, UpDone, UpFails, FluxFetches, ReconcileFreezes, BranchMoves, cloudVars, provisionVars

\* Only two touch the seed.
LEMMA SeedSteps ==
  ASSUME [ProvisionNext]_provisionVars
  PROVE  \/ UNCHANGED seed
         \/ \E step \in {"seed", "seedAgain"} : UpSeeds(step)
         \/ \E purge \in BOOLEAN : EnvironmentDown(purge)
BY DEF ProvisionNext, AnyUp, UpStarts, UpStep, UpChecks, UpNames, UpPersists, UpMakesGroup, UpMakesCluster,
  UpRecovers, UpMakesPaas, UpApplies, UpGetsAccess, UpCopies, UpFillsVault, UpActivates, UpResumes, UpFetches,
  UpVerifies, UpSuspends, UpRecords, UpDone, UpFails, FluxFetches, ReconcileFreezes, BranchMoves, cloudVars, provisionVars

\* The tags of a group that stays are kept, where nothing is unsuffixed and
\* reads of the group answer.
LEMMA StepKeepsTags ==
  ASSUME ProvisionInv, [ProvisionNext]_provisionVars, ~LegacyStart, ~TagReadsFail, rg.there, rg'.there
  PROVE  /\ rg.suffix # NoTag => rg'.suffix = rg.suffix
         /\ rg.locator # NoLocator => rg'.locator = rg.locator
<1> USE DEF ProvisionInv
<1>1. CASE UNCHANGED rg
  BY <1>1
<1>2. CASE UpPersists
  <2>1. up # NoUp /\ up.at = 3
    BY <1>2, OnTheWay DEF UpPersists, Place
  <2>2. rg.suffix # NoTag => up.name = rg.suffix
    BY <2>1 DEF TagsSound, Past
  <2> QED BY <1>2, <2>2 DEF UpPersists, ProvisionTyped
<1>3. CASE UpMakesGroup
  <2>1. up # NoUp /\ up.at = 6
    BY <1>3, OnTheWay DEF UpMakesGroup, Place
  <2>2. rg.suffix = up.name /\ up.name \in Names /\ (rg.locator # NoLocator => up.locator = rg.locator)
    BY <2>1 DEF NamesSound, TagsSound, Past
  <2> QED BY <1>3, <2>2 DEF UpMakesGroup, GroupMade, Handed, ProvisionTyped
<1>4. CASE \E purge \in BOOLEAN : EnvironmentDown(purge)
  BY <1>4 DEF EnvironmentDown
<1> QED BY <1>1, <1>2, <1>3, <1>4, GroupSteps

\* The seed of a cluster that stays is kept, while reads of it answer.
LEMMA StepKeepsSeed ==
  ASSUME ProvisionInv, [ProvisionNext]_provisionVars, ~SeedReadsFail, seed # NoSeed, made' # {}
  PROVE  seed' = seed
<1>1. CASE \E step \in {"seed", "seedAgain"} : UpSeeds(step)
  BY <1>1 DEF UpSeeds, SeedInUse
<1>2. CASE \E purge \in BOOLEAN : EnvironmentDown(purge)
  BY <1>2 DEF EnvironmentDown
<1> QED BY <1>1, <1>2, SeedSteps

\* A run that is to be refused has no step behind the last preflight.
LEMMA RefusedStep ==
  ASSUME ProvisionInv, [ProvisionNext]_provisionVars, up # NoUp,
         up.kind \in {"permissions", "images", "zones"}
  PROVE  /\ UNCHANGED <<vaults, made, seed>> /\ rg'.there = rg.there
         /\ up.kind = "permissions" => UNCHANGED rg
<1> USE DEF ProvisionInv
<1>1. up.at <= 5 /\ (up.kind = "permissions" => up.at <= 1)
  BY DEF RefusalSound, ProvisionTyped, Ups
<1>2. ASSUME NEW step, UpAt(step) PROVE Place[step] <= 5
  BY <1>1, <1>2, OnTheWay
<1>3. ~UpMakesGroup /\ ~UpMakesCluster /\ ~UpRecovers /\ ~UpMakesPaas
  BY <1>2 DEF UpMakesGroup, UpMakesCluster, UpRecovers, UpMakesPaas, Place
<1>4. ASSUME NEW step \in InputsOfFlux PROVE ~UpApplies(step)
  BY <1>2 DEF UpApplies, InputsOfFlux, Objects, ClusterObjects, OsduObjects, Place
<1>5. ASSUME NEW step \in {"seed", "seedAgain"} PROVE ~UpSeeds(step)
  <2>1. UpAt(step) => Place[step] <= 5
    BY <1>2
  <2>2. Place[step] \in {13, 20}
    BY DEF Place
  <2>3. ~UpAt(step)
    BY <2>1, <2>2
  <2> QED BY <2>3 DEF UpSeeds
<1>6. UpPersists => up.kind # "permissions" /\ rg'.there = rg.there
  <2>1. UpPersists => up.at = 3
    BY OnTheWay DEF UpPersists, Place
  <2> QED BY <1>1, <2>1 DEF UpPersists, ProvisionTyped
<1>7. ~\E purge \in BOOLEAN : EnvironmentDown(purge)
  BY DEF EnvironmentDown
<1>8. UNCHANGED rg \/ UpPersists
  BY <1>3, <1>7, GroupSteps
<1>9. UNCHANGED seed
  BY <1>5, <1>7, SeedSteps
<1>10. UNCHANGED <<vaults, made>>
  BY <1>3, <1>4, <1>7
  DEF ProvisionNext, AnyUp, UpStarts, UpStep, UpChecks, UpNames, UpPersists, UpGetsAccess, UpSeeds, UpCopies,
    UpFillsVault, InputsOfFlux, UpActivates, UpResumes, UpFetches, UpVerifies, UpSuspends, UpRecords, UpDone, UpFails, FluxFetches, ReconcileFreezes,
    BranchMoves, cloudVars, provisionVars
<1> QED BY <1>6, <1>8, <1>9, <1>10

---------------------------------------------------------------------------
(* The theorems.                                                             *)

\* The invariant holds of every behaviour, whatever is killed and re-run.
THEOREM ProvisionInvariant == ProvisionSafety => []ProvisionInv
<1>1. ProvisionInv /\ [ProvisionNext]_provisionVars => ProvisionInv'
  BY ProvisionNextInv
<1> QED BY <1>1, ProvisionInitInv, PTL DEF ProvisionSafety

\* Every variable keeps its type: the record of a run, the tags, the vaults,
\* the seed and its copies, the source and the record.
THEOREM ProvisionIsTyped == ProvisionSpec => []ProvisionTyped
<1>1. ProvisionInv => ProvisionTyped
  BY DEF ProvisionInv
<1>2. ProvisionSpec => ProvisionSafety
  BY DEF ProvisionSpec, ProvisionSafety
<1> QED BY <1>1, <1>2, ProvisionInvariant, PTL

\* While reads of the group answer, however runs are killed and started again,
\* and whether or not the environment predates suffixes, no two vaults of
\* different names are live (cli.py, azure_infra.py).
THEOREM OneSetOfNamesAlways == ~TagReadsFail /\ ProvisionSpec => []OneSetOfNames
<1>1. ~TagReadsFail /\ ProvisionInv => OneSetOfNames
  <2> SUFFICES ASSUME ~TagReadsFail, ProvisionInv, NEW m \in Names, NEW n \in Names,
                      vaults[m] = "live", vaults[n] = "live"
               PROVE  m = n
    BY DEF OneSetOfNames
  <2> QED BY ProvisionAssumption DEF ProvisionInv, NamesSound, Names
<1>2. ProvisionSpec => ProvisionSafety
  BY DEF ProvisionSpec, ProvisionSafety
<1>3. CASE ~TagReadsFail
  <2>1. ProvisionInv => OneSetOfNames
    BY <1>1, <1>3
  <2> QED BY <2>1, <1>2, ProvisionInvariant, PTL
<1> QED BY <1>3

\* Flux runs only on a cluster that has everything its kustomizations read
\* (deploy.py: GitOps is activated last).
THEOREM FluxAlwaysFindsItsInputs == ProvisionSpec => []FluxFindsItsInputs
<1>1. ProvisionInv => FluxFindsItsInputs
  BY DEF ProvisionInv
<1>2. ProvisionSpec => ProvisionSafety
  BY DEF ProvisionSpec, ProvisionSafety
<1> QED BY <1>1, <1>2, ProvisionInvariant, PTL

\* While reads of the seed and of the group answer, a run that ends well leaves
\* copies of one seed, and a source frozen on the ref the record names
\* (deploy.py, secrets.py).
THEOREM DeployedIsWholeAlways ==
  ~SeedReadsFail /\ ~TagReadsFail /\ ProvisionSpec => []DeployedIsWhole
<1>1. ~SeedReadsFail /\ ~TagReadsFail /\ ProvisionInv => DeployedIsWhole
  BY DEF ProvisionInv, DeployedSound, DeployedIsWhole, SecretsAgree, DeployedIsFrozen
<1>2. ProvisionSpec => ProvisionSafety
  BY DEF ProvisionSpec, ProvisionSafety
<1>3. CASE ~SeedReadsFail /\ ~TagReadsFail
  <2>1. ProvisionInv => DeployedIsWhole
    BY <1>1, <1>3
  <2> QED BY <2>1, <1>2, ProvisionInvariant, PTL
<1> QED BY <1>3

\* Where nothing is unsuffixed and reads of the seed and of the group answer,
\* the tags of the group and the seed of a running cluster are never replaced,
\* and a run the preflights refuse touches nothing (cli.py, azure_infra.py,
\* secrets.py).
THEOREM UpKeepsWhatStandsAlways ==
  ~LegacyStart /\ ~SeedReadsFail /\ ~TagReadsFail /\ ProvisionSpec => UpKeepsWhatStands
<1>1. CASE ~LegacyStart /\ ~SeedReadsFail /\ ~TagReadsFail
  <2>1. /\ ProvisionInv /\ [ProvisionNext]_provisionVars =>
           [rg.there /\ rg'.there =>
              /\ rg.suffix # NoTag => rg'.suffix = rg.suffix
              /\ rg.locator # NoLocator => rg'.locator = rg.locator]_provisionVars
        /\ ProvisionInv /\ [ProvisionNext]_provisionVars =>
           [seed # NoSeed /\ made' # {} => seed' = seed]_provisionVars
        /\ ProvisionInv /\ [ProvisionNext]_provisionVars =>
           [up # NoUp /\ up.kind \in {"permissions", "images", "zones"} =>
              /\ UNCHANGED <<vaults, made, seed>> /\ rg'.there = rg.there
              /\ up.kind = "permissions" => UNCHANGED rg]_<<up, rg, vaults, made, seed>>
    BY <1>1, StepKeepsTags, StepKeepsSeed, RefusedStep
  <2>2. ProvisionSpec => ProvisionSafety
    BY DEF ProvisionSpec, ProvisionSafety
  <2> QED BY <2>1, <2>2, ProvisionInvariant, PTL
          DEF ProvisionSafety, UpKeepsWhatStands, TagsStand, SeedStands, RefusedUpTouchesNothing
<1> QED BY <1>1
=============================================================================
