---------------------------- MODULE LockTraffic ----------------------------
(***************************************************************************)
(* The image lock under two kinds of traffic, which break different        *)
(* things.  In the first, services are refreshed and a reply can be lost   *)
(* after the write, and the lock is rebuilt and projected only before the  *)
(* traffic starts; in the second every write is acknowledged, only         *)
(* workflow runs pin, and the whole lock is rebuilt (`spi reconcile        *)
(* --refresh-images`) and projected at any time.                           *)
(***************************************************************************)
EXTENDS ImageLock

VARIABLE traffic

TrafficInit == traffic \in {"refreshes", "acked"} /\ Init

Starts(c, ops) == caller[c].op = "idle" /\ caller'[c].op \in ops

RefreshTraffic == Next /\ \A c \in Callers : ~Starts(c, {"apply", "project"})

AckedTraffic ==
  /\ (\E c \in Callers : AckedStep(c)) \/ EnvironmentStep
  /\ \A c \in Callers :
       /\ ~Starts(c, {"refresh"})
       /\ Starts(c, {"resolve"}) => caller'[c].req.ephemeral

TrafficNext ==
  /\ UNCHANGED traffic
  /\ IF traffic = "refreshes" THEN RefreshTraffic ELSE AckedTraffic

TrafficSpec == TrafficInit /\ [][TrafficNext]_<<traffic, vars>>

\* PairFromOneCommit of ImageLock, where no whole-lock refresh runs
\* (lock_pair_apply shows what one does).
RefreshedPairFromOneCommit == traffic = "refreshes" => PairFromOneCommit

\* UndoPredatesWrite of ImageLock, where no reply is lost (lock_lost_reply
\* shows what that does).
AckedUndoPredatesWrite == traffic = "acked" => UndoPredatesWrite

\* A reset that deferred the loader releases it only while schema is still
\* unpinned: a borrow of schema that slipped in during the rollout wait
\* keeps its own loader.  A pin sent twice, because the first reply was
\* lost, records the same loader twice; here no reply is.
AckedLoaderWaitsForSchema ==
  [][\A c \in Callers :
       (traffic = "acked" /\ caller[c].op = "loader" /\ caller'[c] # caller[c] /\ Loader \in Lost)
         => Schema \notin Pinned(lock)]_<<traffic, vars>>
=============================================================================
