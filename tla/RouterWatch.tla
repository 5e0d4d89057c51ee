----------------------------- MODULE RouterWatch -----------------------------
(***************************************************************************)
(* The router's watch task (router.rs `state_main`, `watch_events`)       *)
(* against the root service that feeds it.                                *)
(*                                                                         *)
(* The root is not in this repository: its behaviour is taken from the    *)
(* spec (sections 3, 4.8, 4.10, 6).  A group's epoch is its shard-set     *)
(* version times EpochShift plus its config version (EpochShift stands    *)
(* for 2^32; MaxConfVer < EpochShift keeps the order of the u64).  A       *)
(* migration of shard s from group `from` to group `to` publishes `to`'s  *)
(* descriptor with s at a bumped shard-set version, and later `from`'s    *)
(* without s, bumped too.  Each group's events reach the router in the    *)
(* order the root produced them; events of different groups interleave   *)
(* arbitrarily (spec 4.10: "out of descriptor-order").  Metadata events   *)
(* (nodes, databases, collections) come in root order.                    *)
(***************************************************************************)
EXTENDS RouterState, FiniteSets

CONSTANTS
    EpochShift,          \* SHARD_UPDATE_DELTA, 1 << 32 in the code
    MaxShardVer,         \* bound on any group's shard-set version
    MaxConfVer,          \* bound on any group's config version
    MaxTerm,             \* bound on raft terms
    MaxMetaOps,          \* bound on node/database/collection changes
    MaxWatchFail,        \* bound on failed `root_client.watch` calls
    MaxStreamFail,       \* bound on broken watch streams
    InitOwner            \* InitOwner[s]: the group owning s initially

ASSUME MaxConfVer < EpochShift

VARIABLES
    rootEpoch,           \* group -> its current epoch at the root
    rootShards,          \* group -> shard ids its descriptor lists
    migrating,           \* shard -> donor group of a half-done migration
    rootGs,              \* group -> its current GroupState at the root
    rootNodes, rootDbs, rootCos,   \* metadata at the root
    metaOps,             \* metadata changes made so far
    gchan,               \* group -> its descriptors in flight
    schan,               \* group -> its GroupStates in flight
    metaChan,            \* metadata events in flight
    upc,                 \* state_main: "subscribe" or "streaming"
    interval,            \* backoff, in ms
    watchFails, streamFails,
    appliedShards,       \* history: shards of the last applied descriptor
    lastGs               \* history: last GroupState handed to the router

rootVars == <<rootEpoch, rootShards, migrating, rootGs, rootNodes, rootDbs,
              rootCos, metaOps>>
watchVars == <<gchan, schan, metaChan, upc, interval, watchFails, streamFails>>
histVars == <<appliedShards, lastGs>>
vars == <<routerVars, rootVars, watchVars, histVars>>

ShardVer(e) == e \div EpochShift
ConfVer(e)  == e % EpochShift

DescOf(g) == [id |-> g, epoch |-> rootEpoch[g], shards |-> rootShards[g]]
GroupEvent(g) == [kind |-> "group", desc |-> DescOf(g)]
StateEvent(g) == [kind |-> "state", gs |-> rootGs[g]]

\* The root pushes an event to the open stream; with none open it is
\* picked up by the next subscription's watermark.
Publish(g, evs) ==
    /\ gchan' = IF upc = "streaming" THEN [gchan EXCEPT ![g] = @ \o evs] ELSE gchan
    /\ UNCHANGED schan
PublishState(g, ev) ==
    /\ schan' = IF upc = "streaming" THEN [schan EXCEPT ![g] = Append(@, ev)] ELSE schan
    /\ UNCHANGED gchan
\* A root step leaves the router and its watch task alone.
RouterIdle == UNCHANGED <<routerVars, upc, interval, watchFails, streamFails, histVars>>

PublishMeta(ev) ==
    metaChan' = IF upc = "streaming" THEN Append(metaChan, ev) ELSE metaChan

Init ==
    /\ RouterInit
    /\ rootEpoch = [g \in Groups |-> 0]
    /\ rootShards = [g \in Groups |->
                        SetToSortSeq({s \in Shards : InitOwner[s] = g}, <)]
    /\ migrating = [s \in Shards |-> NONE]
    /\ rootGs = [g \in Groups |->
                    [group_id |-> g, leader_id |-> NONE,
                     replicas |-> [i \in DOMAIN Replicas |->
                        [replica_id |-> Replicas[i], term |-> 0, role |-> "Follower"]]]]
    /\ rootNodes = [n \in Nodes |-> NONE]
    /\ rootDbs = [d \in Dbs |-> NONE]
    /\ rootCos = [c \in Cos |-> NONE]
    /\ metaOps = 0
    /\ gchan = [g \in Groups |-> <<>>]
    /\ schan = [g \in Groups |-> <<>>]
    /\ metaChan = <<>>
    /\ upc = "subscribe"
    /\ interval = 1
    /\ watchFails = 0
    /\ streamFails = 0
    /\ appliedShards = [g \in Groups |-> NONE]
    /\ lastGs = [g \in Groups |-> NONE]

-----------------------------------------------------------------------------
(* Root service (spec-modelled).                                           *)

\* A replica change: the config version goes up.
RootConfChange(g) ==
    /\ ConfVer(rootEpoch[g]) < MaxConfVer
    /\ rootEpoch' = [rootEpoch EXCEPT ![g] = @ + 1]
    /\ Publish(g, <<[kind |-> "group", desc |-> [DescOf(g) EXCEPT !.epoch = @ + 1]]>>)
    /\ UNCHANGED <<rootShards, migrating, rootGs, rootNodes, rootDbs, rootCos,
                   metaOps, metaChan>>
    /\ RouterIdle

\* The receiving group takes the shard: its shard-set version goes up.
RootMigrateIn(s, to) ==
    LET from == CHOOSE g \in Groups : s \in Range(rootShards[g])
        e == rootEpoch[to] + EpochShift
        sh == Append(rootShards[to], s)
    IN /\ migrating[s] = NONE
       /\ to # from
       /\ ShardVer(rootEpoch[to]) < MaxShardVer
       /\ rootEpoch' = [rootEpoch EXCEPT ![to] = e]
       /\ rootShards' = [rootShards EXCEPT ![to] = sh]
       /\ migrating' = [migrating EXCEPT ![s] = from]
       /\ Publish(to, <<[kind |-> "group", desc |-> [id |-> to, epoch |-> e, shards |-> sh]]>>)
       /\ UNCHANGED <<rootGs, rootNodes, rootDbs, rootCos, metaOps, metaChan>>
       /\ RouterIdle

\* The donor drops the shard: its shard-set version goes up.
RootMigrateOut(s) ==
    LET from == migrating[s]
        e == rootEpoch[from] + EpochShift
        sh == SelectSeq(rootShards[from], LAMBDA x : x # s)
    IN /\ from # NONE
       /\ ShardVer(rootEpoch[from]) < MaxShardVer
       /\ rootEpoch' = [rootEpoch EXCEPT ![from] = e]
       /\ rootShards' = [rootShards EXCEPT ![from] = sh]
       /\ migrating' = [migrating EXCEPT ![s] = NONE]
       /\ Publish(from, <<[kind |-> "group", desc |-> [id |-> from, epoch |-> e, shards |-> sh]]>>)
       /\ UNCHANGED <<rootGs, rootNodes, rootDbs, rootCos, metaOps, metaChan>>
       /\ RouterIdle

\* Replica r wins an election at a new term; the old leader's report may
\* still say Leader at its old term (stale) or Follower.
RootElect(g, r) ==
    LET gs == rootGs[g]
        t  == 1 + Max({gs.replicas[i].term : i \in DOMAIN gs.replicas})
    IN /\ t <= MaxTerm
       /\ \E stale \in BOOLEAN :
            LET new == [gs EXCEPT !.leader_id = r,
                          !.replicas = [i \in DOMAIN gs.replicas |->
                             IF gs.replicas[i].replica_id = r
                             THEN [replica_id |-> r, term |-> t, role |-> "Leader"]
                             ELSE IF stale THEN gs.replicas[i]
                             ELSE [gs.replicas[i] EXCEPT !.role = "Follower"]]]
            IN /\ rootGs' = [rootGs EXCEPT ![g] = new]
               /\ PublishState(g, [kind |-> "state", gs |-> new])
       /\ UNCHANGED <<rootEpoch, rootShards, migrating, rootNodes, rootDbs,
                      rootCos, metaOps, metaChan>>
       /\ RouterIdle

\* Metadata changes; names are unique among live objects of a scope.
MetaStep(ev) ==
    /\ metaOps < MaxMetaOps
    /\ metaOps' = metaOps + 1
    /\ PublishMeta(ev)
    /\ UNCHANGED <<rootEpoch, rootShards, migrating, rootGs, gchan, schan>>
    /\ RouterIdle

RootNodeUp(n, a) ==
    /\ rootNodes' = [rootNodes EXCEPT ![n] = a]
    /\ MetaStep([kind |-> "node", id |-> n, val |-> a])
    /\ UNCHANGED <<rootDbs, rootCos>>

RootNodeDown(n) ==
    /\ rootNodes[n] # NONE
    /\ rootNodes' = [rootNodes EXCEPT ![n] = NONE]
    /\ MetaStep([kind |-> "del_node", id |-> n, val |-> NONE])
    /\ UNCHANGED <<rootDbs, rootCos>>

\* Create or rename a database.
RootDbPut(d, x) ==
    /\ \A o \in Dbs : rootDbs[o] # x
    /\ rootDbs' = [rootDbs EXCEPT ![d] = x]
    /\ MetaStep([kind |-> "db", id |-> d, val |-> x])
    /\ UNCHANGED <<rootNodes, rootCos>>

RootDbDrop(d) ==
    /\ rootDbs[d] # NONE
    /\ rootDbs' = [rootDbs EXCEPT ![d] = NONE]
    /\ MetaStep([kind |-> "del_db", id |-> d, val |-> NONE])
    /\ UNCHANGED <<rootNodes, rootCos>>

\* Create or rename a collection of a live database.
RootCoPut(c, x) ==
    /\ rootDbs[CoDb[c]] # NONE
    /\ \A o \in Cos : CoDb[o] = CoDb[c] => rootCos[o] # x
    /\ rootCos' = [rootCos EXCEPT ![c] = x]
    /\ MetaStep([kind |-> "co", id |-> c, val |-> x])
    /\ UNCHANGED <<rootNodes, rootDbs>>

RootCoDrop(c) ==
    /\ rootCos[c] # NONE
    /\ rootCos' = [rootCos EXCEPT ![c] = NONE]
    /\ MetaStep([kind |-> "del_co", id |-> c, val |-> NONE])
    /\ UNCHANGED <<rootNodes, rootDbs>>

-----------------------------------------------------------------------------
(* The watch task, router.rs state_main / watch_events.                   *)

\* The group epochs snapshot taken under the lock (cur_group_epochs).
Watermark(g) == IF group_id_lookup[g] = NONE THEN NONE ELSE group_id_lookup[g].epoch

\* What the root sends on a new subscription: the descriptor of every
\* group whose epoch differs from the watermark, every GroupState, and
\* the live metadata.
SubscribeEvents(g) ==
    IF Watermark(g) # rootEpoch[g] THEN <<GroupEvent(g)>> ELSE <<>>

MetaSnapshot ==
    SetToSeq({[kind |-> "node", id |-> n, val |-> rootNodes[n]] : n \in {n \in Nodes : rootNodes[n] # NONE}}
        \cup {[kind |-> "db", id |-> d, val |-> rootDbs[d]] : d \in {d \in Dbs : rootDbs[d] # NONE}})
    \o SetToSeq({[kind |-> "co", id |-> c, val |-> rootCos[c]] : c \in {c \in Cos : rootCos[c] # NONE}})

\* Mutant: the backoff without its cap.
WatchFail_uncapped ==
    /\ upc = "subscribe"
    /\ watchFails < MaxWatchFail
    /\ watchFails' = watchFails + 1
    /\ interval' = interval * 2
    /\ UNCHANGED <<routerVars, rootVars, gchan, schan, metaChan, upc, streamFails, histVars>>

\* `root_client.watch(..)` fails: sleep, double the interval up to 1000.
WatchFail ==
    /\ upc = "subscribe"
    /\ watchFails < MaxWatchFail
    /\ watchFails' = watchFails + 1
    /\ interval' = IF interval * 2 < 1000 THEN interval * 2 ELSE 1000
    /\ UNCHANGED <<routerVars, rootVars, gchan, schan, metaChan, upc, streamFails, histVars>>

\* `root_client.watch(..)` succeeds: reset the interval, start streaming.
WatchOk ==
    /\ upc = "subscribe"
    /\ upc' = "streaming"
    /\ interval' = 1
    /\ gchan' = [g \in Groups |-> SubscribeEvents(g)]
    /\ schan' = [g \in Groups |-> <<StateEvent(g)>>]
    /\ metaChan' = MetaSnapshot
    /\ UNCHANGED <<routerVars, rootVars, watchFails, streamFails, histVars>>

\* The stream yields an error or ends: the rest of it is lost and the
\* task goes back to subscribing.
StreamBreak ==
    /\ upc = "streaming"
    /\ streamFails < MaxStreamFail
    /\ streamFails' = streamFails + 1
    /\ upc' = "subscribe"
    /\ gchan' = [g \in Groups |-> <<>>]
    /\ schan' = [g \in Groups |-> <<>>]
    /\ metaChan' = <<>>
    /\ UNCHANGED <<routerVars, rootVars, interval, watchFails, histVars>>

\* One UpdateEvent::Group of group g, applied under the state lock.
ApplyGroupEvent(g) ==
    LET ev == Head(gchan[g])
    IN /\ upc = "streaming"
       /\ gchan[g] # <<>>
       /\ gchan' = [gchan EXCEPT ![g] = Tail(@)]
       /\ apply_group_descriptor(ev.desc)
       /\ appliedShards' = [appliedShards EXCEPT ![g] = ev.desc.shards]
       /\ UNCHANGED <<lastGs, rootVars, schan, metaChan, upc, interval, watchFails, streamFails>>

\* One UpdateEvent::GroupState of group g, applied under the state lock.
ApplyStateEvent(g) ==
    LET ev == Head(schan[g])
    IN /\ upc = "streaming"
       /\ schan[g] # <<>>
       /\ schan' = [schan EXCEPT ![g] = Tail(@)]
       /\ apply_group_state(ev.gs)
       /\ lastGs' = [lastGs EXCEPT ![g] = ev.gs]
       /\ UNCHANGED <<appliedShards, rootVars, gchan, metaChan, upc, interval, watchFails, streamFails>>

\* One metadata update or delete, applied under the state lock.
ApplyMetaEvent ==
    LET ev == Head(metaChan)
    IN /\ upc = "streaming"
       /\ metaChan # <<>>
       /\ metaChan' = Tail(metaChan)
       /\ CASE ev.kind = "node"     -> apply_node(ev.id, ev.val)
            [] ev.kind = "del_node" -> delete_node(ev.id)
            [] ev.kind = "db"       -> apply_database(ev.id, ev.val)
            [] ev.kind = "del_db"   -> delete_database(ev.id)
            [] ev.kind = "co"       -> apply_collection(ev.id, ev.val)
            [] ev.kind = "del_co"   -> delete_collection(ev.id)
       /\ UNCHANGED <<rootVars, gchan, schan, upc, interval, watchFails, streamFails, histVars>>

Next ==
    \/ \E g \in Groups : RootConfChange(g)
    \/ \E s \in Shards, g \in Groups : RootMigrateIn(s, g)
    \/ \E s \in Shards : RootMigrateOut(s)
    \/ \E g \in Groups, r \in Range(Replicas) : RootElect(g, r)
    \/ \E n \in Nodes, a \in Addrs : RootNodeUp(n, a)
    \/ \E n \in Nodes : RootNodeDown(n)
    \/ \E d \in Dbs, x \in Names : RootDbPut(d, x)
    \/ \E d \in Dbs : RootDbDrop(d)
    \/ \E c \in Cos, x \in Names : RootCoPut(c, x)
    \/ \E c \in Cos : RootCoDrop(c)
    \/ WatchFail
    \/ WatchOk
    \/ StreamBreak
    \/ \E g \in Groups : ApplyGroupEvent(g)
    \/ \E g \in Groups : ApplyStateEvent(g)
    \/ ApplyMetaEvent

\* The updater task is the only writer and runs for the life of the Router:
\* a subscription the root would accept is eventually made, and every event
\* on a live stream is eventually applied.  The root's own steps and the
\* failures are not fair: they may stop at any point.
UpdaterStep ==
    \/ WatchOk
    \/ \E g \in Groups : ApplyGroupEvent(g) \/ ApplyStateEvent(g)
    \/ ApplyMetaEvent

Spec == Init /\ [][Next]_vars /\ WF_vars(UpdaterStep)

-----------------------------------------------------------------------------
(* Properties.                                                             *)

TypeOK ==
    /\ upc \in {"subscribe", "streaming"}
    /\ interval \in 1..1000
    /\ cached_group_states \in [Groups -> {NONE} \cup GroupStates(Nat)]
    /\ shard_group_lookup \in [Shards -> {NONE} \cup [group : Groups, epoch : Nat]]
    /\ group_id_lookup \in [Groups -> {NONE} \cup
            [epoch : Nat, leader : {NONE} \cup [id : Range(Replicas), term : Nat]]]
    /\ co_shards_lookup \in [Cos -> Seq(Shards)]
    /\ db_name_lookup \in [Names -> Dbs \cup {NONE}]
    /\ co_name_lookup \in [Dbs \X Names -> Cos \cup {NONE}]
    /\ \A g \in Groups : gchan[g] \in Seq([kind : {"group"}, desc : GroupDescs(Nat)])
    /\ \A g \in Groups : schan[g] \in Seq([kind : {"state"}, gs : GroupStates(Nat)])

\* The group that owns s at the root when no migration is half done.
RootOwner(s) == CHOOSE g \in Groups : s \in Range(rootShards[g])

\* The router has drained everything the root produced.
Quiescent ==
    /\ upc = "streaming"
    /\ \A g \in Groups : gchan[g] = <<>> /\ schan[g] = <<>>
    /\ \A s \in Shards : migrating[s] = NONE

(***************************************************************************)
(* find_group_by_shard never answers a group whose newest descriptor the  *)
(* router has applied no longer lists the shard: a donor's descriptor     *)
(* without a migrated shard must hide it (router.rs:166), whatever order  *)
(* the donor's and receiver's descriptors arrive in.                      *)
(***************************************************************************)
RoutedGroupServesShard ==
    \A s \in Shards :
        LET g == find_group_by_shard(s)
        IN g # NONE => s \in Range(appliedShards[g])

(***************************************************************************)
(* Once the router has drained every event and no migration is half done, *)
(* find_group_by_shard answers, for every shard, the group that owns it   *)
(* at the root: the epoch comparison of apply_group_descriptor            *)
(* (router.rs:242) hands a migrated shard to its new owner.               *)
(***************************************************************************)
QuiescentRoutesToOwner ==
    Quiescent => \A s \in Shards : find_group_by_shard(s) = RootOwner(s)

(***************************************************************************)
(* The leader the router holds for a materialised group is the replica   *)
(* that the last GroupState it received reports as Leader with the       *)
(* highest term (spec 4.8: stale leadership reports must not win),       *)
(* whether that GroupState arrived before the group's descriptor and was  *)
(* cached, or after; a newer descriptor carries it forward               *)
(* (router.rs:229-233, 336-355).                                          *)
(***************************************************************************)
ReportedLeaders(gs) == {gs.replicas[i] : i \in {i \in DOMAIN gs.replicas : gs.replicas[i].role = "Leader"}}

LeaderFromLatestState ==
    \A g \in Groups :
        group_id_lookup[g] # NONE =>
            LET gs == lastGs[g]
                L  == IF gs = NONE \/ gs.leader_id = NONE THEN {} ELSE ReportedLeaders(gs)
                ld == group_id_lookup[g].leader
            IN IF L = {} THEN ld = NONE
               ELSE /\ ld # NONE
                    /\ [replica_id |-> ld.id, term |-> ld.term, role |-> "Leader"] \in L
                    /\ \A r \in L : r.term <= ld.term

(***************************************************************************)
(* Each collection's shard list names every shard once, and once the      *)
(* router has drained all events it names exactly the collection's       *)
(* shards: find_shard's hash path trusts `slots == shards.len()` to mean  *)
(* every slot is present before it unwraps the search (router.rs:90-104). *)
(***************************************************************************)
CoShardsListEachShardOnce ==
    \A c \in Cos :
        /\ IsInjective(co_shards_lookup[c])
        /\ Quiescent => Range(co_shards_lookup[c]) = {s \in Shards : ShardCo[s] = c}

(***************************************************************************)
(* Once the root stops changing, the router's view of every group        *)
(* catches up with the root for good, and every shard not in the middle  *)
(* of a move routes to its owner: after a broken stream state_main       *)
(* resubscribes with the epochs it holds (router.rs:287-306) and the root *)
(* resends what differs, so no descriptor lost with the stream is lost   *)
(* for good.                                                              *)
(***************************************************************************)
GroupViewsCatchUp ==
    <>[](\A g \in Groups :
            /\ Watermark(g) = rootEpoch[g]
            /\ \A s \in Shards : migrating[s] = NONE => find_group_by_shard(s) = RootOwner(s))

\* The metadata stream has been drained.
MetaQuiescent == upc = "streaming" /\ metaChan = <<>>

(***************************************************************************)
(* After the metadata stream is drained, the router's collection maps    *)
(* mirror the root: co_id_lookup holds each live collection's name and    *)
(* co_name_lookup maps exactly the live <<db, name>> pairs, through      *)
(* creates, renames (router.rs:204-209) and deletes.                      *)
(***************************************************************************)
CollectionLookupMirrorsRoot ==
    MetaQuiescent =>
        /\ co_id_lookup = rootCos
        /\ \A d \in Dbs, x \in Names :
              co_name_lookup[<<d, x>>] =
                  IF \E c \in Cos : CoDb[c] = d /\ rootCos[c] = x
                  THEN CHOOSE c \in Cos : CoDb[c] = d /\ rootCos[c] = x
                  ELSE NONE

(***************************************************************************)
(* The same for databases: db_name_lookup maps exactly the live names,    *)
(* through renames (router.rs:191-199) and deletes.                       *)
(***************************************************************************)
DatabaseLookupMirrorsRoot ==
    MetaQuiescent =>
        /\ db_id_lookup = rootDbs
        /\ \A x \in Names :
              db_name_lookup[x] =
                  IF \E d \in Dbs : rootDbs[d] = x
                  THEN CHOOSE d \in Dbs : rootDbs[d] = x
                  ELSE NONE
=============================================================================
