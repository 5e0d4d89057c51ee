----------------------------- MODULE RouterState -----------------------------
(***************************************************************************)
(* The client-side routing cache of src/src/client/src/router.rs: the     *)
(* maps of `struct State`, the handlers `apply_update_event`,             *)
(* `apply_group_descriptor` and `apply_delete_event` that the watch task  *)
(* runs under the state mutex, and the lookups the foreground takes.     *)
(*                                                                         *)
(* Ids are the code's u64 ids, drawn from small sets.  A descriptor's      *)
(* payload is abstracted to what routing tells apart: a DatabaseDesc or   *)
(* CollectionDesc to its name (a collection's database is fixed, CoDb), a *)
(* GroupDesc to its id, epoch and the ids of its shards, a node to its    *)
(* address.  The replicas map of a group view is left out: it only follows*)
(* the epoch.  An absent map entry is NONE.                               *)
(***************************************************************************)
EXTENDS Integers, Sequences, SequencesExt

CONSTANTS
    Nodes, Addrs,        \* node ids and the addresses they may have
    Dbs, Cos, Names,     \* database ids, collection ids, names
    CoDb,                \* CoDb[c]: the database collection c belongs to
    Groups, Shards,      \* group ids, shard ids
    ShardCo,             \* ShardCo[s]: the collection_id of shard s
    Replicas,            \* replica ids of a GroupState, as a sequence
    NONE                 \* an absent Option / map entry

VARIABLES
    node_id_lookup,      \* node id -> address
    db_id_lookup,        \* db id -> name of its DatabaseDesc
    db_name_lookup,      \* name -> db id
    co_id_lookup,        \* co id -> name of its CollectionDesc
    co_name_lookup,      \* <<db, name>> -> co id
    co_shards_lookup,    \* co id -> sequence of shard ids (Vec<ShardDesc>)
    shard_group_lookup,  \* shard id -> [group, epoch]
    group_id_lookup,     \* group id -> RouterGroupState [epoch, leader]
    cached_group_states  \* group id -> GroupState seen before its group

routerVars == <<node_id_lookup, db_id_lookup, db_name_lookup, co_id_lookup,
                co_name_lookup, co_shards_lookup, shard_group_lookup,
                group_id_lookup, cached_group_states>>

metaVars  == <<node_id_lookup, db_id_lookup, db_name_lookup, co_id_lookup,
               co_name_lookup>>
groupVars == <<co_shards_lookup, shard_group_lookup, group_id_lookup,
               cached_group_states>>

Roles == {"Leader", "Follower"}

\* A GroupState event: its leader_id (or NONE) and the replica states in
\* the order the message lists them.
ReplicaState(Terms) == [replica_id : Range(Replicas), term : Terms, role : Roles]
GroupStates(Terms) ==
    [group_id : Groups, leader_id : Range(Replicas) \cup {NONE},
     replicas : Seq(ReplicaState(Terms))]

\* The router-side GroupDesc: id, epoch and the shard ids it lists.
GroupDescs(Epochs) == [id : Groups, epoch : Epochs, shards : Seq(Shards)]

RouterInit ==
    /\ node_id_lookup     = [n \in Nodes |-> NONE]
    /\ db_id_lookup       = [d \in Dbs |-> NONE]
    /\ db_name_lookup     = [x \in Names |-> NONE]
    /\ co_id_lookup       = [c \in Cos |-> NONE]
    /\ co_name_lookup     = [k \in Dbs \X Names |-> NONE]
    /\ co_shards_lookup   = [c \in Cos |-> <<>>]
    /\ shard_group_lookup = [s \in Shards |-> NONE]
    /\ group_id_lookup    = [g \in Groups |-> NONE]
    /\ cached_group_states = [g \in Groups |-> NONE]

(***************************************************************************)
(* fn leader_state: with a leader_id, the replica with role Leader and   *)
(* the highest term; `sort_by_key` is stable and `pop` takes the last, so *)
(* among equal terms the one listed last wins.                            *)
(***************************************************************************)
\* Mutant: the first Leader-role replica instead of the highest term.
leader_state_first(gs) ==
    LET cands == SelectSeq(gs.replicas, LAMBDA r : r.role = "Leader")
    IN IF gs.leader_id = NONE \/ cands = <<>> THEN NONE
       ELSE [id |-> cands[1].replica_id, term |-> cands[1].term]

leader_state(gs) ==
    LET cands == SelectSeq(gs.replicas, LAMBDA r : r.role = "Leader")
        top   == SelectLastInSeq(cands,
                    LAMBDA r : \A i \in 1..Len(cands) : cands[i].term <= r.term)
    IN IF gs.leader_id = NONE \/ cands = <<>> THEN NONE
       ELSE [id |-> cands[top].replica_id, term |-> cands[top].term]

(***************************************************************************)
(* State::find_group_by_shard: the group recorded for the shard, unless   *)
(* the group's view is already newer than the epoch recorded with it.     *)
(* Returns the group id whose view the code returns, or NONE.             *)
(***************************************************************************)
\* Mutant: without the view-epoch check.
find_group_by_shard_unchecked(s) ==
    LET entry == shard_group_lookup[s]
    IN IF entry = NONE THEN NONE
       ELSE IF group_id_lookup[entry.group] = NONE THEN NONE
       ELSE entry.group

find_group_by_shard(s) ==
    LET entry == shard_group_lookup[s]
    IN IF entry = NONE THEN NONE
       ELSE IF group_id_lookup[entry.group] = NONE THEN NONE
       ELSE IF group_id_lookup[entry.group].epoch > entry.epoch THEN NONE
       ELSE entry.group

\* Router::find_group, Router::find_node_addr: plain map reads.
find_group(g) == group_id_lookup[g]
find_node_addr(n) == node_id_lookup[n]

(***************************************************************************)
(* State::apply_group_descriptor.  The view is overwritten whatever its   *)
(* epoch; it carries the old view's leader forward, or else consumes a    *)
(* cached GroupState.  Each listed shard moves to this group only if its  *)
(* recorded epoch is lower, and is re-pushed at the end of its           *)
(* collection's shard list.                                               *)
(***************************************************************************)
\* Mutant: an existing entry is never updated.
ShardEntryAfter_insert_only(s, d) ==
    IF s \in Range(d.shards) /\ shard_group_lookup[s] = NONE
    THEN [group |-> d.id, epoch |-> d.epoch]
    ELSE shard_group_lookup[s]

ShardEntryAfter(s, d) ==
    IF s \in Range(d.shards)
       /\ (shard_group_lookup[s] = NONE \/ shard_group_lookup[s].epoch < d.epoch)
    THEN [group |-> d.id, epoch |-> d.epoch]
    ELSE shard_group_lookup[s]

\* Mutant: push without the `retain`.
CoShardsAfter_no_retain(c, d) ==
    co_shards_lookup[c] \o SelectSeq(d.shards, LAMBDA s : ShardCo[s] = c)

CoShardsAfter(c, d) ==
    LET mine == SelectSeq(d.shards, LAMBDA s : ShardCo[s] = c)
    IN SelectSeq(co_shards_lookup[c], LAMBDA s : s \notin Range(mine)) \o mine

\* Mutant: the new view does not carry the old view's leader.
apply_group_descriptor_no_carry(d) ==
    LET old    == group_id_lookup[d.id]
        cached == cached_group_states[d.id]
        leader == IF old = NONE /\ cached # NONE THEN leader_state(cached) ELSE NONE
    IN /\ group_id_lookup' =
              [group_id_lookup EXCEPT ![d.id] = [epoch |-> d.epoch, leader |-> leader]]
       /\ cached_group_states' =
              IF old = NONE THEN [cached_group_states EXCEPT ![d.id] = NONE]
              ELSE cached_group_states
       /\ shard_group_lookup' = [s \in Shards |-> ShardEntryAfter(s, d)]
       /\ co_shards_lookup' = [c \in Cos |-> CoShardsAfter(c, d)]
       /\ UNCHANGED metaVars

\* Mutant: the view of a known group is kept (an or_insert in place of insert).
apply_group_descriptor_keep_view(d) ==
    LET old    == group_id_lookup[d.id]
        cached == cached_group_states[d.id]
        leader == IF cached # NONE THEN leader_state(cached) ELSE NONE
    IN /\ group_id_lookup' =
              IF old # NONE THEN group_id_lookup
              ELSE [group_id_lookup EXCEPT ![d.id] = [epoch |-> d.epoch, leader |-> leader]]
       /\ cached_group_states' =
              IF old = NONE THEN [cached_group_states EXCEPT ![d.id] = NONE]
              ELSE cached_group_states
       /\ shard_group_lookup' = [s \in Shards |-> ShardEntryAfter(s, d)]
       /\ co_shards_lookup' = [c \in Cos |-> CoShardsAfter(c, d)]
       /\ UNCHANGED metaVars

apply_group_descriptor(d) ==
    LET old    == group_id_lookup[d.id]
        cached == cached_group_states[d.id]
        leader == IF old # NONE THEN old.leader
                  ELSE IF cached # NONE THEN leader_state(cached)
                  ELSE NONE
    IN /\ group_id_lookup' =
              [group_id_lookup EXCEPT ![d.id] = [epoch |-> d.epoch, leader |-> leader]]
       /\ cached_group_states' =
              IF old = NONE THEN [cached_group_states EXCEPT ![d.id] = NONE]
              ELSE cached_group_states
       /\ shard_group_lookup' = [s \in Shards |-> ShardEntryAfter(s, d)]
       /\ co_shards_lookup' = [c \in Cos |-> CoShardsAfter(c, d)]
       /\ UNCHANGED metaVars

\* UpdateEvent::GroupState: set the leader of a materialised group, or
\* stash the event until its group descriptor arrives.
apply_group_state(gs) ==
    /\ IF group_id_lookup[gs.group_id] # NONE
       THEN /\ group_id_lookup' = [group_id_lookup EXCEPT
                    ![gs.group_id].leader = leader_state(gs)]
            /\ UNCHANGED cached_group_states
       ELSE /\ cached_group_states' = [cached_group_states EXCEPT ![gs.group_id] = gs]
            /\ UNCHANGED group_id_lookup
    /\ UNCHANGED <<co_shards_lookup, shard_group_lookup>>
    /\ UNCHANGED metaVars

\* UpdateEvent::Node
apply_node(n, addr) ==
    /\ node_id_lookup' = [node_id_lookup EXCEPT ![n] = addr]
    /\ UNCHANGED <<db_id_lookup, db_name_lookup, co_id_lookup, co_name_lookup>>
    /\ UNCHANGED groupVars

(***************************************************************************)
(* UpdateEvent::Database.  On a rename the code removes `name`, the NEW   *)
(* name, from db_name_lookup (router.rs:196), then inserts it again.      *)
(***************************************************************************)
apply_database(d, name) ==
    LET old == db_id_lookup[d]
        removed == IF old # NONE /\ old # name
                   THEN [db_name_lookup EXCEPT ![name] = NONE]
                   ELSE db_name_lookup
    IN /\ db_id_lookup' = [db_id_lookup EXCEPT ![d] = name]
       /\ db_name_lookup' = [removed EXCEPT ![name] = d]
       /\ UNCHANGED <<node_id_lookup, co_id_lookup, co_name_lookup>>
       /\ UNCHANGED groupVars

\* Mutant: on a rename the new key is removed, as apply_database does.
apply_collection_new_name(c, name) ==
    LET old == co_id_lookup[c]
        removed == IF old # NONE /\ old # name
                   THEN [co_name_lookup EXCEPT ![<<CoDb[c], name>>] = NONE]
                   ELSE co_name_lookup
    IN /\ co_id_lookup' = [co_id_lookup EXCEPT ![c] = name]
       /\ co_name_lookup' = [removed EXCEPT ![<<CoDb[c], name>>] = c]
       /\ UNCHANGED <<node_id_lookup, db_id_lookup, db_name_lookup>>
       /\ UNCHANGED groupVars

\* UpdateEvent::Collection: on a rename the old <<db, name>> key goes.
apply_collection(c, name) ==
    LET old == co_id_lookup[c]
        removed == IF old # NONE /\ old # name
                   THEN [co_name_lookup EXCEPT ![<<CoDb[c], old>>] = NONE]
                   ELSE co_name_lookup
    IN /\ co_id_lookup' = [co_id_lookup EXCEPT ![c] = name]
       /\ co_name_lookup' = [removed EXCEPT ![<<CoDb[c], name>>] = c]
       /\ UNCHANGED <<node_id_lookup, db_id_lookup, db_name_lookup>>
       /\ UNCHANGED groupVars

\* DeleteEvent::Node / Database / Collection.
delete_node(n) ==
    /\ node_id_lookup' = [node_id_lookup EXCEPT ![n] = NONE]
    /\ UNCHANGED <<db_id_lookup, db_name_lookup, co_id_lookup, co_name_lookup>>
    /\ UNCHANGED groupVars

delete_database(d) ==
    /\ db_id_lookup' = [db_id_lookup EXCEPT ![d] = NONE]
    /\ db_name_lookup' = IF db_id_lookup[d] # NONE
                         THEN [db_name_lookup EXCEPT ![db_id_lookup[d]] = NONE]
                         ELSE db_name_lookup
    /\ UNCHANGED <<node_id_lookup, co_id_lookup, co_name_lookup>>
    /\ UNCHANGED groupVars

delete_collection(c) ==
    /\ co_id_lookup' = [co_id_lookup EXCEPT ![c] = NONE]
    /\ co_name_lookup' = IF co_id_lookup[c] # NONE
                         THEN [co_name_lookup EXCEPT ![<<CoDb[c], co_id_lookup[c]>>] = NONE]
                         ELSE co_name_lookup
    /\ UNCHANGED <<node_id_lookup, db_id_lookup, db_name_lookup>>
    /\ UNCHANGED groupVars
=============================================================================
