---------------------------- MODULE MCRouterWatch ----------------------------
(* Instances of RouterWatch for TLC. *)
EXTENDS RouterWatch

CONSTANT PANIC

\* Group runs: two groups (three for the epoch run), two shards of collection 1.
GroupsG3 == {1, 2, 3}
GroupsG2 == {1, 2}
ShardsS == {1, 2}
CosOne == {1}
ShardCoOne == [s \in ShardsS |-> 1]
InitOwnerG == [s \in ShardsS |-> 1]
ReplicasR == <<1, 2>>

\* Metadata runs: one node, two databases, two collections of database 1,
\* and no shards (the metadata run adds one group that only changes config).
CosMeta == {1, 2}
CoDbMeta == [c \in CosMeta |-> 1]
NoShardCo == [s \in {} |-> 1]
NoOwner == [s \in {} |-> 1]
-----------------------------------------------------------------------------
(***************************************************************************)
(* find_shard over the router's own state: the collection's shard list is *)
(* co_shards_lookup as the updater left it, and the shards whose group    *)
(* find_group_by_shard does not answer are hidden.  The collections are   *)
(* hash-partitioned with one slot per shard; a shard's slot_id is its     *)
(* rank among the shards of its collection.                               *)
(***************************************************************************)
CoSlots(c) == Cardinality({s \in Shards : ShardCo[s] = c})
SlotOf(s) == Cardinality({t \in Shards : ShardCo[t] = ShardCo[s] /\ t < s})

Locator(c) == INSTANCE ShardLocator WITH
    MaxKey <- 0, MaxCrc <- CoSlots(c), MaxShards <- CoSlots(c),
    mode <- "hash", slots <- CoSlots(c),
    shards <- [i \in DOMAIN co_shards_lookup[c] |->
                 [id |-> co_shards_lookup[c][i], slot_id |-> SlotOf(co_shards_lookup[c][i])]],
    hidden <- {s \in Shards : find_group_by_shard(s) = NONE},
    key <- NONE, crc <- 0, result <- NONE

(***************************************************************************)
(* In every state the updater can leave the router in, mid-stream and     *)
(* mid-migration included, find_shard on a hash-partitioned collection    *)
(* answers the shard of slot crc32(key) % slots when the router holds the *)
(* whole list and its group is known, NotFound otherwise, and never       *)
(* reaches the panicking `.unwrap()` of the slot search (router.rs:81-104 *)
(* reading the lists apply_group_descriptor builds, router.rs:217-239).   *)
(***************************************************************************)
RoutedFindShardCorrect ==
    \A c \in {c \in Cos : CoSlots(c) > 0} :
        \A h \in 0..CoSlots(c) : Locator(c)!FindShardHash(h) = Locator(c)!RefHash(h)
====
