---------------------------- MODULE ShardLocator ----------------------------
(***************************************************************************)
(* Router::find_shard (src/src/client/src/router.rs:71-136): the shard of *)
(* a collection that a user key belongs to, over the collection's shard  *)
(* list as co_shards_lookup holds it.                                     *)
(*                                                                         *)
(* A user key is a byte string; keys are the naturals 0..MaxKey in the    *)
(* lexicographic order of the strings they stand for, 0 being the empty   *)
(* string (a range end of 0 is `end = vec![]`, "MAX").  crc32 of a key is *)
(* any value in 0..MaxCrc: the properties must hold whatever it is.       *)
(* A shard list is one the router can hold: shards of the collection,    *)
(* each once (RouterWatch!CoShardsListEachShardOnce), in any order, not   *)
(* necessarily all of them yet.  Hidden shards are those whose group      *)
(* find_group_by_shard does not answer.                                   *)
(***************************************************************************)
EXTENDS Integers, Sequences, SequencesExt

CONSTANTS MaxKey, MaxCrc, MaxShards, NONE, PANIC

Keys == 0..MaxKey

VARIABLES
    mode,      \* "hash" or "range": the CollectionDesc's partition
    slots,     \* HashPartition.slots
    shards,    \* co_shards_lookup[desc.id]: sequence of shard descriptors
    hidden,    \* shard ids find_group_by_shard answers None for
    key,       \* user key of the last find_shard, or NONE
    crc,       \* crc32 of that key
    result     \* answer of the last find_shard: shard id, NONE or PANIC

vars == <<mode, slots, shards, hidden, key, crc, result>>

\* Hash shards: shard i has slot_id i - 1.  Range shards of a split of the
\* key space at increasing keys, shard i being the i-th range.
HashShard(i) == [id |-> i, slot_id |-> i - 1]

RangeShardsOf(splits) ==
    LET n == Len(splits) + 1
    IN [i \in 1..n |->
          [id |-> i,
           start |-> IF i = 1 THEN 0 ELSE splits[i - 1],
           end |-> IF i = n THEN 0 ELSE splits[i]]]

Splits == {sp \in BoundedSeq(1..MaxKey, MaxShards - 1) :
              \A i \in 1..Len(sp) - 1 : sp[i] < sp[i + 1]}

\* The sequences of distinct elements of a set of shards, any subset.
Lists(S) == UNION {SetToSeqs(T) : T \in SUBSET S}

Init ==
    /\ result = NONE
    /\ key = NONE
    /\ crc = 0
    /\ \/ /\ mode = "hash"
          /\ slots \in 1..MaxShards
          /\ shards \in Lists({HashShard(i) : i \in 1..slots})
       \/ /\ mode = "range"
          /\ slots = 0
          /\ \E sp \in Splits :
                shards \in Lists(Range(RangeShardsOf(sp)))
    /\ hidden \in SUBSET {shards[i].id : i \in DOMAIN shards}

(***************************************************************************)
(* Hash path: slot = crc % slots; an expired list (length differs from    *)
(* slots) is NotFound; otherwise the shard with that slot_id is found     *)
(* with `.unwrap()`, which panics when there is none.                     *)
\* Mutant: without the expired-list check.
FindShardHash_unchecked(h) ==
    LET slot == h % slots
        i == SelectInSeq(shards, LAMBDA s : s.slot_id = slot)
    IN IF shards = <<>> THEN NONE
       ELSE IF i = 0 THEN PANIC
       ELSE IF shards[i].id \in hidden THEN NONE
       ELSE shards[i].id

(***************************************************************************)
FindShardHash(h) ==
    LET slot == h % slots
        i == SelectInSeq(shards, LAMBDA s : s.slot_id = slot)
    IN IF shards = <<>> \/ slots # Len(shards) THEN NONE
       ELSE IF i = 0 THEN PANIC
       ELSE IF shards[i].id \in hidden THEN NONE
       ELSE shards[i].id

(***************************************************************************)
(* Range path: the first shard, in list order, with start <= key that     *)
(* passes the code's end test `end < key || end.is_empty()`; its group    *)
(* lookup failing is NotFound at once.                                    *)
(***************************************************************************)
RangeHit(s, k) == ~(s.start > k) /\ (s.end < k \/ s.end = 0)

FindShardRange(k) ==
    LET i == SelectInSeq(shards, LAMBDA s : RangeHit(s, k))
    IN IF i = 0 THEN NONE
       ELSE IF shards[i].id \in hidden THEN NONE
       ELSE shards[i].id

\* A foreground call of find_shard on key k whose crc32 is c.
FindShard(k, c) ==
    /\ key' = k
    /\ crc' = c
    /\ result' = IF mode = "hash" THEN FindShardHash(c) ELSE FindShardRange(k)
    /\ UNCHANGED <<mode, slots, shards, hidden>>

Next == \E k \in Keys, c \in 0..MaxCrc : FindShard(k, c)

Spec == Init /\ [][Next]_vars

-----------------------------------------------------------------------------
(* Reference definitions, from the spec (4.9), and properties.             *)

\* The shard whose range holds k: start <= k < end, an empty end = MAX.
InRange(s, k) == s.start <= k /\ (s.end = 0 \/ k < s.end)

RefRange(k) ==
    IF \E s \in Range(shards) : InRange(s, k) /\ s.id \notin hidden
    THEN (CHOOSE s \in Range(shards) : InRange(s, k)).id
    ELSE NONE

\* The shard of slot crc % slots when the list is complete, else NotFound.
RefHash(c) ==
    IF /\ Len(shards) = slots
       /\ \E s \in Range(shards) : s.slot_id = c % slots /\ s.id \notin hidden
    THEN (CHOOSE s \in Range(shards) : s.slot_id = c % slots).id
    ELSE NONE

(***************************************************************************)
(* find_shard on a hash-partitioned collection answers the shard of slot  *)
(* crc32(key) % slots when the router's list is complete and NotFound     *)
(* when it is expired, and never panics in the `.unwrap()` of the slot    *)
(* search (router.rs:94-104), whatever part of the list the router has.   *)
(***************************************************************************)
HashFindShardCorrect ==
    (mode = "hash" /\ key # NONE) => result = RefHash(crc)

(***************************************************************************)
(* find_shard on a range-partitioned collection answers the shard whose   *)
(* range holds the key, start <= key < end (spec 4.9), when that shard is *)
(* in the list and its group known, and NotFound otherwise                *)
(* (router.rs:118-135).                                                   *)
(***************************************************************************)
RangeFindShardCorrect ==
    (mode = "range" /\ key # NONE) => result = RefRange(key)
=============================================================================
