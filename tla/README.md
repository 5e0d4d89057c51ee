# TLA+ models of engula's router, sorted tables and leader balancing

This directory has TLA+ models of parts of the engula source tree, checked with TLC. The source tree is under `src/` and its design document is `spec.md`.

The models cover:
- the client-side router cache and the task that keeps it up to date;
- the shard lookup of foreground requests;
- the sorted-table (SST) writer and reader;
- the quorum journal's append;
- the engine's key space with its incremental rehash;
- the root's leader-count balancing policy.

Every definition is translated from the Rust code. `PROJECT.json` maps each one to the lines it stands for. Code that is not in this tree is modelled from `spec.md` and marked `spec_modelled` in the map: the root's watch service, `block.rs` and `two_level_iterator.rs`, and the root's balancing round and raft elections around `LeaderCountPolicy`.

## The system's parts and how they interact

| Part | Source | State | Operations |
|---|---|---|---|
| RouterState | `src/src/client/src/router.rs` `State` | node, database and collection lookups by id and by name; collection → shard list; shard → (group, epoch); group → view (epoch, leader); GroupStates cached before their group is known | `apply_update_event` (Node, Group, GroupState, Database, Collection), `apply_delete_event`, `find_group_by_shard`, `find_group`, `find_node_addr` |
| RouterUpdater | `state_main`, `watch_events` | backoff interval, the watch stream | watch with the current group epochs, back off on error, apply each response's updates then deletes |
| ShardLocator | `Router::find_shard` | none (it reads RouterState under the mutex) | hash path (slot of `crc32(key)`) and range path |
| Root watch service | not in the tree (spec §4.7, §6) | group descriptors, group states, metadata | emits events; resends what differs from the caller's epochs when it resubscribes |
| SstBuilder + SstFileWriter | `src/engula/src/format/sstable.rs` | file, offset, data block, index block, last key, sticky error | `add`, `flush_data_block`, `finish`, `write_block` |
| SstReader | same file | the file and its size | `open`, `get`, `new_iterator`, `SstBlockIterGenerator::spawn` |
| InternalKey | `src/src/engine/luna/src/codec.rs` | none | the order: user key ascending, then timestamp descending |
| QuorumJournal | `src/engula/src/journal/quorum_journal.rs` | in-flight replica appends | `append`, `QuorumFuture::poll` under a timeout |
| KeySpace | `src/src/engine/src/key_space.rs` | current table, next table during a rehash | `insert`, `remove`, `get`, `advance_rehash`, `random_objects`, `drain_next_space`, `drain_current_space` |
| Replica retry | `src/src/server/src/node/replica/retry.rs` | execution context epoch, refreshed descriptor | `execute_internal` retry loop |
| LeaderCountPolicy | `src/src/server/src/root/allocator/policy_leader_cnt.rs` | none (it reads the AllocSource: node leader counts, group placement, replica states) | `compute_balance`, answering Noop or one leader transfer |
| Shard GC | `src/src/server/src/node/migrate/gc.rs` | last deleted key | `remove_shard` chunk loop |
| GET command, objects | `cmd/get.rs`, `objects/*.rs` | none worth modelling | I/O glue and owned pointers |

**How the parts interact.**
- There is one updater task. It calls `root.watch(epochs)` and applies the resulting stream to `State`, taking the mutex once per event.
- Foreground calls of `find_shard` and `find_group_by_shard` read `State` under the same mutex. This happens at any point between two events.
- The root emits the following:
  - group descriptors, each carrying `epoch = shard-set version << 32 | config version`;
  - group states, which report leaders with their terms;
  - node, database and collection descriptors and deletes.
- When a stream breaks, the updater subscribes again with the epochs it has. The root then resends the descriptors that differ, the group states and a metadata snapshot.
- A table is written once by its single owner, through an append-only sink, and is then read by any number of readers.

**Hard behaviours.**
- Descriptors of different groups arrive in any order, and a shard moves between groups by two separate descriptors.
- A group state can arrive before its group's descriptor.
- Streams break and are resubscribed.
- A write can fail partway through a block.
- A caller can retry `finish`.

## Modules

### `RouterState.tla`: the cache and its handlers

- **Variables.** The nine fields of `State`. A group view is `[epoch, leader]`.
- **Handlers.** Each handler of `apply_update_event` and `apply_delete_event` is an operator on the whole state:
  - `apply_group_descriptor` is the descriptor handler, with `ShardEntryAfter` and `CoShardsAfter` for its two loops;
  - `apply_group_state`, `apply_node`, `apply_database` and `apply_collection` are the other update handlers;
  - `delete_*` are the delete handlers.
- **Lookups.** `leader_state` is the free function of the same name. `find_group_by_shard` applies the epoch test.

### `RouterWatch.tla`: the updater and the root around it

The root is modelled with these pieces:
- `rootEpoch`, `rootShards` and `rootGs` are the root's current view of each group.
- A shard migration is two steps:
  1. `RootMigrateIn` adds the shard to the destination group and bumps that group's shard-set version.
  2. `RootMigrateOut` removes it from the source group and bumps the source's version.
- `RootConfChange` bumps the config version.
- `RootElect` elects a replica with a higher term. The old leader may still report `Leader`, because its report can be stale.
- The metadata operations create, rename and drop nodes, databases and collections.

The streams are modelled as channels:
- Each group has its own FIFO of descriptors (`gchan[g]`) and its own FIFO of states (`schan[g]`).
- Metadata has one FIFO (`metaChan`).
- Events of different groups interleave in any order.

The updater has these actions:
- `WatchFail` doubles the backoff up to 1000.
- `WatchOk` fills the channels the way the root answers a subscription from the router's current epochs (`Watermark`) and resets the backoff.
- `StreamBreak` drops whatever was not delivered.
- `ApplyGroupEvent`, `ApplyStateEvent` and `ApplyMetaEvent` each apply one event to the cache. They are the per-event critical sections of `watch_events`.

`appliedShards` and `lastGs` are history variables. They record the last descriptor and the last state the router applied for each group, so the properties can refer to them.

Router runs use `MCRouterWatch.tla`. It also composes `ShardLocator` with the router: `Locator(c)` instantiates `ShardLocator` with collection `c`'s shard list from `co_shards_lookup` and the shards whose group `find_group_by_shard` cannot find. `RoutedFindShardCorrect` then checks the hash path of `find_shard` on every list the router really holds.

### `ShardLocator.tla` (and `MCShardLocator.tla`): `Router::find_shard`

- The state is a collection and a shard list that the router can hold. A list holds shards of the collection, each at most once, in any order, and possibly not all of them yet. Some shards are hidden, meaning their group is not found.
- Keys are naturals, standing for byte strings in their order, with 0 as the empty key or the unbounded end. `crc` is any value.
- `FindShard` is one call, recording the key, the crc and the answer: a shard, `NONE` for NotFound, or `PANIC`.
- `MCShardLocator` restricts a run to hash-partitioned or range-partitioned collections.

### `SstTable.tla`: the SST builder and reader

- **The file.** The file is a sequence of cells, one per record: a data entry, an index entry or the footer. Handles count cells. A block of n records is n cells.
- **Failures.** `write_all` can fail after any proper prefix of its buffer.
- **Outcomes.** `AddOutcomes` and `FinishOutcomes` list what one `add` or one `finish` can do: each success, and each failure at each point, in the code's order.
- **The caller.** `CallerMayAdd` and `CallerMayFinish` model the caller. It adds entries in increasing InternalKey order, then calls finish, and calls finish again only after an error (up to `MaxFinish` calls).
- **The reader.** The reader is a set of operators over the written file:
  - `open` reads the footer, then the index, and ignores short reads as the code does;
  - `spawn` asserts a full block read;
  - `Scan` iterates the whole table;
  - `get` seeks the index and then the block.

### `QuorumJournal.tla`: `QuorumJournal::append` and `QuorumFuture`

- **Flights.** An append starts one flight per replica. Each flight answers `ok` or `err` once, in any order, and wakes the task.
- **`Poll`.** This is `QuorumFuture::poll`. It finds Ready every flight that has answered (`Answered`) and counts them afresh. A flight that returned Ready to an earlier poll (`taken`) panics when it is polled again: it is an `async fn` future.
- **`TimerFires`.** This is tokio's `Timeout`. It polls the quorum once more, and fails the append only if the quorum is still pending.
- **Serialisation.** The clients mutex serialises appends, so they are modelled one after another.

### `KeySpace.tla` and `KeyValueMap.tla`: the engine's key space

- **State.** `ks` holds `current_space`, `next_space` (or `NONE`) and their capacities. A table is a function from its keys to their objects.
- **Calls.** Every public call (`Insert`, `Remove`, `Get`) first runs `advance_rehash`, then the body of `insert`, `remove` or `get`. Inserting a new key outside a rehash runs `ensure_enough_space`, which may start a rehash and advance it at once.
- **Samples and drains.** `RandomObjects`, `DrainNext` and `DrainCurrent` do not advance the rehash, as in the code. `random_objects_from_space` starts at any bucket of any hash order and tops up from bucket 0; `random_objects` takes the rest of the limit from `next_space`. A drain of `next_space` leaves it an empty `Some`.
- **Rehash order.** `advance_rehash` moves any `Step + 1` entries, because the order of a RawTable's iteration is set by hashes. When no more than `Step` entries remain, it moves them all and swaps the tables.
- **Abstract map.** `KeyValueMap` is a key→object map together with the call that last touched it. A sample there is up to n distinct objects of the map (all of them when n exceeds its size); a drain removes some bindings and hands exactly those back. `KeySpace` maps onto it by `View`, which is the lookup next-then-current that `get` performs. `KeySpaceIsAMap` is the abstract `Spec`, checked as a property.
- **Return values.** `last` records each call's return value and the object the key held before the call.

### `LeaderBalance.tla` (and `MCLeaderBalance.tla`): `LeaderCountPolicy`

- **The source the policy reads.** `leader` maps each group to the node leading it, so a node's `leader_count` is `LeaderCount(n)`. `reported` is the set of replicas that have a `replica_state`; the others are skipped by the code (line 92), and `Report` adds one.
- **The arithmetic.** `mean_leader_count` is kept as the pair total/count. `leader_balance_state` compares with mean ± 0.5 in integers scaled by 2·count, which is exact. With no schedulable node the f64 mean is NaN, every comparison is false and every node is Balanced, as here.
- **Order.** `rank_nodes_for_leader` returns every order that the `sort_by` comparator allows, because the nodes come out of a HashMap. `node_replicas` lists replicas in no fixed order, so `try_descrease_node_leader_count` returns the set of decisions the code can return, `{}` for None. `compute_balance` is the union over the rank orders.
- **Around the policy** (from the spec). `Balance` is one round of the root: it carries out a Shed as a leadership transfer, which raft refuses when the target is a learner. `Elect` is a raft election, bounded by `MaxElect`.

## Runs

| Run | Expect | Checks | What it shows |
|---|---|---|---|
| `router_groups` | pass | `RoutedGroupServesShard`, `QuiescentRoutesToOwner`, `CoShardsListEachShardOnce`, `LeaderFromLatestState`, `RoutedFindShardCorrect`, `GroupViewsCatchUp` | Across two groups with one shard migration (in either direction; `MaxShardVer = 1` allows each group one shard-set change and `MaxConfVer = 0` no replica-set change), elections up to term 2 with stale Leader reports, and a stream break: (1) a routed shard is always in the applied descriptor of the group it routes to; (2) once everything is delivered, every shard routes to its owner; (3) a collection's list has each shard once and all of them; (4) the router's leader is the highest-term Leader of the latest state it applied; (5) `find_shard`'s hash path, over every list the router holds, answers the slot's shard or NotFound and never panics; (6) once the root stops changing, every group view reaches the root's epoch for good and every shard not in the middle of a move routes to its owner, even after a stream break. |
| `router_epoch_skew` | violation | `QuiescentRoutesToOwner` | With three groups, a shard moved into a group with a lower shard-set version than its old group stays hidden for as long as the receiving group's epoch does not rise above the stale entry's (finding). |
| `router_meta` | pass | `TypeOK`, `CollectionLookupMirrorsRoot` | Across collection create, rename and drop, and config changes of one group, the (db, name) lookup equals the root's once the stream is drained. Across 11 failed watches the backoff stays within 1..1000. |
| `router_db_rename` | violation | `DatabaseLookupMirrorsRoot` | After a database rename the old name still resolves (finding). |
| `router_meta_reconnect` | violation | `CollectionLookupMirrorsRoot` | A collection dropped while the stream is down stays in the router's lookups after the reconnect, for good: `state_main` resubscribes with group epochs only (finding). |
| `locator_range` | violation | `RangeFindShardCorrect` | The range path's end test is inverted (finding). |
| `sst_build` | pass | `FinishedTableReadsBack`, `FinishedTableGetsEach` | With a failing or partial write anywhere, a table that finish reports Ok for reads back exactly what was added, and `get` finds each entry and nothing else. |
| `quorum_repoll` | violation | `NeverPollsCompletedFlight` | Any later poll of a future that has already seen one answer Ready panics: in TLC's trace one replica answers, the future is polled (one Ready, no quorum yet), and the timeout's poll re-polls that completed flight (finding). |
| `keyspace_map` | pass | `KeyInOneTable`, `TablesWithinCapacity`, `KeySpaceIsAMap` | Calls, samples and drains land before, inside and after a rehash that moves entries in any order. No key is ever in both tables, and the key space refines a map in which each insert binds, each remove unbinds, each get changes nothing, a sample returns up to its limit of distinct live objects and a drain hands back exactly what it removes. Neither table ever holds more entries than its capacity, so the unsafe `insert_no_grow` is never called on a full table. |
| `keyspace_insert_return` | violation | `ReturnsPreviousObject` | An insert during a rehash, of a key not yet moved, returns None and drops the object it replaced (finding). |
| `leader_balance` | pass | `ShedLowersSpread`, `BalanceSettles` | From every placement of leaders, with missing replica states and up to two elections: every transfer the policy asks for lowers the sum of squared leader counts, and repeated balancing rounds end in Noop for good. |
| `sst_finish_retry` | violation | `FinishedTableReadsBack` | A second finish after a failed one returns Ok for a table that has lost a block (finding). |

Each property of a passing run has a mutant in `PROJECT.json`: a plausible bug in one mapped definition. TLC finds each mutant violating the property under the run's own configuration.

### Bounds, and why they are enough

- **Router runs.**
  - **Groups and shards.** `router_groups` uses 2 groups and 2 shards, shard-set versions up to 1, and one stream break. This covers a move out racing the destination's descriptor and a resubscribe in the middle of a move. Config changes are checked in `router_meta` (one group, config version up to 1), so the two state spaces stay within minutes.
  - **Why 3 groups are needed for the skew.** Two groups bump their versions in lockstep when they swap a shard. A third group is the smallest case in which a shard lands in a group with a lower version, and `router_epoch_skew` uses it.
  - **Liveness.** With `GroupViewsCatchUp`, `router_groups` takes about two and a half minutes: the behaviour graph is built for the fairness condition.
  - **Elections.** `router_groups` has terms up to 2. That gives a stale Leader report alongside the new one, and a group state cached before its descriptor.
  - **Metadata.** `router_meta` uses 4 metadata operations over 2 databases, 2 collections and 2 names. That is enough for create, rename to a free name, and drop, in either database.
  - **Backoff.** `router_meta` also allows 11 watch failures, so the backoff reaches its cap of 1000 (1, 2, … 512, 1000).
  - **Epoch encoding.** The epoch encoding keeps its shape with `EpochShift = 4` in place of 2^32. Config versions stay below it, as the 32-bit field does in the code.
- **`RoutedFindShardCorrect`.** It checks every crc mod slots on each list the router reaches; `locator_range` enumerates every list of up to 3 shards.
- **`leader_balance`.** 3 nodes and 4 groups, one of them the root group, with the placement in `MCLeaderBalance` (one group on two nodes only, so a target may hold no replica). Every leader assignment is an initial state. Two replica states may be missing, and `MaxElect = 2` lets elections re-create imbalance twice after balancing began.
- **`quorum_repoll`.** Three replicas and two appends. This is the smallest quorum in which answers can split across wakes (one, then two).
- **`keyspace_*`.** 4 keys and 7 calls, sample limits 2 and 5 (below and above the number of live keys), with `Step = 0` (one entry moved per call). `keyspace_map` starts at capacity 2, so four keys cause two successive rehashes (capacity 2 → 4 → 8). That is the smallest case in which keys outnumber the first capacity, so a wrong next capacity would overflow. The second rehash leaves entries behind in `current_space` for later calls to meet. The model's capacity is exactly the requested one, never more than hashbrown's, so a table within it is within the real one. `keyspace_insert_return` starts at capacity 4; its rehash starts at the 4th key, and the next call leaves two entries behind: that is the window in which a call meets a key still in `current_space`. In the code (`ADVANCE_STEP = 64`, first capacity 28) the same window opens at capacity 224, the first rehash that needs more than two calls.
- **`sst_build`.** It uses 3 keys × 2 timestamps, blocks of 2 records and up to 5 adds. That gives tables of up to three blocks, with flushes both in `add` and in `finish`, and a failure at any write.

### Fairness and deadlock

- **Fairness.** Two runs check liveness:
  - `leader_balance`. Its `Spec` assumes `WF_vars(Balance)`: the root runs its balancing round periodically for as long as it lives, so a round that stays possible is eventually run. No fairness is assumed of elections or heartbeats; they may stop at any point.
  - `router_groups`. `RouterWatch`'s `Spec` assumes `WF_vars(UpdaterStep)`, where `UpdaterStep` is the disjunction of the updater task's own steps: a successful `watch` and the application of one event. The task is spawned for the life of the `Router` and loops without exit (`state_main`), and gRPC delivers what the stream holds. Weak fairness on the disjunction is weaker than on each step; it is enough because the channels are finite. The root's changes, failed watches and stream breaks get no fairness: they may stop at any point, and the bounds make them stop.
  - All other properties are safety properties.
- **Deadlock.** `leader_balance` checks deadlock (a balancing round is always possible). It is off (`CHECK_DEADLOCK FALSE`) in the other runs, for these reasons:
  - The updater legitimately waits on an idle stream once the root's bounded operations are spent.
  - A finished table builder has nothing left to do.
  - `find_shard` is a lookup that can be repeated.

## What is not modelled yet, and the plan

- **Replica retry loop** (`retry.rs`). Not modelled. `execute_internal`'s loop is in this tree, but `Replica::execute`, which decides between Ok, ServiceIsBusy, EpochNotMatch and ShardNotFound, is not. A model of the loop would be mostly assumption. The hazards at `retry.rs:84` and `:91` (retrying forever while busy; a repeated epoch that only a debug assertion catches) record what such a model would check.
- **LeaderCountPolicy, left out.**
  - Learner replicas as transfer targets. The `leader_balance` run has none. With a learner that stays, `BalanceSettles` fails: the policy can return the same transfer, which raft refuses, every round (hazard at `policy_leader_cnt.rs:109`).
  - Leader counts that are stale between heartbeats. The cadence of the root's rounds is not in this tree.
- **Shard GC** (`gc.rs`). Not modelled. The chunk loop ends only if `GroupEngine::snapshot(Start{start_key})` and `Replica::delete_chunks` behave as it assumes, and neither is in this tree.
- **Router, still to add:**
  - responses that batch several events. The root's batching is not in this tree. A response carrying the drop of one collection and the create of another under the same name would be applied create first, and `delete_collection` would then remove the new name.
  - `DeleteEvent::Group`, which is `todo!()` in the code.
- **InternalKey.** The byte encoding and the Eq/Ord pair (Ord ignores the value kind, Eq does not) are not modelled: no code in this tree calls them.
- **Not to be modelled:** the GET command and the object types. They are I/O glue and pointer ownership with no protocol to check.
