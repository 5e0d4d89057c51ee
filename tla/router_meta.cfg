CONSTANTS
    NONE = NONE
    PANIC = PANIC
    Nodes = {1}
    Addrs = {a1, a2}
    Dbs = {1, 2}
    Names = {n1, n2}
    Cos <- CosMeta
    CoDb <- CoDbMeta
    Groups = {1}
    Shards = {}
    ShardCo <- NoShardCo
    InitOwner <- NoOwner
    Replicas <- ReplicasR
    EpochShift = 4
    MaxShardVer = 0
    MaxConfVer = 1
    MaxTerm = 0
    MaxMetaOps = 4
    MaxWatchFail = 11
    MaxStreamFail = 0
SPECIFICATION Spec
INVARIANT TypeOK CollectionLookupMirrorsRoot
CHECK_DEADLOCK FALSE
