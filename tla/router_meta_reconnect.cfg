CONSTANTS
    NONE = NONE
    PANIC = PANIC
    Nodes = {1}
    Addrs = {a1, a2}
    Dbs = {1, 2}
    Names = {n1, n2}
    Cos <- CosMeta
    CoDb <- CoDbMeta
    Groups = {}
    Shards = {}
    ShardCo <- NoShardCo
    InitOwner <- NoOwner
    Replicas <- ReplicasR
    EpochShift = 4
    MaxShardVer = 0
    MaxConfVer = 0
    MaxTerm = 0
    MaxMetaOps = 4
    MaxWatchFail = 0
    MaxStreamFail = 1
SPECIFICATION Spec
INVARIANT CollectionLookupMirrorsRoot
CHECK_DEADLOCK FALSE
