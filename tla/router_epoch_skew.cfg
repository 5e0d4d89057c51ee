CONSTANTS
    NONE = NONE
    PANIC = PANIC
    Nodes = {}
    Addrs = {}
    Dbs = {}
    Names = {}
    Cos <- CosOne
    CoDb <- NoOwner
    Groups <- GroupsG3
    Shards <- ShardsS
    ShardCo <- ShardCoOne
    InitOwner <- InitOwnerG
    Replicas <- ReplicasR
    EpochShift = 4
    MaxShardVer = 2
    MaxConfVer = 0
    MaxTerm = 0
    MaxMetaOps = 0
    MaxWatchFail = 0
    MaxStreamFail = 0
SPECIFICATION Spec
INVARIANT QuiescentRoutesToOwner
CHECK_DEADLOCK FALSE
