CONSTANTS
    NONE = NONE
    PANIC = PANIC
    Nodes = {}
    Addrs = {}
    Dbs = {}
    Names = {}
    Cos <- CosOne
    CoDb <- NoOwner
    Groups <- GroupsG2
    Shards <- ShardsS
    ShardCo <- ShardCoOne
    InitOwner <- InitOwnerG
    Replicas <- ReplicasR
    EpochShift = 4
    MaxShardVer = 1
    MaxConfVer = 0
    MaxTerm = 2
    MaxMetaOps = 0
    MaxWatchFail = 0
    MaxStreamFail = 1
SPECIFICATION Spec
INVARIANT RoutedGroupServesShard QuiescentRoutesToOwner CoShardsListEachShardOnce LeaderFromLatestState RoutedFindShardCorrect
PROPERTY GroupViewsCatchUp
CHECK_DEADLOCK FALSE
